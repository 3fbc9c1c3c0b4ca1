--------------------------- MODULE PlaybackProofs ---------------------------
EXTENDS Playback, TLAPS

\* A page has resolved a file that was there, and no call has begun without one.
PageInv ==
    /\ wav # NoName /\ ~touched => files[wav] # Absent
    /\ call = "none" => elapsed = 0 /\ sound = "none"

\* The clock of a call whose file is as it was: the delay and the recording
\* follow the media, and the deadline leaves room for all three.
CallInv ==
    Alive =>
        /\ sound = "delay" => elapsed <= mark /\ mark <= mediaAt + answer_delay
        /\ ~Disturbed => /\ timeout + 1 >= ring_timeout + files[wav] + Margin
                         /\ sound = "playing" => mark <= mediaAt + answer_delay + files[wav]

IInv == TypeOK /\ PageInv /\ CallInv /\ NotCutShort /\ NotSilent

-----------------------------------------------------------------------------
(* The look-ups                                                            *)

LEMMA PathIsGiven ==
    ASSUME NEW name \in Given
    PROVE  /\ path_for(name) \in Given
           /\ path_for(name) # NoName => path_for(name) = name /\ name \in Names /\ files[name] # Absent
BY DEF path_for, Given

\* Whatever a page resolves to is a file of the directory.
LEMMA ResolvedFileExists ==
    ASSUME LibraryTypeOK, NEW name \in Recordings \ {NoName}
    PROVE  name \in Names /\ files[name] # Absent
<1>1. ASSUME NEW n \in Given, path_for(n) # NoName
      PROVE  path_for(n) \in Names /\ files[path_for(n)] # Absent
  BY <1>1, PathIsGiven
<1>2. /\ audio.default_file \in Given /\ audio.iqama_file \in Given
      /\ \A p \in Prayers : audio.per_prayer[p] \in Given /\ audio.iqama_per_prayer[p] \in Given
  <2>1. audio \in [use_global_for_all : BOOLEAN, default_file : Given,
                   per_prayer : [Prayers -> Given], iqama_file : Given,
                   iqama_per_prayer : [Prayers -> Given]]
    BY LibraryAssumption DEF LibraryTypeOK
  <2> QED BY <2>1
<1>3. ASSUME NEW p \in Prayers
      PROVE  /\ \E n \in Given : resolve_for_prayer(p) = path_for(n)
             /\ \E n \in Given : resolve_iqama_for_prayer(p) = path_for(n)
  BY <1>2 DEF resolve_for_prayer, resolve_iqama_for_prayer
<1>4. \E n \in Given : name = path_for(n)
  BY <1>3 DEF Recordings, Given
<1> QED BY <1>1, <1>4

LEMMA DurationIsNat ==
    ASSUME LibraryTypeOK, NEW name \in Names, NEW dur \in DurationsOf(name)
    PROVE  /\ dur \in Nat
           /\ files[name] \in Lens => dur = files[name]
           /\ files[name] # Absent /\ files[name] # Partial => files[name] \in Lens
<1>1. files[name] \in Lens \cup {Absent, Partial}
  BY DEF LibraryTypeOK
<1>2. Lens \subseteq Nat /\ Absent \notin Lens /\ Partial \notin Lens
  BY LibraryAssumption
<1>3. dur \in Lens \cup {0}
  BY DEF DurationsOf
<1>4. files[name] \in Lens => dur = files[name]
  BY DEF DurationsOf
<1> QED BY <1>1, <1>2, <1>3, <1>4

\* The deadline leaves room for the recording, but for the second that int()
\* drops, after the ringing.
LEMMA DeadlineIsEnough ==
    ASSUME NEW dur \in Nat, NEW t \in Deadline(dur)
    PROVE  t \in Nat /\ t + 1 >= ring_timeout + dur + Margin
<1>1. PICK d \in {dur, dur - 1} \cap Nat :
          t = ring_timeout + (IF d + Margin > max_call_seconds THEN d + Margin
                              ELSE max_call_seconds)
  BY DEF Deadline
<1>2. d \in Nat /\ d + 1 >= dur
  BY <1>1
<1> QED BY <1>1, <1>2, PlaybackAssumption

LEMMA LibraryTypeStep ==
    ASSUME LibraryTypeOK, LibraryStep
    PROVE  LibraryTypeOK'
<1> USE DEF LibraryTypeOK, Given
<1>1. ASSUME NEW name \in Names, UploadBegins(name) PROVE LibraryTypeOK'
  BY <1>1 DEF UploadBegins
<1>2. ASSUME NEW name \in Names, DeleteLooksUp(name) \/ DeleteRemoves(name) PROVE LibraryTypeOK'
  BY <1>2 DEF DeleteLooksUp, DeleteRemoves
<1>3. ASSUME UploadEnds \/ UploadFails \/ Assign PROVE LibraryTypeOK'
  BY <1>3 DEF UploadEnds, UploadFails, Assign
<1> QED BY <1>1, <1>2, <1>3 DEF LibraryStep

-----------------------------------------------------------------------------
LEMMA ConstantsAreNat ==
    /\ ring_timeout \in Nat /\ max_call_seconds \in Nat /\ answer_delay \in Nat
    /\ hangup_after_eof \in Nat /\ Margin \in Nat /\ Dests \in Nat \ {0}
BY PlaybackAssumption

LEMMA InitInv ==
    ASSUME Init
    PROVE  IInv
<1>1. LibraryTypeOK
  BY DEF Init, LibraryInit, LibraryTypeOK, Given
<1>2. left \in 0 .. Dests /\ elapsed \in 0 .. timeout /\ wav \in Given
  BY ConstantsAreNat DEF Init, Given
<1>3. TypeOK
  BY <1>1, <1>2 DEF Init, TypeOK
<1>4. PageInv /\ CallInv /\ NotCutShort /\ NotSilent
  BY DEF Init, PageInv, CallInv, Alive, NotCutShort, NotSilent
<1> QED BY <1>3, <1>4 DEF IInv

LEMMA TypeStep ==
    ASSUME TypeOK, PageInv, CallInv, [Next]_vars
    PROVE  TypeOK'
<1> USE ConstantsAreNat DEF TypeOK
<1>1. ASSUME BeginPage PROVE TypeOK'
  <2>1. wav' \in Names
    BY <1>1, ResolvedFileExists DEF BeginPage
  <2>2. LibraryTypeOK'
    BY <1>1 DEF BeginPage, libraryVars, LibraryTypeOK
  <2>3. left' \in 0 .. Dests
    BY <1>1 DEF BeginPage
  <2> QED BY <1>1, <2>1, <2>2, <2>3 DEF BeginPage, callVars, Given
<1>2. ASSUME Library PROVE TypeOK'
  BY <1>2, LibraryTypeStep DEF Library, callVars
<1>3. ASSUME CallStep \/ UNCHANGED vars PROVE LibraryTypeOK'
  BY <1>3 DEF CallStep, Dial, Answer, MediaActive, StartPlayback, AudioEnds, HangUp, Bye, Expire, EndCall,
              Tick, vars, libraryVars, LibraryTypeOK
<1>4. ASSUME Dial PROVE TypeOK'
  <2>1. wav \in Names
    BY <1>4 DEF Dial, Given
  <2>2. timeout' \in Nat
    BY <1>4, <2>1, DurationIsNat, DeadlineIsEnough DEF Dial
  <2>3. elapsed \in 0 .. timeout'
    BY <1>4, <2>2 DEF Dial, PageInv
  <2> QED BY <1>3, <1>4, <2>2, <2>3 DEF CallStep, Dial
<1>5. ASSUME EndCall PROVE TypeOK'
  BY <1>3, <1>5 DEF CallStep, EndCall, NoCall, Given
<1>6. ASSUME StartPlayback PROVE TypeOK'
  <2>1. wav \in Names
    BY <1>6 DEF StartPlayback, Alive, Given
  <2>2. mark' \in Nat
    BY <1>6, <2>1, DurationIsNat DEF StartPlayback
  <2> QED BY <1>3, <1>6, <2>2 DEF CallStep, StartPlayback, Over, Alive
<1>7. ASSUME Answer \/ MediaActive \/ AudioEnds \/ HangUp \/ Bye \/ Expire \/ Tick PROVE TypeOK'
  <2>1. LibraryTypeOK' /\ UNCHANGED <<wav, left, timeout, touched>> /\ wav # NoName
    BY <1>3, <1>7 DEF CallStep, Answer, MediaActive, AudioEnds, HangUp, Bye, Expire, Tick, Alive
  <2>2. elapsed' \in 0 .. timeout /\ mark' \in Nat /\ mediaAt' \in Nat
    BY <1>7 DEF Answer, MediaActive, AudioEnds, HangUp, Bye, Expire, Tick
  <2>3. /\ call' \in {"none", "ringing", "answered", "over"}
        /\ sound' \in {"none", "delay", "playing", "ended"}
        /\ outcome' \in {"none", "silent", "ended", "bye", "cut", "expired"}
    BY <1>7 DEF Answer, MediaActive, AudioEnds, HangUp, Bye, Expire, Tick, Over
  <2> QED BY <2>1, <2>2, <2>3
<1>8. ASSUME UNCHANGED vars PROVE TypeOK'
  BY <1>3, <1>8 DEF vars, callVars
<1> QED BY <1>1, <1>2, <1>4, <1>5, <1>6, <1>7, <1>8 DEF Next, CallStep

LEMMA PageStep ==
    ASSUME TypeOK, PageInv, [Next]_vars
    PROVE  PageInv'
<1> USE DEF PageInv
<1>1. ASSUME BeginPage PROVE PageInv'
  BY <1>1, ResolvedFileExists DEF BeginPage, TypeOK, libraryVars, callVars
<1>2. ASSUME Library PROVE PageInv'
  BY <1>2 DEF Library, callVars
<1>3. ASSUME EndCall PROVE PageInv'
  <2>1. left = 0 \/ left > 0
    BY ConstantsAreNat DEF TypeOK
  <2> QED BY <1>3, <2>1 DEF EndCall, NoCall, libraryVars
<1>4. ASSUME (CallStep /\ ~EndCall) \/ UNCHANGED vars PROVE PageInv'
  BY <1>4 DEF CallStep, Dial, Answer, MediaActive, StartPlayback, AudioEnds, HangUp, Bye, Expire,
              Over, Alive, Tick, vars, libraryVars, callVars
<1> QED BY <1>1, <1>2, <1>3, <1>4 DEF Next

\* A disturbed page stays so, and the file of another one stays as it is.
LEMMA DisturbedStays ==
    ASSUME Library, wav # NoName
    PROVE  (Disturbed => Disturbed') /\ (~Disturbed' => files'[wav] = files[wav])
BY DEF Library, Disturbed

LEMMA UndisturbedFile ==
    ASSUME TypeOK, PageInv, wav # NoName, ~Disturbed
    PROVE  wav \in Names /\ files[wav] \in Lens /\ files[wav] \in Nat \ {0}
<1>1. wav \in Names /\ files[wav] # Absent /\ files[wav] # Partial
  BY DEF TypeOK, PageInv, Disturbed, Given
<1>2. files[wav] \in Lens
  BY <1>1, DurationIsNat DEF TypeOK, LibraryTypeOK
<1> QED BY <1>1, <1>2, LibraryAssumption

LEMMA CallInvStep ==
    ASSUME TypeOK, PageInv, CallInv, [Next]_vars
    PROVE  CallInv'
<1> SUFFICES ASSUME Alive'
             PROVE  /\ sound' = "delay" => elapsed' <= mark' /\ mark' <= mediaAt' + answer_delay
                    /\ ~Disturbed' => /\ timeout' + 1 >= ring_timeout + files'[wav'] + Margin
                                      /\ sound' = "playing" => mark' <= mediaAt' + answer_delay + files'[wav']
  BY DEF CallInv
<1>0. /\ elapsed \in Nat /\ timeout \in Nat /\ elapsed <= timeout /\ mark \in Nat /\ mediaAt \in Nat
      /\ LibraryTypeOK
  BY DEF TypeOK
<1> USE ConstantsAreNat
<1>1. CASE Library
  <2>1. UNCHANGED <<wav, call, sound, elapsed, timeout, mark, mediaAt>>
    BY <1>1 DEF Library, callVars
  <2>2. Alive /\ wav # NoName
    BY <2>1 DEF Alive, TypeOK
  <2>3. ~Disturbed' => ~Disturbed /\ files'[wav] = files[wav]
    BY <1>1, <2>2, DisturbedStays
  <2> QED BY <2>1, <2>2, <2>3 DEF CallInv
<1>2. CASE Dial
  <2>1. /\ call' = "ringing" /\ sound' = "none" /\ wav # NoName /\ wav' = wav /\ files' = files /\ touched' = touched
    BY <1>2 DEF Dial, PageInv, libraryVars
  <2>2. ASSUME ~Disturbed' PROVE timeout' + 1 >= ring_timeout + files[wav] + Margin
    <3>1. ~Disturbed
      BY <2>1, <2>2 DEF Disturbed
    <3>2. wav \in Names /\ files[wav] \in Lens /\ files[wav] \in Nat
      BY <2>1, <3>1, UndisturbedFile
    <3>3. timeout' \in Deadline(files[wav])
      BY <1>0, <1>2, <3>2, DurationIsNat DEF Dial
    <3> QED BY <3>2, <3>3, DeadlineIsEnough
  <2> QED BY <2>1, <2>2
<1>3. ASSUME UNCHANGED <<libraryVars, wav, touched>> PROVE Disturbed' = Disturbed /\ files' = files
  BY <1>3 DEF Disturbed, libraryVars
<1>4. CASE Answer
  BY <1>0, <1>3, <1>4 DEF Answer, CallInv, Alive
<1>5. CASE MediaActive
  <2>1. /\ Alive /\ sound' = "delay" /\ mark' = elapsed + answer_delay /\ mediaAt' = elapsed
        /\ UNCHANGED <<libraryVars, wav, call, elapsed, timeout, touched>>
    BY <1>5 DEF MediaActive, Alive
  <2> QED BY <1>0, <1>3, <2>1 DEF CallInv
<1>6. CASE StartPlayback
  <2>1. /\ Alive /\ sound = "delay" /\ elapsed = mark
        /\ UNCHANGED <<libraryVars, wav, elapsed, timeout, mediaAt, touched>>
    BY <1>6 DEF StartPlayback
  <2>2. PICK len \in DurationsOf(wav) : mark' = elapsed + len /\ sound' = "playing" /\ call' = call
    BY <1>6 DEF StartPlayback, Over, Alive
  <2>3. wav \in Names /\ len \in Nat
    <3>1. wav \in Names
      BY <2>1 DEF TypeOK, Alive, Given
    <3> QED BY <1>0, <3>1, DurationIsNat
  <2>4. ~Disturbed => len = files[wav]
    <3>1. wav # NoName
      BY <2>1 DEF TypeOK, Alive
    <3>2. ~Disturbed => files[wav] \in Lens
      BY <3>1, UndisturbedFile
    <3>3. files[wav] \in Lens => len = files[wav]
      BY <1>0, <2>3, DurationIsNat
    <3> QED BY <3>2, <3>3
  <2>5. elapsed <= mediaAt + answer_delay
    BY <2>1 DEF CallInv
  <2>6. ~Disturbed => timeout + 1 >= ring_timeout + files[wav] + Margin
    BY <2>1 DEF CallInv
  <2>7. elapsed + len <= mediaAt + answer_delay + len
    BY <1>0, <2>3, <2>5
  <2> QED BY <1>3, <2>1, <2>2, <2>4, <2>6, <2>7
<1>7. CASE AudioEnds
  <2>1. /\ Alive /\ sound' = "ended"
        /\ UNCHANGED <<libraryVars, wav, elapsed, timeout, mediaAt, touched>>
    BY <1>7 DEF AudioEnds
  <2> QED BY <1>0, <1>3, <2>1 DEF CallInv
<1>8. CASE Tick
  <2>1. /\ Alive /\ elapsed' = elapsed + 1 /\ (sound = "delay" => elapsed < mark)
        /\ UNCHANGED <<libraryVars, wav, call, sound, timeout, mark, mediaAt, touched>>
    BY <1>8 DEF Tick
  <2> QED BY <1>0, <1>3, <2>1 DEF CallInv
<1>9. CASE UNCHANGED vars
  BY <1>3, <1>9 DEF vars, callVars, CallInv, Alive
<1>10. CASE BeginPage \/ HangUp \/ Bye \/ Expire \/ EndCall
  <2>1. ~Alive'
    BY <1>10 DEF BeginPage, HangUp, Bye, Expire, EndCall, NoCall, Over, Alive, TypeOK, callVars
  <2> QED BY <2>1
<1> QED BY <1>1, <1>2, <1>4, <1>5, <1>6, <1>7, <1>8, <1>9, <1>10 DEF Next, CallStep

\* How a call may come to an end.
LEMMA OutcomeStep ==
    ASSUME TypeOK, PageInv, CallInv, NotCutShort, NotSilent, [Next]_vars
    PROVE  NotCutShort' /\ NotSilent'
<1> USE DEF NotCutShort, NotSilent
<1>0. /\ elapsed \in Nat /\ timeout \in Nat /\ mark \in Nat /\ mediaAt \in Nat
  BY DEF TypeOK
<1>1. CASE Library
  <2>1. UNCHANGED <<wav, call, sound, mediaAt, outcome>>
    BY <1>1 DEF Library, callVars
  <2>2. call = "over" => wav # NoName
    BY DEF TypeOK
  <2> QED BY <1>1, <2>1, <2>2, DisturbedStays
<1>2. CASE StartPlayback
  <2>1. ASSUME outcome' = "silent", call' = "over" PROVE Disturbed'
    <3>1. call' # call /\ UNCHANGED <<libraryVars, wav, touched>> /\ wav # NoName
      BY <1>2, <2>1 DEF StartPlayback, Alive, TypeOK
    <3>2. files[wav] \notin Lens
      BY <1>2, <3>1 DEF StartPlayback
    <3>3. Disturbed
      BY <3>1, <3>2, UndisturbedFile
    <3> QED BY <3>1, <3>3 DEF Disturbed, libraryVars
  <2>2. call' = "over" => outcome' = "silent"
    BY <1>2 DEF StartPlayback, Over, Alive
  <2> QED BY <2>1, <2>2
<1>3. CASE Expire
  <2>1. ASSUME outcome' = "cut", answer_delay < Margin, sound # "none", ~(mediaAt > ring_timeout), ~Disturbed
        PROVE FALSE
    <3>1. Alive /\ wav # NoName /\ elapsed = timeout /\ Unfinished
      BY <1>3, <2>1 DEF Expire, Over, Alive, TypeOK
    <3>2. files[wav] \in Nat \ {0}
      BY <2>1, <3>1, UndisturbedFile
    <3>3. timeout + 1 >= ring_timeout + files[wav] + Margin
      BY <2>1, <3>1 DEF CallInv
    <3>4. mediaAt <= ring_timeout /\ answer_delay + 1 <= Margin
      BY <1>0, <2>1, ConstantsAreNat
    <3>5. CASE sound = "delay"
      <4>1. elapsed <= mediaAt + answer_delay
        BY <1>0, <3>1, <3>5, ConstantsAreNat DEF CallInv
      <4> QED BY <1>0, <3>1, <3>2, <3>3, <3>4, <4>1, ConstantsAreNat
    <3>6. CASE sound = "playing" /\ elapsed < mark
      <4>1. mark <= mediaAt + answer_delay + files[wav]
        BY <2>1, <3>1, <3>6 DEF CallInv
      <4> QED BY <1>0, <3>1, <3>2, <3>3, <3>4, <3>6, <4>1, ConstantsAreNat
    <3> QED BY <2>1, <3>1, <3>5, <3>6 DEF Unfinished
  <2>2. /\ outcome' \in {"cut", "expired"} /\ mediaAt' = mediaAt /\ sound' = sound /\ Disturbed' = Disturbed
    BY <1>3 DEF Expire, Over, Disturbed, libraryVars
  <2> QED BY <2>1, <2>2
<1>4. CASE UNCHANGED vars
  BY <1>4 DEF vars, callVars, libraryVars, Disturbed
<1>5. CASE BeginPage
  BY <1>5 DEF BeginPage, TypeOK, callVars
<1>6. CASE Dial \/ Answer \/ MediaActive \/ AudioEnds \/ HangUp \/ Bye \/ EndCall \/ Tick
  <2>1. call' = "over" => outcome' \in {"ended", "bye"}
    BY <1>6 DEF Dial, Answer, MediaActive, AudioEnds, HangUp, Bye, EndCall, Tick, NoCall, Over, Alive
  <2> QED BY <2>1
<1> QED BY <1>1, <1>2, <1>3, <1>4, <1>5, <1>6 DEF Next, CallStep

LEMMA Inductive == Spec => []IInv
<1>1. Init => IInv
  BY InitInv
<1>2. IInv /\ [Next]_vars => IInv'
  BY TypeStep, PageStep, CallInvStep, OutcomeStep DEF IInv
<1> QED BY <1>1, <1>2, PTL DEF Spec

-----------------------------------------------------------------------------
\* The clock of a call never passes its timeout, a call exists within a page
\* only, and the library stays in its types.
THEOREM TypeCorrect == Spec => []TypeOK
<1>1. IInv => TypeOK
  BY DEF IInv
<1> QED BY <1>1, Inductive, PTL

\* For every length of recording, cap, ring time and delay below the margin: a
\* phone whose media is active within ring_timeout hears the whole of a
\* recording that nobody changes.
THEOREM HeardInFull == Spec => []NotCutShort
<1>1. IInv => NotCutShort
  BY DEF IInv
<1> QED BY <1>1, Inductive, PTL

\* A call that ends without a sound is one whose file was deleted, replaced or
\* half-written meanwhile.
THEOREM NotCalledInVain == Spec => []NotSilent
<1>1. IInv => NotSilent
  BY DEF IInv
<1> QED BY <1>1, Inductive, PTL
=============================================================================
