------------------------------ MODULE Playback ------------------------------
(***************************************************************************)
(* One page from its recording to the phones, in time: _do_page resolves a *)
(* file, _dial_one reads its length once more for the deadline of the call *)
(* and waits, and the callbacks of _Call open the file when the media of   *)
(* the call becomes active, answer_delay later.  All of them only hold its *)
(* name, while AudioLibrary replaces and deletes files under them.         *)
(*                                                                         *)
(* Paging models the threads of a page without time; this module models    *)
(* the clock of one call at a time.  A tick stands for a second; a length  *)
(* is rounded up to ticks.                                                 *)
(***************************************************************************)
EXTENDS AudioLibrary

CONSTANTS
    Dests,         \* number of enabled destinations, dialled one after another
    ring_timeout, max_call_seconds, answer_delay, hangup_after_eof,  \* CallConfig
    Margin,        \* the 10 s added to the length of the recording
    EarlyMedia     \* the exchange sends media before the answer

ASSUME PlaybackAssumption ==
    /\ Dests \in Nat \ {0}
    /\ {ring_timeout, max_call_seconds, answer_delay, hangup_after_eof} \subseteq Nat
    /\ Margin \in Nat
    /\ EarlyMedia \in BOOLEAN

VARIABLES
    wav,        \* the file the page resolved, NoName without a page
    left,       \* destinations still to dial
    call,       \* none, ringing, answered or over
    sound,      \* of the call: none, delay, playing, ended
    elapsed,    \* ticks since done.wait began
    timeout,    \* its timeout
    mark,       \* when the delay, the file or the delay after it is over
    \* history: read by no action
    mediaAt,    \* when the media of the call became active
    touched,    \* the file has changed since the page resolved it
    outcome     \* how the call ended

callVars == <<call, sound, elapsed, timeout, mark, mediaAt, outcome>>
vars == <<libraryVars, wav, left, callVars, touched>>

NoCall ==
    /\ call' = "none" /\ sound' = "none"
    /\ elapsed' = 0 /\ timeout' = 0 /\ mark' = 0
    /\ mediaAt' = 0 /\ outcome' = "none"

Init ==
    /\ LibraryInit
    /\ wav = NoName /\ left = 0
    /\ call = "none" /\ sound = "none"
    /\ elapsed = 0 /\ timeout = 0 /\ mark = 0
    /\ mediaAt = 0 /\ touched = FALSE /\ outcome = "none"

Alive == call \in {"ringing", "answered"}

-----------------------------------------------------------------------------
(* scheduler._do_page and _do_page_file, under _page_lock                  *)

\* The file of an adhan, of an iqama, which falls back on the adhan's, and of
\* a test of one file.
Recordings ==
    {resolve_for_prayer(p) : p \in Prayers}
    \cup {IF resolve_iqama_for_prayer(p) # NoName THEN resolve_iqama_for_prayer(p)
          ELSE resolve_for_prayer(p) : p \in Prayers}
    \cup {path_for(n) : n \in Names}

\* Without a file the page is skipped and recorded as an error.
BeginPage ==
    /\ wav = NoName
    /\ wav' \in Recordings \ {NoName}
    /\ left' = Dests
    /\ UNCHANGED <<libraryVars, callVars, touched>>

\* Mutant: without the length of the recording.
DeadlineFixed(dur) == {ring_timeout + max_call_seconds}

\* int() drops the last, incomplete second of a length: d is int(dur).
Deadline(dur) ==
    {ring_timeout + (IF d + Margin > max_call_seconds THEN d + Margin
                     ELSE max_call_seconds) : d \in {dur, dur - 1} \cap Nat}

\* The file is known by name: each destination reads its length again.
Dial ==
    /\ wav # NoName /\ call = "none" /\ left > 0
    /\ left' = left - 1
    /\ call' = "ringing"
    /\ \E dur \in DurationsOf(wav) : timeout' \in Deadline(dur)
    /\ UNCHANGED <<libraryVars, wav, sound, elapsed, mark, mediaAt, touched, outcome>>

\* Mutant: the clock of the call runs on.
EndCallKeepsClock ==
    /\ call = "over"
    /\ call' = "none" /\ sound' = "none"
    /\ timeout' = 0 /\ mark' = 0 /\ mediaAt' = 0 /\ outcome' = "none"
    /\ wav' = IF left = 0 THEN NoName ELSE wav
    /\ touched' = (touched /\ left > 0)
    /\ UNCHANGED <<libraryVars, left, elapsed>>

EndCall ==
    /\ call = "over"
    /\ NoCall
    /\ wav' = IF left = 0 THEN NoName ELSE wav
    /\ touched' = (touched /\ left > 0)
    /\ UNCHANGED <<libraryVars, left>>

-----------------------------------------------------------------------------
(* The phone and the callbacks of _Call                                    *)

Answer ==
    /\ call = "ringing"
    /\ call' = "answered"
    /\ UNCHANGED <<libraryVars, wav, left, sound, elapsed, timeout, mark, mediaAt, touched, outcome>>

\* onCallMediaState does not ask whether the call is answered.  It may come
\* late or never, or raise in getAudioMedia: the call then stays silent.
MediaActive ==
    /\ call = "answered" \/ (call = "ringing" /\ EarlyMedia)
    /\ sound = "none"
    /\ sound' = "delay"
    /\ mark' = elapsed + answer_delay
    /\ mediaAt' = elapsed
    /\ UNCHANGED <<libraryVars, wav, left, call, elapsed, timeout, touched, outcome>>

Over(how) == call' = "over" /\ outcome' = how

\* The player opens the file of that name now; without one the call ends.
StartPlayback ==
    /\ Alive
    /\ sound = "delay" /\ elapsed = mark
    /\ \/ /\ files[wav] # Absent
          /\ \E len \in DurationsOf(wav) : mark' = elapsed + len
          /\ sound' = "playing"
          /\ UNCHANGED <<call, outcome>>
       \/ /\ files[wav] \notin Lens
          /\ Over("silent")
          /\ UNCHANGED <<sound, mark>>
    /\ UNCHANGED <<libraryVars, wav, left, elapsed, timeout, mediaAt, touched>>

\* The callback of the player, which may come late or never.  A file that is
\* rewritten under it may end earlier; one that is deleted plays on.
AudioEnds ==
    /\ Alive
    /\ sound = "playing"
    /\ elapsed >= mark \/ (touched /\ files[wav] # Absent)
    /\ sound' = "ended"
    /\ mark' = elapsed + hangup_after_eof
    /\ UNCHANGED <<libraryVars, wav, left, call, elapsed, timeout, mediaAt, touched, outcome>>

HangUp ==
    /\ Alive
    /\ sound = "ended" /\ elapsed >= mark
    /\ Over("ended")
    /\ UNCHANGED <<libraryVars, wav, left, sound, elapsed, timeout, mark, mediaAt, touched>>

\* The phone hangs up or refuses, makeCall raises, or the operator stops the
\* page.
Bye ==
    /\ Alive
    /\ Over("bye")
    /\ UNCHANGED <<libraryVars, wav, left, sound, elapsed, timeout, mark, mediaAt, touched>>

\* The recording has not been played to its end.
Unfinished == sound \in {"none", "delay"} \/ (sound = "playing" /\ elapsed < mark)

\* Mutant: the wait is bounded after the answer only.
ExpireAnswered ==
    /\ call = "answered"
    /\ elapsed = timeout
    /\ Over(IF Unfinished THEN "cut" ELSE "expired")
    /\ UNCHANGED <<libraryVars, wav, left, sound, elapsed, timeout, mark, mediaAt, touched>>

\* done.wait returns without the event: the call is hung up.
Expire ==
    /\ Alive
    /\ elapsed = timeout
    /\ Over(IF call = "answered" /\ Unfinished THEN "cut" ELSE "expired")
    /\ UNCHANGED <<libraryVars, wav, left, sound, elapsed, timeout, mark, mediaAt, touched>>

\* Time passes neither the end of the sleep before the playback nor the
\* deadline; the callbacks need not be in time.
Tick ==
    /\ Alive
    /\ elapsed < timeout
    /\ sound = "delay" => elapsed < mark
    /\ elapsed' = elapsed + 1
    /\ UNCHANGED <<libraryVars, wav, left, call, sound, timeout, mark, mediaAt, touched, outcome>>

-----------------------------------------------------------------------------
\* What the library does to the file of the running page.
Library ==
    /\ LibraryStep
    /\ touched' = (touched \/ (wav # NoName /\ files'[wav] # files[wav]))
    /\ UNCHANGED <<wav, left, callVars>>

CallStep == Dial \/ Answer \/ MediaActive \/ StartPlayback \/ AudioEnds \/ HangUp
            \/ Bye \/ Expire \/ EndCall \/ Tick

Next == BeginPage \/ CallStep \/ Library

\* Time passes, the sleep of the callback and the wait of _dial_one end, and
\* the page goes on.  Phones need not answer, nor the library call back.
Fairness ==
    /\ WF_vars(Dial) /\ WF_vars(StartPlayback) /\ WF_vars(Expire)
    /\ WF_vars(EndCall) /\ WF_vars(Tick)

Spec == Init /\ [][Next]_vars /\ Fairness

-----------------------------------------------------------------------------
\* The variables have their types; a call exists only within a page.
TypeOK ==
    /\ LibraryTypeOK
    /\ wav \in Given /\ left \in 0 .. Dests
    /\ call \in {"none", "ringing", "answered", "over"}
    /\ sound \in {"none", "delay", "playing", "ended"}
    /\ timeout \in Nat /\ elapsed \in 0 .. timeout
    /\ mark \in Nat /\ mediaAt \in Nat
    /\ touched \in BOOLEAN
    /\ outcome \in {"none", "silent", "ended", "bye", "cut", "expired"}
    /\ wav = NoName => call = "none"

\* The file has changed under the page, or its last upload has failed.
Disturbed == touched \/ files[wav] = Partial

\* A phone whose media is active within ring_timeout is not cut off before the
\* end of the recording, however long that is and whatever max_call_seconds
\* says, unless the file was changed under the page: the deadline of
\* _dial_one leaves room for the answer and a delay below the margin.  (Media
\* that never becomes active leaves the call silent until the deadline.)
NotCutShort ==
    outcome = "cut" /\ call = "over" /\ answer_delay < Margin =>
        sound = "none" \/ mediaAt > ring_timeout \/ Disturbed

\* A phone that was dialled finds a recording to play, unless it was deleted
\* or replaced between the moment the page resolved it and the playback.
NotSilent == outcome = "silent" /\ call = "over" => Disturbed

\* A page ends, whatever the phones do, whether or not media and the end of the
\* file are reported, and whatever happens to its file.
PageEnds == wav # NoName ~> wav = NoName
=============================================================================
