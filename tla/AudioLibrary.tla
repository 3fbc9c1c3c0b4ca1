---------------------------- MODULE AudioLibrary ----------------------------
(***************************************************************************)
(* The recordings in AUDIO_DIR and their assignment to prayers.  An upload *)
(* runs on the event loop, which serves nothing else until ffmpeg is done; *)
(* ffmpeg -y opens the .wav itself, so the old recording is gone from the  *)
(* first moment.  A delete runs on a pool thread and looks the file up     *)
(* before it removes it.  Pages read the directory at any time.            *)
(***************************************************************************)
EXTENDS Integers

CONSTANTS
    Names,        \* the .wav names in AUDIO_DIR
    Prayers,
    Lens,         \* lengths of recordings, in ticks
    Assignments,  \* the values of config.audio that may be saved
    NoName,       \* "" and None
    Absent,       \* no file of this name
    Partial       \* a file that ffmpeg is writing, or has given up

Given == Names \cup {NoName}

ASSUME LibraryAssumption ==
    /\ NoName \notin Names
    /\ Lens \subseteq Nat \ {0} /\ Absent \notin Lens /\ Partial \notin Lens
    /\ Absent # Partial
    /\ Assignments \subseteq [use_global_for_all : BOOLEAN, default_file : Given,
                              per_prayer : [Prayers -> Given], iqama_file : Given,
                              iqama_per_prayer : [Prayers -> Given]]

VARIABLES
    files,      \* what each name holds: a length, Absent or Partial
    audio,      \* config.get().audio
    converting, \* the name _convert_to_wav is writing
    deleting    \* the names delete_file has looked up and not yet removed

libraryVars == <<files, audio, converting, deleting>>

LibraryInit ==
    /\ files \in [Names -> Lens \cup {Absent}]
    /\ audio \in Assignments
    /\ converting = NoName
    /\ deleting = {}

LoopIsFree == converting = NoName

-----------------------------------------------------------------------------
(* Look-up                                                                 *)

\* Mutant: without os.path.isfile.
path_forUnchecked(name) == name

path_for(name) == IF name # NoName /\ files[name] # Absent THEN name ELSE NoName

\* The default stands in for a prayer without a file, not for a missing file.
resolve_for_prayer(prayer) ==
    path_for(IF audio.use_global_for_all \/ audio.per_prayer[prayer] = NoName
             THEN audio.default_file ELSE audio.per_prayer[prayer])

resolve_iqama_for_prayer(prayer) ==
    path_for(IF audio.iqama_per_prayer[prayer] = NoName
             THEN audio.iqama_file ELSE audio.iqama_per_prayer[prayer])

\* The durations duration_of may return; the header of a partial file may say
\* anything.
DurationsOf(name) ==
    IF files[name] \in Lens THEN {files[name]}
    ELSE IF files[name] = Partial THEN Lens \cup {0}
    ELSE {0}

-----------------------------------------------------------------------------
(* Uploads, deletes and assignments                                        *)

\* save_upload: ffmpeg truncates the file it is to write.  An upload that
\* ffmpeg refuses before that leaves everything as it was.
UploadBegins(name) ==
    /\ LoopIsFree
    /\ converting' = name
    /\ files' = [files EXCEPT ![name] = Partial]
    /\ UNCHANGED <<audio, deleting>>

\* A file deleted meanwhile stays deleted, although the upload reports success.
UploadEnds ==
    /\ ~LoopIsFree
    /\ \/ files[converting] = Absent /\ UNCHANGED files
       \/ /\ files[converting] # Absent
          /\ \E len \in Lens : files' = [files EXCEPT ![converting] = len]
    /\ converting' = NoName
    /\ UNCHANGED <<audio, deleting>>

\* ffmpeg fails half-way or is killed after 120 s; what it wrote stays.
UploadFails ==
    /\ ~LoopIsFree
    /\ converting' = NoName
    /\ UNCHANGED <<files, audio, deleting>>

DeleteLooksUp(name) ==
    /\ LoopIsFree
    /\ path_for(name) # NoName
    /\ deleting' = deleting \cup {name}
    /\ UNCHANGED <<files, audio, converting>>

\* os.remove; it raises if another delete was faster.
DeleteRemoves(name) ==
    /\ name \in deleting
    /\ deleting' = deleting \ {name}
    /\ files' = [files EXCEPT ![name] = Absent]
    /\ UNCHANGED <<audio, converting>>

\* A save of the section "audio".
Assign ==
    /\ LoopIsFree
    /\ audio' \in Assignments \ {audio}
    /\ UNCHANGED <<files, converting, deleting>>

LibraryStep ==
    \/ \E name \in Names :
          UploadBegins(name) \/ DeleteLooksUp(name) \/ DeleteRemoves(name)
    \/ UploadEnds \/ UploadFails \/ Assign

LibraryTypeOK ==
    /\ files \in [Names -> Lens \cup {Absent, Partial}]
    /\ audio \in Assignments
    /\ converting \in Given
    /\ deleting \subseteq Names
=============================================================================
