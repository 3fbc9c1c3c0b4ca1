------------------------------ MODULE WebClient -----------------------------
(***************************************************************************)
(* The web page as editor of the configuration: its copy CFG, the values   *)
(* in the forms, the sections marked as unsaved, and the calls of the API  *)
(* it waits for.  The browser runs one handler at a time; a handler stops  *)
(* at each await, and the operator goes on.                                *)
(*                                                                         *)
(* Two sections stand for those that are stored as they were sent.         *)
(* "prayer" is rendered again by the import of a timetable, by the         *)
(* recommended method and by loadTimeline; "destinations" when a row is    *)
(* added or deleted, and by setLang.  Not among them: a location, which    *)
(* the server may correct and save does not render again; the audio form,  *)
(* which comes with a fetch of its own after a discard; the call form,     *)
(* which is rebuilt with the rows, so that an edit of it is lost and stays *)
(* marked; and the button that saves location and method together.         *)
(*                                                                         *)
(* A request may be processed late, an answer overtake another, and a call *)
(* be given up (a timeout, the network) whether or not it is processed.    *)
(***************************************************************************)
EXTENDS Integers

CONSTANTS
    Methods,     \* calculation methods
    Rows,        \* the lists of destinations
    Discards,    \* calls that discard: their button is not disabled meanwhile
    MaxSent      \* bound: requests the operator causes, two by an import

VARIABLES
    server,     \* the configuration the server has
    CFG,        \* the page's copy
    form,       \* what the fields show
    DIRTY,      \* sections marked as unsaved
    waiting,    \* the calls a handler of the page is waiting for
    requests,   \* sent and not processed
    answers,    \* processed, and awaited
    timeline,   \* a loadTimeline waits for the prayer times
    sent,
    \* history: read by no action
    typed,      \* sections with an edit on the screen that the server never had
    raced,      \* sections whose form last changed while a save of them was awaited
    mixed       \* since the last reload calls overlapped, one was given up, or one
                \* reported as failed had been stored in a section not marked

vars == <<server, CFG, form, DIRTY, waiting, requests, answers, timeline,
          sent, typed, raced, mixed>>

Sections == {"prayer", "destinations"}

\* source (TRUE: manual) changes with an import, method with the
\* recommendation, rows with adding and deleting.  Typing may change all.
Values == [prayer |-> [source : BOOLEAN, method : Methods],
           destinations |-> [rows : Rows]]
Configs == [prayer : Values.prayer, destinations : Values.destinations]

Saves == Sections            \* a call that saves is named by its section
Gets == Discards \cup {"reload"}
Calls == Saves \cup Gets \cup {"import"}

ASSUME WebClientAssumption ==
    MaxSent \in Nat /\ Discards \cap (Sections \cup {"import", "reload"}) = {}

Init ==
    /\ server \in Configs
    /\ server.prayer.source = FALSE
    /\ CFG = server
    /\ form = server
    /\ DIRTY = {}
    /\ waiting = {}
    /\ requests = {}
    /\ answers = {}
    /\ timeline = FALSE
    /\ sent = 0
    /\ typed = {}
    /\ raced = {}
    /\ mixed = FALSE

Changed == {s \in Sections : form'[s] # form[s]}
Race == raced' = (raced \ Changed) \cup (waiting \cap Changed)

-----------------------------------------------------------------------------
(* The operator                                                            *)

\* An edit marks its section: setDirty(section, true).
Edited(s) ==
    /\ DIRTY' = DIRTY \cup {s}
    /\ typed' = typed \cup Changed
    /\ Race
    /\ UNCHANGED <<server, waiting, requests, answers, timeline, sent, mixed>>

\* Typing into a field, or choosing: watchDirty.
Type(s) ==
    /\ \E v \in Values[s] \ {form[s]} : form' = [form EXCEPT ![s] = v]
    /\ UNCHANGED CFG
    /\ Edited(s)

\* Adding or deleting a destination changes CFG and renders the rows from it.
AlterRows ==
    /\ \E rows \in Rows \ {CFG.destinations.rows} :
          CFG' = [CFG EXCEPT !.destinations.rows = rows]
    /\ form' = [form EXCEPT !.destinations = CFG'.destinations]
    /\ Edited("destinations")

\* Applying the recommended method changes CFG and renders the schedule from it.
ApplyRecommended ==
    /\ \E method \in Methods \ {CFG.prayer.method} :
          CFG' = [CFG EXCEPT !.prayer.method = method]
    /\ form' = [form EXCEPT !.prayer = CFG'.prayer]
    /\ Edited("prayer")

\* nth tells apart requests that are alike.
Request(call, data) ==
    [call |-> call, data |-> data, heard |-> TRUE,
     nth |-> CHOOSE n \in 0 .. MaxSent :
                \A r \in requests : r.call = call /\ r.data = data => r.nth # n]

Send(call, data) ==
    /\ sent' = sent + (IF call = "import" THEN 2 ELSE 1)
    /\ sent' <= MaxSent
    /\ waiting' = waiting \cup {call}
    /\ requests' = requests \cup {Request(call, data)}
    /\ mixed' = (IF call \in Discards THEN requests \cup answers # {} ELSE mixed \/ waiting # {})
    /\ UNCHANGED <<server, CFG, form, DIRTY, answers, timeline, typed, raced>>

\* Seeded fault: the button can be pressed again.
PressSaveTwice(s) == Send(s, form[s])

\* withBtn disables a button while its call is awaited.
PressSave(s) ==
    /\ s \notin waiting
    /\ Send(s, form[s])

\* discardChanges, once the operator has confirmed.
PressDiscard(call) ==
    /\ DIRTY # {}
    /\ call \notin waiting
    /\ Send(call, {})

PressImport ==
    /\ {"import", "reload"} \cap waiting = {}
    /\ Send("import", {})

\* setLang renders every form but the schedule, which it leaves to loadTimeline.
\* A change of language waits until nothing is unsaved; enterApp, after a new
\* login, does not.
SetLang ==
    /\ form' = [form EXCEPT !.destinations = CFG.destinations]
    /\ timeline' = TRUE
    /\ typed' = typed \ Changed
    /\ Race
    /\ UNCHANGED <<server, CFG, DIRTY, waiting, requests, answers, sent, mixed>>

\* The poll of every minute asks for the prayer times too.
PollTimes ==
    /\ ~timeline
    /\ timeline' = TRUE
    /\ UNCHANGED <<server, CFG, form, DIRTY, waiting, requests, answers, sent,
                   typed, raced, mixed>>

-----------------------------------------------------------------------------
(* The server: the handlers are atomic to one another.                     *)

Answer(r, ok, config) ==
    /\ requests' = requests \ {r}
    /\ answers' = IF r.heard
                  THEN answers \cup {[call |-> r.call, ok |-> ok, config |-> config]}
                  ELSE answers
    /\ UNCHANGED <<CFG, form, DIRTY, waiting, timeline, sent>>

\* The handler may raise when the section is stored already: in the write of
\* the file, the restart of the engine or the rebuild of the schedule.
Stored(r, section) ==
    \E ok \in BOOLEAN :
        /\ mixed' = (mixed \/ (~ok /\ section \notin DIRTY))
        /\ Answer(r, ok, server')

ProcessSave(r) ==
    /\ r.call \in Saves
    /\ server' = [server EXCEPT ![r.call] = r.data]
    /\ IF r.data = form[r.call]
       THEN typed' = typed \ {r.call} /\ raced' = raced \ {r.call}
       ELSE UNCHANGED <<typed, raced>>
    /\ Stored(r, r.call)

ProcessImport(r) ==
    /\ r.call = "import"
    /\ server' = [server EXCEPT !.prayer.source = TRUE]
    /\ UNCHANGED <<typed, raced>>
    /\ Stored(r, "prayer")

ProcessGet(r) ==
    /\ r.call \in Gets
    /\ UNCHANGED <<server, typed, raced, mixed>>
    /\ Answer(r, TRUE, server)

\* An invalid value, a timetable without a date, an expired session.
Refuse(r) ==
    /\ UNCHANGED <<server, typed, raced, mixed>>
    /\ Answer(r, FALSE, server)

-----------------------------------------------------------------------------
(* The rest of the handlers, after their await                             *)

Received(a) ==
    /\ answers' = answers \ {a}
    /\ UNCHANGED <<server, sent>>

\* Seeded fault: the section is unmarked although its save has failed.
SavedAlways(a) ==
    /\ a.call \in Saves
    /\ Received(a)
    /\ CFG' = IF a.ok THEN a.config ELSE CFG
    /\ DIRTY' = DIRTY \ {a.call}
    /\ waiting' = waiting \ {a.call}
    /\ UNCHANGED <<form, requests, timeline, typed, raced, mixed>>

\* save: the answer replaces the whole of CFG, and unmarks the section.
Saved(a) ==
    /\ a.call \in Saves
    /\ Received(a)
    /\ CFG' = IF a.ok THEN a.config ELSE CFG
    /\ DIRTY' = IF a.ok THEN DIRTY \ {a.call} ELSE DIRTY
    /\ waiting' = waiting \ {a.call}
    /\ UNCHANGED <<form, requests, timeline, typed, raced, mixed>>

\* discardChanges: the forms are rendered from the configuration fetched.
Discarded(a) ==
    /\ a.call \in Discards
    /\ Received(a)
    /\ waiting' = waiting \ {a.call}
    /\ IF a.ok
       THEN /\ CFG' = a.config
            /\ form' = a.config
            /\ DIRTY' = {}
            /\ timeline' = TRUE
            /\ typed' = {}
            /\ Race
            /\ UNCHANGED mixed
       ELSE UNCHANGED <<CFG, form, DIRTY, timeline, typed, raced>> /\ mixed' = TRUE
    /\ UNCHANGED requests

\* Seeded fault: the import does not fetch the configuration it has changed.
ImportedOnly(a) ==
    /\ a.call = "import"
    /\ Received(a)
    /\ waiting' = waiting \ {"import"}
    /\ UNCHANGED <<CFG, form, DIRTY, requests, timeline, typed, raced, mixed>>

\* btnImportTt: after the import the configuration is fetched.
Imported(a) ==
    /\ a.call = "import"
    /\ Received(a)
    /\ IF a.ok
       THEN /\ waiting' = (waiting \ {"import"}) \cup {"reload"}
            /\ requests' = requests \cup {Request("reload", {})}
       ELSE waiting' = waiting \ {"import"} /\ UNCHANGED requests
    /\ UNCHANGED <<CFG, form, DIRTY, timeline, typed, raced, mixed>>

\* ... and the schedule is rendered from it, marked as unsaved or not.
Reloaded(a) ==
    /\ a.call = "reload"
    /\ Received(a)
    /\ waiting' = waiting \ {"reload"}
    /\ IF a.ok
       THEN /\ CFG' = a.config
            /\ form' = [form EXCEPT !.prayer = a.config.prayer]
            /\ timeline' = TRUE
            /\ typed' = typed \ {"prayer"}
            /\ Race
            /\ UNCHANGED mixed
       ELSE UNCHANGED <<CFG, form, timeline, typed, raced>> /\ mixed' = TRUE
    /\ UNCHANGED <<DIRTY, requests>>

\* api throws: a timeout or the network.  What was sent may be processed yet.
GiveUp(call) ==
    /\ call \in waiting
    /\ waiting' = waiting \ {call}
    /\ answers' = {a \in answers : a.call # call}
    /\ requests' = {r \in requests : r.call # call}
                    \cup {[r EXCEPT !.heard = FALSE] :
                              r \in {x \in requests : x.call = call /\ call \notin Gets}}
    /\ mixed' = TRUE
    /\ UNCHANGED <<server, CFG, form, DIRTY, timeline, sent, typed, raced>>

\* Seeded fault: unsaved edits are only looked for before the request.
RefreshTimesAnyway ==
    /\ timeline
    /\ timeline' = FALSE
    /\ form' = [form EXCEPT !.prayer = CFG.prayer]
    /\ typed' = typed \ Changed
    /\ Race
    /\ UNCHANGED <<server, CFG, DIRTY, waiting, requests, answers, sent, mixed>>

\* loadTimeline: the table of the schedule is rendered with the new times,
\* unless the section is unsaved by now.
RefreshTimes ==
    /\ timeline
    /\ timeline' = FALSE
    /\ IF "prayer" \in DIRTY
       THEN UNCHANGED <<form, typed, raced>>
       ELSE /\ form' = [form EXCEPT !.prayer = CFG.prayer]
            /\ typed' = typed \ Changed
            /\ Race
    /\ UNCHANGED <<server, CFG, DIRTY, waiting, requests, answers, sent, mixed>>

-----------------------------------------------------------------------------
Operator ==
    \/ \E s \in Sections : Type(s) \/ PressSave(s)
    \/ AlterRows
    \/ ApplyRecommended
    \/ \E call \in Discards : PressDiscard(call)
    \/ PressImport
    \/ SetLang

Server == \E r \in requests : ProcessSave(r) \/ ProcessImport(r) \/ ProcessGet(r) \/ Refuse(r)

Page ==
    \/ \E a \in answers : Saved(a) \/ Discarded(a) \/ Imported(a) \/ Reloaded(a)
    \/ \E call \in Calls : GiveUp(call)
    \/ PollTimes
    \/ RefreshTimes

Next == Operator \/ Server \/ Page

Spec == Init /\ [][Next]_vars

-----------------------------------------------------------------------------
(* Properties                                                              *)

\* What is under way of a call that is awaited: its request or its answer.
Pending(call) == {r \in requests : r.call = call /\ r.heard}
                 \cup {a \in answers : a.call = call}

\* Each call that is awaited is under way exactly once, as a request or as its
\* answer, and nothing else is answered.
TypeOK ==
    /\ {server, CFG, form} \subseteq Configs
    /\ DIRTY \subseteq Sections
    /\ waiting \subseteq Calls
    /\ \A r \in requests : r.heard => r.call \in waiting
    /\ {a.call : a \in answers} \subseteq waiting
    /\ \A call \in waiting : \E x \in Pending(call) : Pending(call) = {x}
    /\ typed \cup raced \subseteq Sections

\* An edit that the server has never had is marked as unsaved, whatever was
\* answered, refused or given up since it was made.  (An edit made while a save
\* of its section is awaited is unmarked by the answer: index.html:1405.)
EditIsMarked == typed \subseteq DIRTY \cup raced

\* The times that arrive in the background never overwrite such an edit.
RefreshKeepsEdits ==
    [][timeline /\ ~timeline' /\ "prayer" \in typed \ raced => form' = form]_vars

\* If one call was made at a time, each was answered, and none that failed had
\* been stored in a section that was not marked, then at rest a section that is
\* not marked shows what the server has: it can be saved again, or left, without
\* changing a setting unseen.  (An import that fails in the rebuild has switched
\* the source, and the page, which fetches nothing, does not show it.)
UnmarkedIsStored ==
    ~mixed /\ waiting = {} =>
        \A s \in Sections \ (DIRTY \cup raced) : form[s] = server[s]

=============================================================================
