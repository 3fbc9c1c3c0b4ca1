--------------------------- MODULE WebClientProofs ---------------------------
EXTENDS WebClient, TLAPS

\* A call that is awaited is under way exactly once: as a request that is still
\* heard, or as an answer.
CallInv ==
    /\ \A call \in waiting : \/ \E r \in requests : r.heard /\ r.call = call
                             \/ \E a \in answers : a.call = call
    /\ \A r, q \in requests : r.heard /\ q.heard /\ r.call = q.call => r = q
    /\ \A a, b \in answers : a.call = b.call => a = b
    /\ \A r \in requests, a \in answers : r.heard => r.call # a.call
    /\ ~({"import", "reload"} \subseteq waiting)

Data == Values.prayer \cup Values.destinations \cup {{}}

\* A request, whatever tells it apart from those that are alike.
IsRequest(r) ==
    /\ r = [call |-> r.call, data |-> r.data, heard |-> r.heard, nth |-> r.nth]
    /\ r.call \in Calls
    /\ r.data \in Data
    /\ r.heard \in BOOLEAN
    /\ r.call \in Saves => r.data \in Values[r.call]

MessageTypes ==
    /\ \A r \in requests : IsRequest(r)
    /\ answers \subseteq [call : Calls, ok : BOOLEAN, config : Configs]

\* The save of an edit that has still to be unmarked carries it, unless the
\* form has changed since it was sent.
SaveInv ==
    /\ \A r \in requests : r.heard /\ r.call \in Saves =>
          r.data = form[r.call] \/ r.call \in raced \/ r.call \notin typed
    /\ \A a \in answers : a.ok /\ a.call \in Saves => a.call \notin typed \/ a.call \in raced

\* What a section shows is about to be rendered again.
Replaced(s) ==
    \/ \E call \in waiting : call \in Discards
    \/ s = "prayer" /\ ("reload" \in waiting \/ \E a \in answers : a.call = "import" /\ a.ok)

\* One call at a time, each of them answered, none of them stored in a section
\* that is not marked and then reported as failed.
CalmInv ==
    ~mixed =>
        /\ \A r \in requests : r.heard
        /\ \A c, d \in waiting : c = d
        /\ \A a \in answers : a.ok => a.config = server
        /\ \A r \in requests : r.call \in Saves => r.data = form[r.call] \/ r.call \in raced
        /\ \A a \in answers : a.ok /\ a.call \in Saves =>
              form[a.call] = server[a.call] \/ a.call \in raced
        /\ \A s \in Sections \ (DIRTY \cup raced) : form[s] = server[s] \/ Replaced(s)
        /\ \A s \in Sections \ DIRTY :
              CFG[s] = server[s] \/ Replaced(s) \/ \E a \in answers : a.call = s /\ a.ok

-----------------------------------------------------------------------------
(* Configurations                                                          *)

LEMMA ConfigParts ==
    ASSUME NEW c \in Configs, NEW s \in Sections
    PROVE  c[s] \in Values[s]
BY DEF Configs, Values, Sections

LEMMA ConfigUpdate ==
    ASSUME NEW c \in Configs, NEW s \in Sections, NEW v \in Values[s]
    PROVE  /\ [c EXCEPT ![s] = v] \in Configs
           /\ [c EXCEPT ![s] = v][s] = v
           /\ \A x \in Sections \ {s} : [c EXCEPT ![s] = v][x] = c[x]
BY DEF Configs, Values, Sections

LEMMA PrayerUpdate ==
    ASSUME NEW c \in Configs, NEW v \in Values.prayer
    PROVE  /\ [c EXCEPT !.prayer = v] \in Configs
           /\ [c EXCEPT !.prayer = v]["prayer"] = v
           /\ [c EXCEPT !.prayer = v]["destinations"] = c["destinations"]
           /\ c.prayer = c["prayer"]
           /\ [c EXCEPT !.prayer = v] = [c EXCEPT !["prayer"] = v]
BY DEF Configs, Values, Sections

LEMMA DestinationsUpdate ==
    ASSUME NEW c \in Configs, NEW v \in Values.destinations
    PROVE  /\ [c EXCEPT !.destinations = v] \in Configs
           /\ [c EXCEPT !.destinations = v]["destinations"] = v
           /\ [c EXCEPT !.destinations = v]["prayer"] = c["prayer"]
           /\ c.destinations = c["destinations"]
BY DEF Configs, Values, Sections

LEMMA FieldUpdate ==
    ASSUME NEW c \in Configs
    PROVE  /\ \A rows \in Rows : [c EXCEPT !.destinations.rows = rows] \in Configs
           /\ \A m \in Methods : [c EXCEPT !.prayer.method = m] \in Configs
           /\ [c EXCEPT !.prayer.source = TRUE] \in Configs
           /\ \A rows \in Rows : [c EXCEPT !.destinations.rows = rows]["prayer"] = c["prayer"]
           /\ \A m \in Methods : [c EXCEPT !.prayer.method = m]["destinations"] = c["destinations"]
           /\ [c EXCEPT !.prayer.source = TRUE]["destinations"] = c["destinations"]
BY DEF Configs, Values, Sections

\* The fields of a request and of an answer.
LEMMA RequestParts ==
    ASSUME MessageTypes, NEW r \in requests
    PROVE  /\ r.call \in Calls
           /\ r.data \in Data
           /\ r.heard \in BOOLEAN
           /\ r.call \in Saves => r.data \in Values[r.call]
BY DEF MessageTypes, IsRequest

LEMMA RequestFields ==
    ASSUME NEW call, NEW data
    PROVE  LET new == Request(call, data)
           IN  /\ new.call = call
               /\ new.data = data
               /\ new.heard
               /\ call \in Calls /\ data \in Data /\ (call \in Saves => data \in Values[call])
                     => IsRequest(new)
<1> DEFINE n == CHOOSE n \in 0 .. MaxSent :
                   \A r \in requests : r.call = call /\ r.data = data => r.nth # n
<1>1. Request(call, data) = [call |-> call, data |-> data, heard |-> TRUE, nth |-> n]
    BY DEF Request
<1> HIDE DEF n
<1> QED
    BY <1>1 DEF IsRequest

\* What was sent may be processed yet, its answer is not listened to.
LEMMA Unheard ==
    ASSUME MessageTypes, NEW r \in requests, NEW q, q = [r EXCEPT !.heard = FALSE]
    PROVE  IsRequest(q) /\ ~q.heard
<1>1. IsRequest(r)
    BY DEF MessageTypes
<1>2. q = [call |-> r.call, data |-> r.data, heard |-> FALSE, nth |-> r.nth]
    BY <1>1 DEF IsRequest
<1> QED
    BY <1>1, <1>2 DEF IsRequest

\* The calls that discard have names of their own.
LEMMA DiscardNames ==
    ASSUME NEW call \in Discards
    PROVE  call \in Calls \ Saves /\ call \notin {"import", "reload"}
BY WebClientAssumption DEF Calls, Gets, Saves

LEMMA AnswerParts ==
    ASSUME MessageTypes, NEW a \in answers
    PROVE  a.call \in Calls /\ a.ok \in BOOLEAN /\ a.config \in Configs
BY DEF MessageTypes

-----------------------------------------------------------------------------
(* The configurations stay configurations                                  *)

Copies == {server, CFG, form} \subseteq Configs

\* What a section shows: the parts a handler renders again.
LEMMA CopiesKept ==
    ASSUME Copies, MessageTypes, [Next]_vars
    PROVE  Copies'
<1>0. /\ server \in Configs
      /\ CFG \in Configs
      /\ form \in Configs
    BY DEF Copies
<1>1. ASSUME NEW s \in Sections, Type(s)
      PROVE  Copies'
    <2>1. PICK v \in Values[s] : form' = [form EXCEPT ![s] = v]
        BY <1>1 DEF Type
    <2>2. form' \in Configs
        BY <1>0, <2>1, ConfigUpdate
    <2> QED
        BY <1>0, <1>1, <2>2 DEF Type, Edited, Copies
<1>3. ASSUME NEW s \in Sections, PressSave(s)
      PROVE  Copies'
    BY <1>0, <1>3 DEF PressSave, Send, Copies
<1>4. CASE AlterRows
    <2>1. CFG' \in Configs
        BY <1>0, <1>4, FieldUpdate DEF AlterRows
    <2>2. CFG'.destinations \in Values.destinations
        BY <2>1 DEF Configs
    <2>3. form' \in Configs
        BY <1>0, <1>4, <2>2, DestinationsUpdate DEF AlterRows
    <2> QED
        BY <1>0, <1>4, <2>1, <2>3 DEF AlterRows, Edited, Copies
<1>5. CASE ApplyRecommended
    <2>1. CFG' \in Configs
        BY <1>0, <1>5, FieldUpdate DEF ApplyRecommended
    <2>2. CFG'.prayer \in Values.prayer
        BY <2>1 DEF Configs
    <2>3. form' \in Configs
        BY <1>0, <1>5, <2>2, PrayerUpdate DEF ApplyRecommended
    <2> QED
        BY <1>0, <1>5, <2>1, <2>3 DEF ApplyRecommended, Edited, Copies
<1>6. CASE PollTimes \/ PressImport \/ \E call \in Discards : PressDiscard(call)
    BY <1>0, <1>6 DEF PollTimes, PressDiscard, PressImport, Send, Copies
<1>7. CASE SetLang
    <2>1. CFG.destinations \in Values.destinations
        BY <1>0 DEF Configs
    <2> QED
        BY <1>0, <1>7, <2>1, DestinationsUpdate DEF SetLang, Copies
<1>8. ASSUME NEW r \in requests, ProcessSave(r) \/ ProcessImport(r) \/ ProcessGet(r) \/ Refuse(r)
      PROVE  Copies'
    <2>1. r.call \in Saves => r.data \in Values[r.call]
        BY RequestParts
    <2>2. CASE ProcessSave(r)
        <3>1. r.call \in Sections /\ server' = [server EXCEPT ![r.call] = r.data]
            BY <2>2 DEF ProcessSave, Saves
        <3>2. server' \in Configs
            BY <1>0, <2>1, <3>1, ConfigUpdate DEF Saves
        <3> QED
            BY <1>0, <2>2, <3>2 DEF ProcessSave, Stored, Answer, Copies
    <2>3. CASE ProcessImport(r)
        BY <1>0, <2>3, FieldUpdate DEF ProcessImport, Stored, Answer, Copies
    <2> QED
        BY <1>0, <1>8, <2>2, <2>3 DEF ProcessGet, Refuse, Answer, Copies
<1>9. ASSUME NEW a \in answers, Saved(a) \/ Discarded(a) \/ Imported(a) \/ Reloaded(a)
      PROVE  Copies'
    <2>1. a.config \in Configs
        BY AnswerParts
    <2>2. a.config.prayer \in Values.prayer
        BY <2>1 DEF Configs
    <2>3. [form EXCEPT !.prayer = a.config.prayer] \in Configs
        BY <1>0, <2>2, PrayerUpdate
    <2> QED
        BY <1>0, <1>9, <2>1, <2>3 DEF Saved, Discarded, Imported, Reloaded, Received, Copies
<1>10. ASSUME NEW call \in Calls, GiveUp(call)
       PROVE  Copies'
    BY <1>0, <1>10 DEF GiveUp, Copies
<1>11. CASE RefreshTimes
    <2>1. CFG.prayer \in Values.prayer
        BY <1>0 DEF Configs
    <2> QED
        BY <1>0, <1>11, <2>1, PrayerUpdate DEF RefreshTimes, Copies
<1>12. CASE UNCHANGED vars
    BY <1>0, <1>12 DEF vars, Copies
<1> QED
    BY <1>1, <1>3, <1>4, <1>5, <1>6, <1>7, <1>8, <1>9, <1>10, <1>11, <1>12
    DEF Next, Operator, Server, Page

-----------------------------------------------------------------------------
(* A call is under way once                                                *)

Awaited ==
    /\ waiting \subseteq Calls
    /\ \A r \in requests : r.heard => r.call \in waiting
    /\ \A a \in answers : a.call \in waiting

Messages == Awaited /\ MessageTypes /\ CallInv

LEMMA SendKeepsMessages ==
    ASSUME Messages, NEW call \in Calls \ waiting, NEW data \in Data,
           call \in Saves => data \in Values[call],
           call # "reload",
           call = "import" => "reload" \notin waiting,
           Send(call, data)
    PROVE  Messages'
<1> DEFINE new == Request(call, data)
<1>1. /\ new.call = call
      /\ new.data = data
      /\ new.heard
      /\ IsRequest(new)
    BY RequestFields
<1>2. /\ waiting' = waiting \cup {call}
      /\ requests' = requests \cup {new}
      /\ answers' = answers
    BY DEF Send
<1> HIDE DEF new
<1>3. Awaited'
    BY <1>1, <1>2 DEF Messages, Awaited
<1>4. MessageTypes'
    BY <1>1, <1>2 DEF Messages, MessageTypes
<1>5. \A c \in waiting' : \/ \E r \in requests' : r.heard /\ r.call = c
                          \/ \E a \in answers' : a.call = c
    BY <1>1, <1>2 DEF Messages, CallInv
<1>6. \A r, q \in requests' : r.heard /\ q.heard /\ r.call = q.call => r = q
    BY <1>1, <1>2 DEF Messages, Awaited, CallInv
<1>7. /\ \A a, b \in answers' : a.call = b.call => a = b
      /\ \A r \in requests', a \in answers' : r.heard => r.call # a.call
    BY <1>1, <1>2 DEF Messages, Awaited, CallInv
<1>8. ~({"import", "reload"} \subseteq waiting')
    BY <1>2 DEF Messages, CallInv
<1> QED
    BY <1>3, <1>4, <1>5, <1>6, <1>7, <1>8 DEF Messages, CallInv

LEMMA AnswerKeepsMessages ==
    ASSUME Messages, NEW r \in requests, NEW ok \in BOOLEAN, NEW config \in Configs,
           Answer(r, ok, config)
    PROVE  Messages'
<1> DEFINE new == [call |-> r.call, ok |-> ok, config |-> config]
<1>1. r.call \in Calls /\ r.heard \in BOOLEAN
    BY RequestParts DEF Messages
<1>2. new.call = r.call /\ new \in [call : Calls, ok : BOOLEAN, config : Configs]
    BY <1>1
<1>3. /\ waiting' = waiting
      /\ requests' = requests \ {r}
      /\ answers' = IF r.heard THEN answers \cup {new} ELSE answers
    BY DEF Answer
<1> HIDE DEF new
<1>4. Awaited'
    BY <1>2, <1>3 DEF Messages, Awaited
<1>5. MessageTypes'
    BY <1>2, <1>3 DEF Messages, MessageTypes
<1>6. ASSUME NEW c \in waiting
      PROVE  \/ \E q \in requests' : q.heard /\ q.call = c
             \/ \E a \in answers' : a.call = c
    <2>1. CASE \E a \in answers : a.call = c
        BY <1>3, <2>1
    <2>2. ASSUME NEW q \in requests, q.heard, q.call = c
          PROVE  \/ \E x \in requests' : x.heard /\ x.call = c
                 \/ \E a \in answers' : a.call = c
        <3>1. CASE q = r
            BY <1>2, <1>3, <2>2, <3>1
        <3>2. CASE q # r
            BY <1>3, <2>2, <3>2
        <3> QED
            BY <3>1, <3>2
    <2> QED
        BY <2>1, <2>2 DEF Messages, CallInv
<1>7. \A p, q \in requests' : p.heard /\ q.heard /\ p.call = q.call => p = q
    BY <1>3 DEF Messages, CallInv
<1>8. \A a, b \in answers' : a.call = b.call => a = b
    BY <1>2, <1>3 DEF Messages, CallInv
<1>9. \A q \in requests', a \in answers' : q.heard => q.call # a.call
    BY <1>2, <1>3 DEF Messages, CallInv
<1> QED
    BY <1>3, <1>4, <1>5, <1>6, <1>7, <1>8, <1>9 DEF Messages, CallInv

\* An answer is received, and its call no longer awaited.
LEMMA ReceivedKeepsMessages ==
    ASSUME Messages, NEW a \in answers,
           answers' = answers \ {a}, waiting' = waiting \ {a.call}, requests' = requests
    PROVE  Messages'
<1>1. Awaited'
    BY DEF Messages, Awaited, CallInv
<1>2. MessageTypes'
    BY DEF Messages, MessageTypes
<1>3. CallInv'
    BY DEF Messages, CallInv
<1> QED
    BY <1>1, <1>2, <1>3 DEF Messages

\* The answer of an import is received, and the configuration asked for.
LEMMA ReloadKeepsMessages ==
    ASSUME Messages, NEW a \in answers, a.call = "import", a.ok, Imported(a)
    PROVE  Messages'
<1> DEFINE new == Request("reload", {})
<1>1. /\ new.call = "reload"
      /\ new.heard
      /\ IsRequest(new)
    BY RequestFields DEF Calls, Gets, Data, Saves, Sections
<1>2. /\ answers' = answers \ {a}
      /\ waiting' = (waiting \ {"import"}) \cup {"reload"}
      /\ requests' = requests \cup {new}
    BY DEF Imported, Received
<1>3. "import" \in waiting /\ "reload" \notin waiting
    BY DEF Messages, Awaited, CallInv
<1> HIDE DEF new
<1>4. Awaited'
    BY <1>1, <1>2, <1>3 DEF Messages, Awaited, CallInv, Calls, Gets
<1>5. MessageTypes'
    BY <1>1, <1>2 DEF Messages, MessageTypes
<1>6. \A c \in waiting' : \/ \E r \in requests' : r.heard /\ r.call = c
                          \/ \E b \in answers' : b.call = c
    BY <1>1, <1>2 DEF Messages, CallInv
<1>7. \A r, q \in requests' : r.heard /\ q.heard /\ r.call = q.call => r = q
    BY <1>1, <1>2, <1>3 DEF Messages, Awaited, CallInv
<1>8. /\ \A b, d \in answers' : b.call = d.call => b = d
      /\ \A r \in requests', b \in answers' : r.heard => r.call # b.call
    BY <1>1, <1>2, <1>3 DEF Messages, Awaited, CallInv
<1> QED
    BY <1>2, <1>4, <1>5, <1>6, <1>7, <1>8 DEF Messages, CallInv

LEMMA GiveUpKeepsMessages ==
    ASSUME Messages, NEW call \in Calls, GiveUp(call)
    PROVE  Messages'
<1>1. /\ waiting' = waiting \ {call}
      /\ answers' \subseteq answers
      /\ \A a \in answers : a \in answers' <=> a.call # call
    BY DEF GiveUp
<1>2. \A r \in requests : r.call # call => r \in requests'
    BY DEF GiveUp
<1>3. ASSUME NEW q \in requests'
      PROVE  \/ q \in requests /\ q.call # call
             \/ IsRequest(q) /\ ~q.heard
    <2>1. CASE \E r \in requests : q = [r EXCEPT !.heard = FALSE]
        BY <2>1, Unheard DEF Messages
    <2>2. CASE q \in requests /\ q.call # call
        BY <2>2
    <2> QED
        BY <2>1, <2>2 DEF GiveUp
<1>4. Awaited'
    BY <1>1, <1>3 DEF Messages, Awaited
<1>5. MessageTypes'
    BY <1>1, <1>3 DEF Messages, MessageTypes
<1>6. \A c \in waiting' : \/ \E r \in requests' : r.heard /\ r.call = c
                          \/ \E b \in answers' : b.call = c
    BY <1>1, <1>2 DEF Messages, CallInv
<1>7. \A r, q \in requests' : r.heard /\ q.heard /\ r.call = q.call => r = q
    BY <1>3 DEF Messages, CallInv
<1>8. \A r \in requests', b \in answers' : r.heard => r.call # b.call
    BY <1>1, <1>3 DEF Messages, CallInv
<1> QED
    BY <1>1, <1>4, <1>5, <1>6, <1>7, <1>8 DEF Messages, CallInv

LEMMA MessagesKept ==
    ASSUME Messages, Copies, [Next]_vars
    PROVE  Messages'
<1>1. CASE UNCHANGED <<waiting, requests, answers>>
    BY <1>1 DEF Messages, Awaited, MessageTypes, CallInv
<1>2. ASSUME NEW s \in Sections, PressSave(s)
      PROVE  Messages'
    <2>1. form[s] \in Values[s]
        BY ConfigParts DEF Copies
    <2>2. form[s] \in Data
        BY <2>1 DEF Data, Sections
    <2>3. s \in Calls \ waiting /\ s \notin {"reload", "import"}
        BY <1>2 DEF PressSave, Calls, Saves, Sections
    <2> QED
        BY <1>2, <2>1, <2>2, <2>3, SendKeepsMessages DEF PressSave
<1>3. ASSUME NEW call \in Discards, PressDiscard(call)
      PROVE  Messages'
    <2>1. call \in Calls \ waiting /\ call \notin Saves \cup {"import", "reload"}
        BY <1>3, DiscardNames DEF PressDiscard
    <2>2. {} \in Data
        BY DEF Data
    <2> QED
        BY <1>3, <2>1, <2>2, SendKeepsMessages DEF PressDiscard
<1>4. CASE PressImport
    <2>1. "import" \in Calls \ waiting /\ "import" \notin Saves /\ "reload" \notin waiting
        BY <1>4 DEF PressImport, Calls, Saves, Sections
    <2>2. {} \in Data
        BY DEF Data
    <2> QED
        BY <1>4, <2>1, <2>2, SendKeepsMessages DEF PressImport
<1>5. ASSUME NEW r \in requests, ProcessSave(r) \/ ProcessImport(r) \/ ProcessGet(r) \/ Refuse(r)
      PROVE  Messages'
    <2>1. server \in Configs /\ server' \in Configs
        BY CopiesKept DEF Copies, Messages
    <2>2. \E ok \in BOOLEAN, config \in Configs : Answer(r, ok, config)
        BY <1>5, <2>1 DEF ProcessSave, ProcessImport, ProcessGet, Refuse, Stored
    <2> QED
        BY <2>2, AnswerKeepsMessages
<1>6. ASSUME NEW a \in answers, Imported(a), a.ok
      PROVE  Messages'
    BY <1>6, ReloadKeepsMessages DEF Imported
<1>7. ASSUME NEW a \in answers,
             Saved(a) \/ Discarded(a) \/ (Imported(a) /\ ~a.ok) \/ Reloaded(a)
      PROVE  Messages'
    <2>1. /\ answers' = answers \ {a}
          /\ waiting' = waiting \ {a.call}
          /\ requests' = requests
        BY <1>7 DEF Saved, Discarded, Imported, Reloaded, Received
    <2> QED
        BY <2>1, ReceivedKeepsMessages
<1>8. ASSUME NEW call \in Calls, GiveUp(call)
      PROVE  Messages'
    BY <1>8, GiveUpKeepsMessages
<1>9. ASSUME (\E s \in Sections : Type(s))
             \/ AlterRows \/ ApplyRecommended \/ SetLang
             \/ PollTimes \/ RefreshTimes \/ UNCHANGED vars
      PROVE  UNCHANGED <<waiting, requests, answers>>
    BY <1>9 DEF Type, AlterRows, ApplyRecommended, Edited, SetLang, PollTimes, RefreshTimes, vars
<1> QED
    BY <1>1, <1>2, <1>3, <1>4, <1>5, <1>6, <1>7, <1>8, <1>9
    DEF Next, Operator, Server, Page

-----------------------------------------------------------------------------
(* An edit keeps its mark                                                  *)

\* A section whose form has changed is raced if a save of it is awaited.
LEMMA RaceParts ==
    ASSUME Race, NEW s \in Sections
    PROVE  IF form'[s] # form[s] THEN s \in raced' <=> s \in waiting
                                 ELSE s \in raced' <=> s \in raced
BY DEF Race, Changed

LEMMA NoRace ==
    ASSUME UNCHANGED <<form, raced>>
    PROVE  Race /\ Changed = {}
BY DEF Race, Changed

\* An edit changes the form of its own section.
LEMMA EditParts ==
    ASSUME Copies, NEW s \in Sections,
           Type(s) \/ (s = "destinations" /\ AlterRows) \/ (s = "prayer" /\ ApplyRecommended)
    PROVE  /\ Edited(s)
           /\ \A x \in Sections \ {s} : form'[x] = form[x] /\ CFG'[x] = CFG[x]
<1>0. CFG \in Configs /\ form \in Configs
    BY DEF Copies
<1>1. CASE Type(s)
    <2>1. PICK v \in Values[s] : form' = [form EXCEPT ![s] = v]
        BY <1>1 DEF Type
    <2> QED
        BY <1>0, <1>1, <2>1, ConfigUpdate DEF Type
<1>2. CASE s = "destinations" /\ AlterRows
    <2>1. PICK rows \in Rows : CFG' = [CFG EXCEPT !.destinations.rows = rows]
        BY <1>2 DEF AlterRows
    <2>2. CFG' \in Configs /\ CFG'["prayer"] = CFG["prayer"]
        BY <1>0, <2>1, FieldUpdate
    <2>3. CFG'.destinations \in Values.destinations
        BY <2>2 DEF Configs
    <2>4. form'["prayer"] = form["prayer"]
        BY <1>0, <1>2, <2>3, DestinationsUpdate DEF AlterRows
    <2> QED
        BY <1>2, <2>2, <2>4 DEF AlterRows, Sections
<1>3. CASE s = "prayer" /\ ApplyRecommended
    <2>1. PICK method \in Methods : CFG' = [CFG EXCEPT !.prayer.method = method]
        BY <1>3 DEF ApplyRecommended
    <2>2. CFG' \in Configs /\ CFG'["destinations"] = CFG["destinations"]
        BY <1>0, <2>1, FieldUpdate
    <2>3. CFG'.prayer \in Values.prayer
        BY <2>2 DEF Configs
    <2>4. form'["destinations"] = form["destinations"]
        BY <1>0, <1>3, <2>3, PrayerUpdate DEF ApplyRecommended
    <2> QED
        BY <1>3, <2>2, <2>4 DEF ApplyRecommended, Sections
<1> QED
    BY <1>1, <1>2, <1>3

\* What a background answer renders, it renders from the copy.
Rendered ==
    /\ \A s \in Sections : form'[s] = form[s] \/ form'[s] = CFG[s]
    /\ Race
    /\ typed' \subseteq typed \ Changed
    /\ UNCHANGED <<server, CFG, DIRTY, waiting, requests, answers, mixed>>

LEMMA RenderParts ==
    ASSUME Copies, SetLang \/ RefreshTimes
    PROVE  Rendered
<1>0. CFG \in Configs /\ form \in Configs
    BY DEF Copies
<1>1. CFG.destinations \in Values.destinations /\ CFG.prayer \in Values.prayer
    BY <1>0 DEF Configs
<1>2. CASE SetLang
    <2>1. form'["destinations"] = CFG["destinations"] /\ form'["prayer"] = form["prayer"]
        BY <1>0, <1>1, <1>2, DestinationsUpdate DEF SetLang
    <2> QED
        BY <1>2, <2>1 DEF SetLang, Rendered, Sections
<1>3. CASE RefreshTimes /\ "prayer" \in DIRTY
    BY <1>3, NoRace DEF RefreshTimes, Rendered
<1>4. CASE RefreshTimes /\ "prayer" \notin DIRTY
    <2>1. form' = [form EXCEPT !.prayer = CFG.prayer]
        BY <1>4 DEF RefreshTimes
    <2>2. form'["prayer"] = CFG["prayer"] /\ form'["destinations"] = form["destinations"]
        BY <1>0, <1>1, <2>1, PrayerUpdate
    <2> QED
        BY <1>4, <2>2 DEF RefreshTimes, Rendered, Sections
<1> QED
    BY <1>2, <1>3, <1>4

Subsections == DIRTY \subseteq Sections /\ typed \cup raced \subseteq Sections

\* A change of a form that loses calls at most: a save under way still carries
\* the edit, or its section has just been raced.
LEMMA FormChangeKeepsSaves ==
    ASSUME Messages, SaveInv, Race, typed' \subseteq typed \cup Changed,
           requests' \subseteq requests, answers' \subseteq answers
    PROVE  SaveInv'
<1>1. ASSUME NEW r \in requests, r.heard, r.call \in Saves,
             r.data # form'[r.call], r.call \notin raced'
      PROVE  r.call \notin typed'
    <2>1. r.call \in waiting
        BY <1>1 DEF Messages, Awaited
    <2>2. form'[r.call] = form[r.call] /\ r.call \notin raced
        BY <1>1, <2>1, RaceParts DEF Saves
    <2> QED
        BY <1>1, <2>2 DEF SaveInv, Changed
<1>2. ASSUME NEW a \in answers, a.ok, a.call \in Saves, a.call \notin raced'
      PROVE  a.call \notin typed'
    <2>1. a.call \in waiting
        BY DEF Messages, Awaited
    <2>2. form'[a.call] = form[a.call] /\ a.call \notin raced
        BY <1>2, <2>1, RaceParts DEF Saves
    <2> QED
        BY <1>2, <2>2 DEF SaveInv, Changed
<1> QED
    BY <1>1, <1>2 DEF SaveInv

\* A form rendered again takes its section out of typed.
LEMMA RenderKeepsMarks ==
    ASSUME Subsections, EditIsMarked, Race, typed' \subseteq typed \ Changed, UNCHANGED DIRTY
    PROVE  EditIsMarked' /\ Subsections'
<1>1. raced' \subseteq Sections /\ typed' \subseteq typed
    BY DEF Race, Changed, Subsections
<1>2. ASSUME NEW s \in typed'
      PROVE  s \in DIRTY' \cup raced'
    <2>1. s \in typed /\ s \in Sections /\ form'[s] = form[s]
        BY <1>2 DEF Changed, Subsections
    <2>2. s \in raced' <=> s \in raced
        BY <2>1, RaceParts
    <2> QED
        BY <2>1, <2>2 DEF EditIsMarked
<1> QED
    BY <1>1, <1>2 DEF EditIsMarked, Subsections

Edits == Subsections /\ SaveInv /\ EditIsMarked

LEMMA EditedKeepsEdits ==
    ASSUME Copies, Messages, Edits, NEW s \in Sections,
           Type(s) \/ (s = "destinations" /\ AlterRows) \/ (s = "prayer" /\ ApplyRecommended)
    PROVE  Edits'
<1>1. /\ Race
      /\ Changed \subseteq {s}
      /\ typed' = typed \cup Changed
      /\ DIRTY' = DIRTY \cup {s}
      /\ UNCHANGED <<requests, answers>>
    BY EditParts DEF Edited, Changed
<1>2. SaveInv'
    BY <1>1, FormChangeKeepsSaves DEF Edits
<1>3. raced' \subseteq Sections
    BY <1>1 DEF Race, Changed, Edits, Subsections
<1>4. ASSUME NEW x \in typed'
      PROVE  x \in DIRTY' \cup raced'
    <2>1. CASE x = s
        BY <1>1, <2>1
    <2>2. CASE x # s
        <3>1. x \in typed /\ x \in Sections /\ form'[x] = form[x]
            BY <1>1, <2>2 DEF Changed, Edits, Subsections
        <3>2. x \in raced' <=> x \in raced
            BY <1>1, <3>1, RaceParts
        <3> QED
            BY <1>1, <3>1, <3>2 DEF Edits, EditIsMarked
    <2> QED
        BY <2>1, <2>2
<1> QED
    BY <1>1, <1>2, <1>3, <1>4 DEF Edits, Subsections, EditIsMarked

LEMMA RenderKeepsEdits ==
    ASSUME Messages, Edits, Rendered
    PROVE  Edits'
<1>1. SaveInv'
    BY FormChangeKeepsSaves DEF Edits, Rendered
<1> QED
    BY <1>1, RenderKeepsMarks DEF Edits, Rendered

LEMMA SendKeepsEdits ==
    ASSUME Edits, NEW call, NEW data, Send(call, data),
           call \in Saves => data = form[call]
    PROVE  Edits'
<1> DEFINE new == Request(call, data)
<1>1. new.call = call /\ new.data = data
    BY RequestFields
<1>2. requests' = requests \cup {new} /\ UNCHANGED <<form, DIRTY, answers, typed, raced>>
    BY DEF Send
<1> HIDE DEF new
<1>3. SaveInv'
    BY <1>1, <1>2 DEF Edits, SaveInv
<1> QED
    BY <1>2, <1>3 DEF Edits, Subsections, EditIsMarked

\* The server has the edit once it processes a save that carries it.
LEMMA SaveKeepsEdits ==
    ASSUME Messages, Edits, NEW r \in requests, ProcessSave(r)
    PROVE  Edits'
<1>0. PICK ok \in BOOLEAN : Answer(r, ok, server')
    BY DEF ProcessSave, Stored
<1> DEFINE new == [call |-> r.call, ok |-> ok, config |-> server']
<1>1. new.call = r.call
    OBVIOUS
<1>2. /\ requests' = requests \ {r}
      /\ answers' \subseteq answers \cup {new}
      /\ ~r.heard => answers' = answers
      /\ UNCHANGED <<form, DIRTY>>
    BY <1>0 DEF Answer
<1>3. r.call \in Saves
    BY DEF ProcessSave
<1>4. IF r.data = form[r.call]
      THEN typed' = typed \ {r.call} /\ raced' = raced \ {r.call}
      ELSE typed' = typed /\ raced' = raced
    BY DEF ProcessSave
<1> HIDE DEF new
<1>5. ASSUME NEW q \in requests', q.heard, q.call \in Saves
      PROVE  q.data = form'[q.call] \/ q.call \in raced' \/ q.call \notin typed'
    BY <1>2, <1>4, <1>5 DEF Edits, SaveInv
<1>6. ASSUME NEW a \in answers', a.ok, a.call \in Saves
      PROVE  a.call \notin typed' \/ a.call \in raced'
    <2>1. CASE a \in answers
        BY <1>4, <1>6, <2>1 DEF Edits, SaveInv
    <2>2. CASE a = new /\ r.heard
        BY <1>1, <1>3, <1>4, <2>2 DEF Edits, SaveInv
    <2> QED
        BY <1>2, <2>1, <2>2
<1> QED
    BY <1>2, <1>4, <1>5, <1>6 DEF Edits, Subsections, SaveInv, EditIsMarked

\* Another call is processed, or a save refused.
LEMMA OtherKeepsEdits ==
    ASSUME Messages, Edits, NEW r \in requests,
           ProcessImport(r) \/ ProcessGet(r) \/ Refuse(r)
    PROVE  Edits'
<1>0. PICK ok \in BOOLEAN : \E config : Answer(r, ok, config) /\ (ok => r.call \notin Saves)
    BY DiscardNames DEF ProcessImport, ProcessGet, Refuse, Stored, Saves, Gets, Sections
<1>1. PICK config : Answer(r, ok, config) /\ (ok => r.call \notin Saves)
    BY <1>0
<1> DEFINE new == [call |-> r.call, ok |-> ok, config |-> config]
<1>2. new.call = r.call /\ new.ok = ok
    OBVIOUS
<1>3. /\ requests' = requests \ {r}
      /\ answers' \subseteq answers \cup {new}
      /\ UNCHANGED <<form, DIRTY, typed, raced>>
    BY <1>1 DEF ProcessImport, ProcessGet, Refuse, Answer
<1> HIDE DEF new
<1>4. SaveInv'
    BY <1>1, <1>2, <1>3 DEF Edits, SaveInv
<1> QED
    BY <1>3, <1>4 DEF Edits, Subsections, EditIsMarked

\* An answer is received: its save unmarks the section, or a form is rendered.
LEMMA ReceivedKeepsEdits ==
    ASSUME Copies, Messages, Edits, NEW a \in answers,
           Saved(a) \/ Discarded(a) \/ Imported(a) \/ Reloaded(a)
    PROVE  Edits'
<1>1. CASE Saved(a)
    <2>1. /\ Race
          /\ typed' = typed
          /\ raced' = raced
          /\ requests' = requests
          /\ answers' \subseteq answers
        BY <1>1, NoRace DEF Saved, Received
    <2>2. SaveInv'
        BY <2>1, FormChangeKeepsSaves DEF Edits
    <2>3. a.ok => a.call \notin typed \/ a.call \in raced
        BY <1>1 DEF Saved, Edits, SaveInv
    <2>4. EditIsMarked'
        BY <1>1, <2>1, <2>3 DEF Saved, Edits, EditIsMarked
    <2>5. Subsections'
        BY <1>1, <2>1 DEF Saved, Edits, Subsections
    <2> QED
        BY <2>2, <2>4, <2>5 DEF Edits
<1>2. CASE Discarded(a)
    <2>1. /\ Race
          /\ typed' \subseteq typed
          /\ requests' = requests
          /\ answers' \subseteq answers
        BY <1>2, NoRace DEF Discarded, Received
    <2>2. SaveInv'
        BY <2>1, FormChangeKeepsSaves DEF Edits
    <2>3. CASE a.ok
        BY <1>2, <2>1, <2>2, <2>3
        DEF Discarded, Edits, Subsections, EditIsMarked, Race, Changed
    <2>4. CASE ~a.ok
        BY <1>2, <2>2, <2>4 DEF Discarded, Edits, Subsections, EditIsMarked
    <2> QED
        BY <2>3, <2>4
<1>3. CASE Imported(a)
    <2> DEFINE new == Request("reload", {})
    <2>1. new.call \notin Saves
        BY RequestFields DEF Saves, Sections
    <2>2. /\ requests' \subseteq requests \cup {new}
          /\ answers' \subseteq answers
          /\ UNCHANGED <<form, DIRTY, typed, raced>>
        BY <1>3 DEF Imported, Received
    <2> HIDE DEF new
    <2>3. SaveInv'
        BY <2>1, <2>2 DEF Edits, SaveInv
    <2> QED
        BY <2>2, <2>3 DEF Edits, Subsections, EditIsMarked
<1>4. CASE Reloaded(a) /\ ~a.ok
    <2>1. /\ Race
          /\ typed' \subseteq typed
          /\ requests' = requests
          /\ answers' \subseteq answers
          /\ UNCHANGED <<DIRTY, typed, raced>>
        BY <1>4, NoRace DEF Reloaded, Received
    <2> QED
        BY <2>1, FormChangeKeepsSaves DEF Edits, Subsections, EditIsMarked
<1>5. CASE Reloaded(a) /\ a.ok
    <2>1. a.config.prayer \in Values.prayer
        BY AnswerParts DEF Messages, Configs
    <2>2. form'["destinations"] = form["destinations"]
        BY <1>5, <2>1, PrayerUpdate DEF Reloaded, Copies
    <2>3. Changed \subseteq {"prayer"}
        BY <2>2 DEF Changed, Sections
    <2>4. /\ Race
          /\ typed' \subseteq typed \ Changed
          /\ requests' = requests
          /\ answers' \subseteq answers
          /\ UNCHANGED DIRTY
        BY <1>5, <2>3 DEF Reloaded, Received
    <2>5. SaveInv'
        BY <2>4, FormChangeKeepsSaves DEF Edits
    <2> QED
        BY <2>4, <2>5, RenderKeepsMarks DEF Edits
<1> QED
    BY <1>1, <1>2, <1>3, <1>4, <1>5

LEMMA GiveUpKeepsEdits ==
    ASSUME Messages, Edits, NEW call \in Calls, GiveUp(call)
    PROVE  Edits'
<1>1. /\ answers' \subseteq answers
      /\ UNCHANGED <<form, DIRTY, typed, raced>>
    BY DEF GiveUp
<1>2. ASSUME NEW q \in requests', q.heard
      PROVE  q \in requests
    <2>1. CASE \E r \in requests : q = [r EXCEPT !.heard = FALSE]
        BY <1>2, <2>1, Unheard DEF Messages
    <2> QED
        BY <1>2, <2>1 DEF GiveUp
<1>3. SaveInv'
    BY <1>1, <1>2 DEF Edits, SaveInv
<1> QED
    BY <1>1, <1>3 DEF Edits, Subsections, EditIsMarked

LEMMA EditsKept ==
    ASSUME Copies, Messages, Edits, [Next]_vars
    PROVE  Edits'
<1>1. ASSUME NEW s \in Sections, PressSave(s)
      PROVE  Edits'
    BY <1>1, SendKeepsEdits DEF PressSave
<1>2. ASSUME NEW call \in Discards, PressDiscard(call)
      PROVE  Edits'
    BY <1>2, SendKeepsEdits, DiscardNames DEF PressDiscard
<1>3. CASE PressImport
    BY <1>3, SendKeepsEdits DEF PressImport, Saves, Sections
<1>4. CASE PollTimes \/ UNCHANGED vars
    BY <1>4 DEF PollTimes, vars, Edits, Subsections, SaveInv, EditIsMarked
<1>5. ASSUME NEW s \in Sections, Type(s)
      PROVE  Edits'
    BY <1>5, EditedKeepsEdits
<1>6. CASE AlterRows \/ ApplyRecommended
    BY <1>6, EditedKeepsEdits DEF Sections
<1>7. CASE SetLang \/ RefreshTimes
    BY <1>7, RenderParts, RenderKeepsEdits
<1> QED
    BY <1>1, <1>2, <1>3, <1>4, <1>5, <1>6, <1>7, SaveKeepsEdits, OtherKeepsEdits,
       ReceivedKeepsEdits, GiveUpKeepsEdits
    DEF Next, Operator, Server, Page

-----------------------------------------------------------------------------
(* One call at a time                                                      *)

LEMMA OneRequest ==
    ASSUME Messages, CalmInv, ~mixed, NEW r \in requests
    PROVE  waiting = {r.call} /\ requests = {r} /\ answers = {} /\ r.heard
<1>1. \A q \in requests : q.heard
    BY DEF CalmInv
<1>2. \A q \in requests : q.call \in waiting
    BY <1>1 DEF Messages, Awaited
<1>3. \A c \in waiting : c = r.call
    BY <1>2 DEF CalmInv
<1>4. \A q \in requests : q = r
    BY <1>1, <1>2, <1>3 DEF Messages, CallInv
<1>5. \A a \in answers : FALSE
    BY <1>1, <1>3 DEF Messages, Awaited, CallInv
<1> QED
    BY <1>1, <1>2, <1>3, <1>4, <1>5

LEMMA OneAnswer ==
    ASSUME Messages, CalmInv, ~mixed, NEW a \in answers
    PROVE  waiting = {a.call} /\ requests = {} /\ answers = {a}
<1>1. requests = {}
    BY OneRequest
<1>2. a.call \in waiting
    BY DEF Messages, Awaited
<1>3. \A c \in waiting : c = a.call
    BY <1>2 DEF CalmInv
<1>4. \A b \in answers : b = a
    BY <1>3 DEF Messages, Awaited, CallInv
<1> QED
    BY <1>1, <1>2, <1>3, <1>4

LEMMA AtRest ==
    ASSUME Messages
    PROVE  /\ waiting = {} /\ (\A r \in requests : r.heard) => requests = {} /\ answers = {}
           /\ requests = {} /\ answers = {} => waiting = {}
BY DEF Messages, Awaited, CallInv

\* What is under way is under way with the server as it was.
LEMMA EditedKeepsCalm ==
    ASSUME Copies, Messages, Edits, CalmInv, NEW s \in Sections,
           Type(s) \/ (s = "destinations" /\ AlterRows) \/ (s = "prayer" /\ ApplyRecommended)
    PROVE  CalmInv'
<1> SUFFICES ASSUME ~mixed' PROVE CalmInv'
    BY DEF CalmInv
<1>1. /\ Race
      /\ DIRTY' = DIRTY \cup {s}
      /\ UNCHANGED <<server, waiting, requests, answers, mixed>>
      /\ \A x \in Sections \ {s} : form'[x] = form[x] /\ CFG'[x] = CFG[x]
    BY EditParts DEF Edited
<1>2. ~mixed
    BY <1>1
<1>3. ASSUME NEW x \in Sections \cap waiting, x \notin raced'
      PROVE  form'[x] = form[x] /\ x \notin raced
    BY <1>1, <1>3, RaceParts
<1>4. \A r \in requests' : r.call \in Saves => r.data = form'[r.call] \/ r.call \in raced'
    BY <1>1, <1>2, <1>3 DEF CalmInv, Messages, Awaited, Saves
<1>5. \A a \in answers' : a.ok /\ a.call \in Saves =>
          form'[a.call] = server'[a.call] \/ a.call \in raced'
    BY <1>1, <1>2, <1>3 DEF CalmInv, Messages, Awaited, Saves
<1>6. ASSUME NEW x \in Sections \ (DIRTY' \cup raced')
      PROVE  form'[x] = server'[x] \/ Replaced(x)'
    <2>1. x \notin DIRTY /\ x # s /\ form'[x] = form[x]
        BY <1>1
    <2>2. x \notin raced
        BY <1>1, <2>1, RaceParts
    <2> QED
        BY <1>1, <1>2, <2>1, <2>2 DEF CalmInv, Replaced
<1>7. ASSUME NEW x \in Sections \ DIRTY'
      PROVE  CFG'[x] = server'[x] \/ Replaced(x)' \/ \E a \in answers' : a.call = x /\ a.ok
    BY <1>1, <1>2 DEF CalmInv, Replaced
<1> QED
    BY <1>1, <1>2, <1>4, <1>5, <1>6, <1>7 DEF CalmInv

\* The copy a form is rendered from is the server's, unless a save has just
\* been answered: then the section is raced.
LEMMA RenderKeepsCalm ==
    ASSUME Messages, CalmInv, Rendered
    PROVE  CalmInv'
<1> SUFFICES ASSUME ~mixed' PROVE CalmInv'
    BY DEF CalmInv
<1>1. /\ Race
      /\ UNCHANGED <<server, CFG, DIRTY, waiting, requests, answers, mixed>>
    BY DEF Rendered
<1>2. ~mixed
    BY <1>1
<1>3. ASSUME NEW x \in Sections \cap waiting, x \notin raced'
      PROVE  form'[x] = form[x] /\ x \notin raced
    BY <1>1, <1>3, RaceParts
<1>4. \A r \in requests' : r.call \in Saves => r.data = form'[r.call] \/ r.call \in raced'
    BY <1>1, <1>2, <1>3 DEF CalmInv, Messages, Awaited, Saves
<1>5. \A a \in answers' : a.ok /\ a.call \in Saves =>
          form'[a.call] = server'[a.call] \/ a.call \in raced'
    BY <1>1, <1>2, <1>3 DEF CalmInv, Messages, Awaited, Saves
<1>6. ASSUME NEW x \in Sections \ (DIRTY' \cup raced')
      PROVE  form'[x] = server'[x] \/ Replaced(x)'
    <2>1. CASE form'[x] = form[x]
        <3>1. x \notin raced
            BY <1>1, <2>1, RaceParts
        <3> QED
            BY <1>1, <1>2, <2>1, <3>1 DEF CalmInv, Replaced
    <2>2. CASE form'[x] # form[x]
        <3>1. x \notin waiting /\ form'[x] = CFG[x]
            BY <1>1, <2>2, RaceParts DEF Rendered
        <3>2. ~\E a \in answers : a.call = x
            BY <3>1 DEF Messages, Awaited
        <3> QED
            BY <1>1, <1>2, <3>1, <3>2 DEF CalmInv, Replaced
    <2> QED
        BY <2>1, <2>2
<1>7. ASSUME NEW x \in Sections \ DIRTY'
      PROVE  CFG'[x] = server'[x] \/ Replaced(x)' \/ \E a \in answers' : a.call = x /\ a.ok
    BY <1>1, <1>2 DEF CalmInv, Replaced
<1> QED
    BY <1>1, <1>2, <1>4, <1>5, <1>6, <1>7 DEF CalmInv

\* A call made while none is awaited, or a discard while none is under way.
LEMMA SendKeepsCalm ==
    ASSUME Messages, CalmInv, NEW call \in Calls, NEW data, Send(call, data),
           call \in Saves => data = form[call]
    PROVE  CalmInv'
<1> SUFFICES ASSUME ~mixed' PROVE CalmInv'
    BY DEF CalmInv
<1> DEFINE new == Request(call, data)
<1>1. new.call = call /\ new.data = data /\ new.heard
    BY RequestFields
<1>2. /\ waiting' = waiting \cup {call}
      /\ requests' = requests \cup {new}
      /\ UNCHANGED <<server, CFG, form, DIRTY, answers, raced>>
    BY DEF Send
<1>3. call \notin Discards => ~mixed /\ waiting = {}
    BY DEF Send
<1>4. waiting = {} /\ requests = {} /\ answers = {}
    <2>1. CASE call \in Discards
        BY <2>1, AtRest DEF Send
    <2>2. CASE call \notin Discards
        BY <1>3, <2>2, AtRest DEF CalmInv
    <2> QED
        BY <2>1, <2>2
<1> HIDE DEF new
<1>5. ASSUME call \notin Discards
      PROVE  /\ \A s \in Sections \ (DIRTY \cup raced) : form[s] = server[s]
             /\ \A s \in Sections \ DIRTY : CFG[s] = server[s]
    BY <1>3, <1>4, <1>5 DEF CalmInv, Replaced
<1>6. call \in Discards => \A s \in Sections : Replaced(s)'
    BY <1>2 DEF Replaced
<1> QED
    BY <1>1, <1>2, <1>4, <1>5, <1>6 DEF CalmInv

LEMMA SaveKeepsCalm ==
    ASSUME Copies, Messages, CalmInv, NEW r \in requests, ProcessSave(r)
    PROVE  CalmInv'
<1> SUFFICES ASSUME ~mixed' PROVE CalmInv'
    BY DEF CalmInv
<1>0. PICK ok \in BOOLEAN : /\ mixed' = (mixed \/ (~ok /\ r.call \notin DIRTY))
                           /\ Answer(r, ok, server')
    BY DEF ProcessSave, Stored
<1> DEFINE new == [call |-> r.call, ok |-> ok, config |-> server']
<1>1. new.call = r.call /\ new.ok = ok /\ new.config = server'
    OBVIOUS
<1>2. ~mixed /\ (ok \/ r.call \in DIRTY) /\ UNCHANGED <<CFG, form, DIRTY, waiting>>
    BY <1>0 DEF Answer
<1>3. waiting = {r.call} /\ requests = {r} /\ answers = {} /\ r.heard
    BY <1>2, OneRequest
<1>4. requests' = {} /\ answers' = {new}
    BY <1>0, <1>3 DEF Answer
<1>5. /\ r.call \in Sections
      /\ server' = [server EXCEPT ![r.call] = r.data]
    BY DEF ProcessSave, Saves
<1>6. /\ server'[r.call] = r.data
      /\ \A s \in Sections \ {r.call} : server'[s] = server[s]
    <2>1. server \in Configs /\ r.data \in Values[r.call]
        BY <1>5, RequestParts DEF Copies, Messages, Saves
    <2> QED
        BY <1>5, <2>1, ConfigUpdate
<1>7. IF r.data = form[r.call] THEN raced' = raced \ {r.call} ELSE raced' = raced
    BY DEF ProcessSave
<1>8. r.data = form[r.call] \/ r.call \in raced
    BY <1>2, <1>5 DEF CalmInv, Saves
<1> HIDE DEF new
<1>9. form[r.call] = server'[r.call] \/ r.call \in raced'
    BY <1>6, <1>7, <1>8
<1>10. ASSUME NEW s \in Sections \ (DIRTY' \cup raced')
       PROVE  form'[s] = server'[s]
    <2>1. CASE s = r.call
        BY <1>2, <1>9, <2>1
    <2>2. CASE s # r.call
        <3>1. s \notin DIRTY \cup raced
            BY <1>2, <1>7, <2>2
        <3>2. ~Replaced(s)
            BY <1>3, <1>5, DiscardNames DEF Replaced, Saves, Sections
        <3> QED
            BY <1>2, <1>6, <2>2, <3>1, <3>2 DEF CalmInv
    <2> QED
        BY <2>1, <2>2
<1>11. ASSUME NEW s \in Sections \ DIRTY', s # r.call
       PROVE  CFG'[s] = server'[s]
    <2>1. ~Replaced(s)
        BY <1>3, <1>5, DiscardNames DEF Replaced, Saves, Sections
    <2> QED
        BY <1>2, <1>3, <1>6, <1>11, <2>1 DEF CalmInv
<1> QED
    BY <1>1, <1>2, <1>3, <1>4, <1>9, <1>10, <1>11 DEF CalmInv

\* The configuration an import has changed is fetched again, unless it failed.
LEMMA ImportKeepsCalm ==
    ASSUME Copies, Messages, CalmInv, NEW r \in requests, ProcessImport(r)
    PROVE  CalmInv'
<1> SUFFICES ASSUME ~mixed' PROVE CalmInv'
    BY DEF CalmInv
<1>0. PICK ok \in BOOLEAN : /\ mixed' = (mixed \/ (~ok /\ "prayer" \notin DIRTY))
                           /\ Answer(r, ok, server')
    BY DEF ProcessImport, Stored
<1> DEFINE new == [call |-> r.call, ok |-> ok, config |-> server']
<1>1. /\ new.call = "import"
      /\ new.ok = ok
      /\ new.config = server'
      /\ new.call \notin Saves
    BY DEF ProcessImport, Saves, Sections
<1>2. ~mixed /\ (ok \/ "prayer" \in DIRTY) /\ UNCHANGED <<CFG, form, DIRTY, waiting, raced>>
    BY <1>0 DEF ProcessImport, Answer
<1>3. waiting = {"import"} /\ requests = {r} /\ answers = {} /\ r.heard
    BY <1>2, OneRequest DEF ProcessImport
<1>4. requests' = {} /\ answers' = {new}
    BY <1>0, <1>3 DEF Answer
<1>5. server'["destinations"] = server["destinations"]
    BY FieldUpdate DEF ProcessImport, Copies
<1> HIDE DEF new
<1>6. (ok => Replaced("prayer")') /\ ~Replaced("destinations")
    BY <1>1, <1>3, <1>4, DiscardNames DEF Replaced
<1>7. ASSUME NEW s \in Sections \ (DIRTY' \cup raced')
      PROVE  form'[s] = server'[s] \/ Replaced(s)'
    BY <1>2, <1>5, <1>6 DEF CalmInv, Sections
<1>8. ASSUME NEW s \in Sections \ DIRTY'
      PROVE  CFG'[s] = server'[s] \/ Replaced(s)'
    BY <1>2, <1>3, <1>5, <1>6 DEF CalmInv, Sections
<1> QED
    BY <1>1, <1>2, <1>3, <1>4, <1>7, <1>8 DEF CalmInv

LEMMA AnswerKeepsCalm ==
    ASSUME Messages, CalmInv, NEW r \in requests, ProcessGet(r) \/ Refuse(r)
    PROVE  CalmInv'
<1> SUFFICES ASSUME ~mixed' PROVE CalmInv'
    BY DEF CalmInv
<1>1. PICK ok \in BOOLEAN : Answer(r, ok, server) /\ (ok => r.call \notin Saves)
    BY DiscardNames DEF ProcessGet, Refuse, Saves, Gets, Sections
<1> DEFINE new == [call |-> r.call, ok |-> ok, config |-> server]
<1>2. new.call = r.call /\ new.ok = ok /\ new.config = server
    OBVIOUS
<1>3. ~mixed /\ UNCHANGED <<server, CFG, form, DIRTY, waiting, raced>>
    BY <1>1 DEF ProcessGet, Refuse, Answer
<1>4. waiting = {r.call} /\ requests = {r} /\ answers = {} /\ r.heard
    BY <1>3, OneRequest
<1>5. requests' = {} /\ answers' = {new}
    BY <1>1, <1>4 DEF Answer
<1> HIDE DEF new
<1>6. \A s \in Sections : Replaced(s) => Replaced(s)'
    BY <1>3, <1>4 DEF Replaced
<1> QED
    BY <1>1, <1>2, <1>3, <1>4, <1>5, <1>6 DEF CalmInv

\* With its only call answered the page shows what the server has, but for
\* what is marked; only an import leaves a call to be made.
LEMMA ReceivedKeepsCalm ==
    ASSUME Copies, Messages, CalmInv, NEW a \in answers,
           Saved(a) \/ Discarded(a) \/ Imported(a) \/ Reloaded(a)
    PROVE  CalmInv'
<1> SUFFICES ASSUME ~mixed' PROVE CalmInv'
    BY DEF CalmInv
<1>1. ~mixed /\ UNCHANGED server
    BY DEF Saved, Discarded, Imported, Reloaded, Received
<1>2. waiting = {a.call} /\ requests = {} /\ answers = {a} /\ answers' = {}
    BY <1>1, OneAnswer DEF Saved, Discarded, Imported, Reloaded, Received
<1>3. a.ok => a.config = server
    BY <1>1 DEF CalmInv
<1>4. CASE Saved(a)
    <2>1. /\ a.call \in Saves
          /\ waiting' = {}
          /\ requests' = {}
          /\ UNCHANGED <<form, raced>>
          /\ IF a.ok THEN CFG' = server /\ DIRTY' = DIRTY \ {a.call}
                     ELSE UNCHANGED <<CFG, DIRTY>>
        BY <1>2, <1>3, <1>4 DEF Saved, Received
    <2>2. \A s \in Sections : ~Replaced(s)
        BY <1>2, <2>1, DiscardNames DEF Replaced, Saves, Sections
    <2>3. a.ok => form[a.call] = server[a.call] \/ a.call \in raced
        BY <1>1, <2>1 DEF CalmInv
    <2>4. ASSUME NEW s \in Sections \ (DIRTY' \cup raced')
          PROVE  form'[s] = server'[s]
        BY <1>1, <2>1, <2>2, <2>3 DEF CalmInv
    <2>5. ASSUME NEW s \in Sections \ DIRTY'
          PROVE  CFG'[s] = server'[s]
        BY <1>1, <1>2, <2>1, <2>2 DEF CalmInv
    <2> QED
        BY <1>2, <2>1, <2>4, <2>5 DEF CalmInv
<1>5. CASE Discarded(a)
    <2>1. /\ form' = server
          /\ CFG' = server
          /\ waiting' = {}
          /\ requests' = {}
        BY <1>2, <1>3, <1>5 DEF Discarded, Received
    <2> QED
        BY <1>1, <1>2, <2>1 DEF CalmInv
<1>6. CASE Imported(a)
    <2>1. /\ a.call = "import"
          /\ UNCHANGED <<CFG, form, DIRTY, raced>>
        BY <1>6 DEF Imported
    <2>2. ~Replaced("destinations") /\ (~a.ok => ~Replaced("prayer"))
        BY <1>2, <2>1, DiscardNames DEF Replaced
    <2>3. a.ok => Replaced("prayer")'
        BY <1>6 DEF Imported, Replaced
    <2>4. ASSUME NEW s \in Sections \ (DIRTY' \cup raced')
          PROVE  form'[s] = server'[s] \/ Replaced(s)'
        BY <1>1, <2>1, <2>2, <2>3 DEF CalmInv, Sections
    <2>5. ASSUME NEW s \in Sections \ DIRTY'
          PROVE  CFG'[s] = server'[s] \/ Replaced(s)'
        BY <1>1, <1>2, <2>1, <2>2, <2>3 DEF CalmInv, Sections
    <2>6. /\ \A r \in requests' : r.heard /\ r.call \notin Saves
          /\ \A c, d \in waiting' : c = d
        BY <1>2, <1>6, RequestFields DEF Imported, Saves, Sections
    <2> QED
        BY <1>2, <2>4, <2>5, <2>6 DEF CalmInv
<1>7. CASE Reloaded(a)
    <2>1. /\ a.call = "reload"
          /\ a.ok
          /\ CFG' = server
          /\ form' = [form EXCEPT !.prayer = server.prayer]
          /\ waiting' = {}
          /\ requests' = {}
          /\ Race
          /\ UNCHANGED DIRTY
        BY <1>2, <1>3, <1>7 DEF Reloaded, Received
    <2>2. form'["prayer"] = server["prayer"] /\ form'["destinations"] = form["destinations"]
        <3>1. server.prayer \in Values.prayer /\ server \in Configs /\ form \in Configs
            BY DEF Copies, Configs
        <3> QED
            BY <2>1, <3>1, PrayerUpdate
    <2>3. ~Replaced("destinations")
        BY <1>2, <2>1, DiscardNames DEF Replaced
    <2>4. "destinations" \in raced' <=> "destinations" \in raced
        BY <2>1, <2>2, RaceParts DEF Sections
    <2>5. ASSUME NEW s \in Sections \ (DIRTY' \cup raced')
          PROVE  form'[s] = server'[s]
        BY <1>1, <2>1, <2>2, <2>3, <2>4 DEF CalmInv, Sections
    <2> QED
        BY <1>1, <1>2, <2>1, <2>5 DEF CalmInv
<1> QED
    BY <1>4, <1>5, <1>6, <1>7

LEMMA CalmKept ==
    ASSUME Copies, Messages, Edits, CalmInv, [Next]_vars
    PROVE  CalmInv'
<1>1. ASSUME NEW s \in Sections, PressSave(s)
      PROVE  CalmInv'
    BY <1>1, SendKeepsCalm DEF PressSave, Calls, Saves
<1>2. ASSUME NEW call \in Discards, PressDiscard(call)
      PROVE  CalmInv'
    BY <1>2, SendKeepsCalm, DiscardNames DEF PressDiscard
<1>3. CASE PressImport
    BY <1>3, SendKeepsCalm DEF PressImport, Calls, Saves, Sections
<1>4. ASSUME NEW call \in Calls, GiveUp(call)
      PROVE  CalmInv'
    BY <1>4 DEF GiveUp, CalmInv
<1>5. ASSUME NEW s \in Sections, Type(s)
      PROVE  CalmInv'
    BY <1>5, EditedKeepsCalm
<1>6. CASE AlterRows \/ ApplyRecommended
    BY <1>6, EditedKeepsCalm DEF Sections
<1>7. CASE SetLang \/ RefreshTimes
    BY <1>7, RenderParts, RenderKeepsCalm
<1>8. CASE PollTimes \/ UNCHANGED vars
    BY <1>8 DEF PollTimes, vars, CalmInv, Replaced
<1> QED
    BY <1>1, <1>2, <1>3, <1>4, <1>5, <1>6, <1>7, <1>8, SaveKeepsCalm, ImportKeepsCalm,
       AnswerKeepsCalm, ReceivedKeepsCalm
    DEF Next, Operator, Server, Page

-----------------------------------------------------------------------------
(* The theorems                                                            *)

IInv == Copies /\ Messages /\ Edits /\ CalmInv

LEMMA InitInv == Init => IInv
<1> SUFFICES ASSUME Init PROVE IInv
    OBVIOUS
<1>1. Copies
    BY DEF Init, Copies
<1>2. Messages
    BY DEF Init, Messages, Awaited, MessageTypes, CallInv
<1>3. Edits
    BY DEF Init, Edits, Subsections, SaveInv, EditIsMarked
<1>4. CalmInv
    BY DEF Init, CalmInv
<1> QED
    BY <1>1, <1>2, <1>3, <1>4 DEF IInv

LEMMA StepInv == IInv /\ [Next]_vars => IInv'
BY CopiesKept, MessagesKept, EditsKept, CalmKept DEF IInv, Messages

LEMMA Invariance == Spec => []IInv
<1> QED
    BY InitInv, StepInv, PTL DEF Spec

\* An awaited call is under way exactly once, as a request that is listened to or
\* as its answer, and a call that is not awaited has no answer to come, whatever
\* is given up, answered late or answered out of order.
THEOREM TypeCorrect == Spec => []TypeOK
<1>1. IInv => TypeOK
    <2> SUFFICES ASSUME IInv PROVE TypeOK
        OBVIOUS
    <2>1. {a.call : a \in answers} \subseteq waiting
        BY DEF IInv, Messages, Awaited
    <2>2. ASSUME NEW call \in waiting
          PROVE  \E x \in Pending(call) : Pending(call) = {x}
        <3>1. Pending(call) # {}
            BY DEF Pending, IInv, Messages, CallInv
        <3>2. \A x, y \in Pending(call) : x = y
            BY DEF Pending, IInv, Messages, CallInv
        <3> QED
            BY <3>1, <3>2
    <2> QED
        BY <2>1, <2>2 DEF TypeOK, IInv, Copies, Messages, Awaited, Edits, Subsections
<1> QED
    BY Invariance, <1>1, PTL

\* An edit that the server has never had stays marked as unsaved, unless it was
\* made while a save of its section was awaited.
THEOREM EditMarked == Spec => []EditIsMarked
<1>1. IInv => EditIsMarked
    BY DEF IInv, Edits
<1> QED
    BY Invariance, <1>1, PTL

\* The prayer times that arrive in the background never overwrite such an edit.
THEOREM RefreshKeeps == Spec => RefreshKeepsEdits
<1>1. ASSUME IInv, [Next]_vars
      PROVE  timeline /\ ~timeline' /\ "prayer" \in typed \ raced => form' = form
    <2> SUFFICES ASSUME timeline, ~timeline', "prayer" \in typed \ raced
                 PROVE  form' = form
        OBVIOUS
    <2>1. "prayer" \in DIRTY
        BY <1>1 DEF IInv, Edits, EditIsMarked
    <2>2. RefreshTimes
        BY <1>1 DEF Next, Operator, Server, Page, Type, AlterRows, ApplyRecommended, Edited,
           PressSave, PressDiscard, PressImport, Send, SetLang, PollTimes, ProcessSave,
           ProcessImport, ProcessGet, Refuse, Stored, Answer, Saved, Discarded, Imported, Reloaded, GiveUp, vars
    <2> QED
        BY <2>1, <2>2 DEF RefreshTimes
<1>2. IInv /\ [Next]_vars =>
          [timeline /\ ~timeline' /\ "prayer" \in typed \ raced => form' = form]_vars
    BY <1>1
<1> QED
    BY Invariance, <1>2, PTL DEF Spec, RefreshKeepsEdits

\* After calls made one at a time, each answered, what is not marked as unsaved
\* is what the server has: a call that fails when its section is stored already
\* does no harm to a section that is marked.
THEOREM UnmarkedStored == Spec => []UnmarkedIsStored
<1>1. IInv => UnmarkedIsStored
    <2> SUFFICES ASSUME IInv, ~mixed, waiting = {}, NEW s \in Sections \ (DIRTY \cup raced)
                 PROVE  form[s] = server[s]
        BY DEF UnmarkedIsStored
    <2>1. answers = {}
        BY DEF IInv, Messages, Awaited
    <2> QED
        BY <2>1 DEF IInv, CalmInv, Replaced
<1> QED
    BY Invariance, <1>1, PTL
=============================================================================
