----------------------------- MODULE Timetable -----------------------------
(***************************************************************************)
(* The uploaded timetable: timetable.parse reads a file line by line, save *)
(* stores the table next to the configuration, and times_for looks a date  *)
(* up by month and day, for every year.                                    *)
(*                                                                         *)
(* A line is a date line, whose month and day may be out of range, a line  *)
(* for one of the prayers, whose value may be blank or no time, or any     *)
(* other line: an unknown name, or a date in another form, which parse     *)
(* takes for the time of an unknown prayer.                                *)
(***************************************************************************)
EXTENDS Integers, Sequences

CONSTANTS
    Prayers,    \* timetable.PRAYERS, after the aliases
    Times,      \* the normalised times of day
    Dates,      \* the MM-DD keys that occur
    LeapDay,    \* "02-29"
    DayBefore,  \* "02-28"
    NoDate,     \* cur_key is None
    NoTime,     \* a blank or unusable value; a prayer without a time
    NoFile, Broken,
    MaxLines    \* bound: lines of a file

ASSUME TimetableAssumption ==
    /\ {LeapDay, DayBefore} \subseteq Dates
    /\ LeapDay # DayBefore
    /\ NoDate \notin Dates /\ NoTime \notin Times
    /\ MaxLines \in Nat

Line == {<<"date", d>> : d \in Dates \cup {NoDate}}
        \cup {<<"time", p, t>> : p \in Prayers, t \in Times \cup {NoTime}}
        \cup {<<"other">>}

\* What a table holds for one date, and the tables: only some dates are keys.
Day == [Prayers -> Times \cup {NoTime}]
NoTimes == [p \in Prayers |-> NoTime]
Table == UNION {[D -> Day] : D \in SUBSET Dates}
NoTable == [d \in {} |-> NoTimes]

ASSUME FileAssumption == NoFile # Broken /\ {NoFile, Broken} \cap Table = {}

-----------------------------------------------------------------------------
(* The meaning of a file, read without a parser.                           *)

Latest(S) == CHOOSE i \in S : \A j \in S : j <= i

\* The date under which line i stands.
DateAt(lines, i) ==
    LET above == {j \in 1 .. i : lines[j][1] = "date"}
    IN  IF above = {} THEN NoDate ELSE lines[Latest(above)][2]

\* The lines for prayer p under date d.
Entries(lines, d, p) ==
    {i \in 1 .. Len(lines) : /\ lines[i][1] = "time" /\ lines[i][2] = p
                             /\ DateAt(lines, i) = d}
Usable(lines, d, p) == {i \in Entries(lines, d, p) : lines[i][3] # NoTime}

\* The last usable value counts: this is what the parser computes.
Given(lines) ==
    [d \in Dates |-> [p \in Prayers |->
        LET S == Usable(lines, d, p) IN IF S = {} THEN NoTime ELSE lines[Latest(S)][3]]]

\* The last value counts, a blank one too: this is what the docstring says.
Intended(lines) ==
    [d \in Dates |-> [p \in Prayers |->
        LET S == Entries(lines, d, p) IN IF S = {} THEN NoTime ELSE lines[Latest(S)][3]]]

\* One block for each date, and one line in it for each prayer.
WellFormed(lines) ==
    /\ \A i, j \in 1 .. Len(lines) :
          lines[i][1] = "date" /\ lines[i] = lines[j] /\ lines[i][2] # NoDate => i = j
    /\ \A d \in Dates, p \in Prayers : \A i, j \in Entries(lines, d, p) : i = j

-----------------------------------------------------------------------------
VARIABLES
    phase,      \* the import: idle, parsing or writing
    read,       \* the lines parsed so far
    curKey,     \* cur_key of parse
    table,      \* table of parse
    file,       \* MANUAL_TIMETABLE_PATH
    \* history: read by no action
    stored      \* what the file says of which `file` is the table

timetableVars == <<phase, read, curKey, table, file, stored>>

Summary(lines) ==
    [given |-> Given(lines),
     intended |-> Intended(lines),
     wellFormed |-> WellFormed(lines)]

TimetableInit ==
    /\ phase = "idle"
    /\ read = <<>>
    /\ curKey = NoDate
    /\ table = NoTable
    /\ file = NoFile
    /\ stored = Summary(<<>>)

TimeIn(tab, d, p) == IF d \in DOMAIN tab THEN tab[d][p] ELSE NoTime

-----------------------------------------------------------------------------
(* timetable.import_text, called by manual_import on the event loop.       *)

StartImport ==
    /\ phase = "idle"
    /\ phase' = "parsing"
    /\ read' = <<>>
    /\ curKey' = NoDate
    /\ table' = NoTable
    /\ UNCHANGED <<file, stored>>

Reads(line) ==
    /\ phase = "parsing"
    /\ Len(read) < MaxLines
    /\ read' = Append(read, line)
    /\ UNCHANGED <<phase, file, stored>>

\* Mutants: a date out of range becomes a key; one out of range leaves the
\* block before it open.
DateLineUnchecked(d) ==
    /\ Reads(<<"date", d>>)
    /\ curKey' = d
    /\ table' = [x \in DOMAIN table \cup {d} |->
                    IF x \in DOMAIN table THEN table[x] ELSE NoTimes]
DateLineKeepsKey(d) ==
    /\ Reads(<<"date", d>>)
    /\ curKey' = IF d = NoDate THEN curKey ELSE d
    /\ table' = IF d = NoDate THEN table
                ELSE [x \in DOMAIN table \cup {d} |->
                         IF x \in DOMAIN table THEN table[x] ELSE NoTimes]

\* setdefault keeps the times of an earlier block of the same date.
DateLine(d) ==
    /\ Reads(<<"date", d>>)
    /\ curKey' = d
    /\ table' = IF d = NoDate THEN table
                ELSE [x \in DOMAIN table \cup {d} |->
                         IF x \in DOMAIN table THEN table[x] ELSE NoTimes]

TimeLine(p, t) ==
    /\ Reads(<<"time", p, t>>)
    /\ table' = IF curKey = NoDate \/ t = NoTime THEN table
                ELSE [table EXCEPT ![curKey][p] = t]
    /\ UNCHANGED curKey

OtherLine ==
    /\ Reads(<<"other">>)
    /\ UNCHANGED <<curKey, table>>

\* Mutant: the file itself is opened for writing.
EndOfFileInPlace ==
    /\ phase = "parsing"
    /\ LET dates == {d \in DOMAIN table : table[d] # NoTimes}
       IN  /\ table' = [d \in dates |-> table[d]]
           /\ phase' = IF dates = {} THEN "idle" ELSE "writing"
           /\ file' = IF dates = {} THEN file ELSE Broken
    /\ UNCHANGED <<read, curKey, stored>>

\* Dates without a time are dropped; without any date the import raises.
\* Otherwise save() begins to write a temporary file.
EndOfFile ==
    /\ phase = "parsing"
    /\ LET dates == {d \in DOMAIN table : table[d] # NoTimes}
       IN  /\ table' = [d \in dates |-> table[d]]
           /\ phase' = IF dates = {} THEN "idle" ELSE "writing"
    /\ UNCHANGED <<read, curKey, file, stored>>

\* os.replace puts the complete temporary file in place.
Replace ==
    /\ phase = "writing"
    /\ phase' = "idle"
    /\ file' = table
    /\ stored' = Summary(read)
    /\ UNCHANGED <<read, curKey, table>>

\* The write fails, or the process is killed at any moment of the import.
Fails ==
    /\ phase # "idle"
    /\ phase' = "idle"
    /\ UNCHANGED <<read, curKey, table, file, stored>>

TimetableNext ==
    \/ StartImport
    \/ \E d \in Dates \cup {NoDate} : DateLine(d)
    \/ \E p \in Prayers, t \in Times \cup {NoTime} : TimeLine(p, t)
    \/ OtherLine
    \/ EndOfFile \/ Replace \/ Fails

TimetableSpec == TimetableInit /\ [][TimetableNext]_timetableVars

-----------------------------------------------------------------------------
(* Look-up, by the requests and by the threads that rebuild the schedule.  *)

load == IF file \in {NoFile, Broken} THEN NoTable ELSE file

\* Mutant: no fallback.
times_forExactly(d) == IF d \in DOMAIN load THEN load[d] ELSE NoTimes

times_for(d) ==
    IF d \in DOMAIN load THEN load[d]
    ELSE IF d = LeapDay /\ DayBefore \in DOMAIN load THEN load[DayBefore]
    ELSE NoTimes

-----------------------------------------------------------------------------
\* The variables have their types.
TimetableTypeOK ==
    /\ phase \in {"idle", "parsing", "writing"}
    /\ read \in Seq(Line) /\ Len(read) <= MaxLines
    /\ curKey \in Dates \cup {NoDate}
    /\ table \in Table
    /\ file \in Table \cup {NoFile}

\* A reader sees the whole table of the last completed import, or none, also
\* while an import writes, and after one that failed or was killed; and that
\* table is what the lines of the file say: no time filed under the date of
\* another block or after a date that could not be used, and none lost.
LoadsOneImport ==
    \A d \in Dates, p \in Prayers : TimeIn(load, d, p) = stored.given[d][p]

\* For a file with one block for each date, a date that has a time is served
\* exactly as the docstring says, blank values included (timetable.py:18).
\* A date of blanks only is dropped by parse: if it is 29 February, it takes
\* the times of the 28th.
WellFormedIsServed ==
    \A d \in Dates : stored.wellFormed /\ stored.intended[d] # NoTimes =>
        times_for(d) = stored.intended[d]

\* A file of an ordinary year serves every date of a leap year as well
\* ("a single year's file repeats every year").
YearRepeats ==
    (\A d \in Dates \ {LeapDay} : stored.given[d] # NoTimes) =>
        \A d \in Dates : times_for(d) # NoTimes
=============================================================================
