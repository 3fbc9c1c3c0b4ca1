------------------------------ MODULE Location ------------------------------
(***************************************************************************)
(* The location that prayer times are computed for.  A save of the section *)
(* merges what the request sends into the stored section.  If it asks for  *)
(* the mode by city, update_config first replaces coordinates, time zone   *)
(* and names by those of geo.city_record, or falls back to coordinates.    *)
(*                                                                         *)
(* The bundled city database is the constant Cities; the coordinates of a  *)
(* place are one value.  The names of the country and the local names,     *)
(* which no look-up reads, are left out.  A save is one step: config holds *)
(* its lock.                                                               *)
(***************************************************************************)
EXTENDS Integers

CONSTANTS
    Cities,     \* records: id, country, name, region, coords, timezone, population
    Coords,     \* coordinates an operator may type
    Timezones,  \* the time zones that ZoneInfo knows
    Codes,      \* country codes as clients spell them
    Upper,      \* str.upper of a code
    Names,      \* names of cities as clients spell them
    Regions,    \* names of regions as clients spell them
    Folded,     \* a name in small letters, without outer blanks
    None        \* an empty string, or a field that is not sent

ASSUME LocationAssumption ==
    /\ \A c \in Cities : /\ c.timezone \in Timezones
                         /\ None \notin {c.id, c.country, c.name}
                         /\ c.population \in Nat
                         /\ c.country \in Codes /\ Upper[c.country] = c.country
                         /\ c.name \in Names /\ c.region \in Regions \cup {None}
    /\ \A c, d \in Cities : c.id = d.id => c = d
    /\ Upper \in [Codes \cup {None} -> Codes \cup {None}] /\ Upper[None] = None
    /\ DOMAIN Folded = Names \cup Regions \cup {None} /\ Folded[None] = None

VARIABLES
    location,   \* config.get().location
    available,  \* the database can be read
    checked     \* history: the last save has sent the mode as a boolean

vars == <<location, available, checked>>

Ids == {c.id : c \in Cities}
Countries == {c.country : c \in Cities}
Fields == {"country", "city", "city_id", "region", "coords", "timezone", "use_manual"}

\* The city a section in the mode by city stands for.  The code of the country
\* is stored as it was sent.
IsAt(l, c) ==
    /\ ~l.use_manual /\ Upper[l.country] = c.country
    /\ <<l.city, l.city_id, l.region>> = <<c.name, c.id, c.region>>
    /\ <<l.coords, l.timezone>> = <<c.coords, c.timezone>>

SamePlace(l, m) == <<l.coords, l.timezone>> = <<m.coords, m.timezone>>

-----------------------------------------------------------------------------
(* geo.city_record: the records it may return, none or one.                *)

MostPeople(S) == {c \in S : \A d \in S : d.population <= c.population}

\* Codes and names match whatever their case; an id matches exactly.
ById(country, id) == {c \in Cities : c.id = id /\ c.country = Upper[country]}
ByCityName(country, name) ==
    {c \in Cities : /\ c.country = Upper[country]
                    /\ Folded[name] # None /\ Folded[c.name] = Folded[name]}
InRegion(named, region) ==
    {c \in named : region # None /\ Folded[c.region] = Folded[region]}

\* Seeded fault: name and region are tried before the id.
city_recordByName(country, city, city_id, region) ==
    LET named  == ByCityName(country, city)
        nearby == InRegion(named, region)
    IN  IF ~available THEN {}
        ELSE IF named # {} THEN MostPeople(IF nearby # {} THEN nearby ELSE named)
        ELSE ById(country, city_id)

\* Seeded fault: an id that matches nothing falls back to the name.
city_recordFallsBack(country, city, city_id, region) ==
    IF ~available THEN {}
    ELSE IF ById(country, city_id) # {} THEN ById(country, city_id)
    ELSE MostPeople(ByCityName(country, city))

\* What main asks beside it, country_exists, holds of the country of any city.
city_record(country, city, city_id, region) ==
    LET named  == ByCityName(country, city)
        nearby == InRegion(named, region)
    IN  IF ~available THEN {}
        ELSE IF city_id # None THEN ById(country, city_id)
        ELSE MostPeople(IF nearby # {} THEN nearby ELSE named)

-----------------------------------------------------------------------------
(* main.update_config and LocationConfig                                   *)

Sent(data, f) == IF f \in DOMAIN data THEN data[f] ELSE None

\* Seeded fault: the time zone of the request is kept.
CorrectedKeepsZone(data) ==
    LET found == city_record(Sent(data, "country"), Sent(data, "city"),
                             Sent(data, "city_id"), Sent(data, "region"))
    IN  IF found = {} THEN [use_manual |-> TRUE]
        ELSE LET c == CHOOSE x \in found : TRUE
             IN  [city_id |-> c.id, coords |-> c.coords, city |-> c.name, region |-> c.region]

\* The fields in which update_config changes what the request sent.
Corrected(data) ==
    LET found == city_record(Sent(data, "country"), Sent(data, "city"),
                             Sent(data, "city_id"), Sent(data, "region"))
    IN  IF found = {} THEN [use_manual |-> TRUE]
        ELSE LET c == CHOOSE x \in found : TRUE
             IN  [city_id |-> c.id, coords |-> c.coords, timezone |-> c.timezone,
                  city |-> c.name, region |-> c.region]

\* The mode is there and is a boolean: what only pydantic reads as one, such as
\* 0 or "false", comes with the mark "word".
SendsMode(data) == "use_manual" \in DOMAIN data /\ "word" \notin DOMAIN data

Checked(data) ==
    LET new == Corrected(data)
    IN  IF ~SendsMode(data) \/ data.use_manual THEN data
        ELSE [f \in DOMAIN data \cup DOMAIN new |->
                 IF f \in DOMAIN new THEN new[f] ELSE data[f]]

Merged(stored, data) ==
    [f \in Fields |-> IF f \in DOMAIN data THEN data[f] ELSE stored[f]]

\* Without a country and a city there is only the mode by coordinates.
Normalised(l) ==
    [l EXCEPT !.use_manual = IF None \in {l.country, l.city} THEN TRUE ELSE l.use_manual]

Saved(data) == Normalised(Merged(location, Checked(data)))

\* An unknown time zone is refused, and nothing is stored.
Valid(l) == l.timezone \in Timezones

-----------------------------------------------------------------------------
(* What the page sends: collectLoc always sends the whole section.         *)

SpellingsOf(c) == {code \in Codes : Upper[code] = c.country}

\* A city of the list; the country is restored as stored, or picked too.
Pick(c, code) ==
    [country |-> code, city |-> c.name, city_id |-> c.id, region |-> c.region,
     coords |-> c.coords, timezone |-> c.timezone, use_manual |-> FALSE]

\* Seeded fault: collectLoc leaves the id of the city out.
CollectedWithoutId(l, manual) ==
    [l EXCEPT !.use_manual = manual \/ None \in {l.country, l.city},
              !.city_id = None, !.region = None]

\* What is sent of the selection and the coordinates shown: id and region go
\* with the city, and without a city and its country the mode is by coordinates.
Collected(l, manual) ==
    [l EXCEPT !.use_manual = manual \/ None \in {l.country, l.city},
              !.city_id = IF l.city = None THEN None ELSE l.city_id,
              !.region = IF l.city = None THEN None ELSE l.region]

\* The selection that renderLoc restored, or a city picked since.
Shown == {location} \cup UNION {{Pick(c, code) : code \in SpellingsOf(c)} : c \in Cities}

\* Picking a country, or typing over one or over the city, clears the city.
Cleared(l) ==
    {[l EXCEPT !.country = code, !.city = None] : code \in {l.country, None} \cup Countries}

Typed(l, coords, tz) == Collected([l EXCEPT !.coords = coords, !.timezone = tz], TRUE)

(* What other clients of the API may send.                                 *)

\* A city named by hand, at coordinates of the caller's own.
ByName(country, name, id, region, coords) ==
    [country |-> country, city |-> name, city_id |-> id, region |-> region,
     coords |-> coords, use_manual |-> FALSE]

\* A part of the section: without the mode, or the coordinates alone.
WithoutMode(data) == [f \in DOMAIN data \ {"use_manual"} |-> data[f]]
CoordsOnly(coords) == [coords |-> coords]

\* The mode as a number or a word.
WithWord(data) == [f \in DOMAIN data \cup {"word"} |-> IF f = "word" THEN TRUE ELSE data[f]]

-----------------------------------------------------------------------------
\* A section stored before there were ids, or before there was a mode.
Named(c) == [Pick(c, c.country) EXCEPT !.city_id = None, !.region = None]

CoordinatesOf(coords, tz) ==
    [country |-> None, city |-> None, city_id |-> None, region |-> None,
     coords |-> coords, timezone |-> tz, use_manual |-> TRUE]

Init ==
    /\ location \in {Named(c) : c \in Cities}
                    \cup {CoordinatesOf(x, tz) : x \in Coords, tz \in Timezones}
    /\ available \in BOOLEAN
    /\ checked = FALSE

Save(data) ==
    /\ location' = Saved(data)
    /\ Valid(location')
    /\ checked' = SendsMode(data)
    /\ UNCHANGED available

\* _cache keeps nothing of an import that fails: the next call tries again.
ImportFails ==
    /\ available
    /\ available' = FALSE
    /\ UNCHANGED <<location, checked>>

ImportWorks ==
    /\ ~available
    /\ available' = TRUE
    /\ UNCHANGED <<location, checked>>

SavePage ==
    \E shown \in Shown : \E l \in {shown} \cup Cleared(shown) :
        \/ \E manual \in BOOLEAN : Save(Collected(l, manual))
        \/ \E x \in Coords, tz \in Timezones \cup {None} : Save(Typed(l, x, tz))

SaveOther ==
    \/ \E country \in Codes \cup {None}, name \in Names \cup {None},
          id \in Ids \cup {None}, region \in Regions \cup {None}, x \in Coords :
            LET data == ByName(country, name, id, region, x)
            IN  Save(data) \/ Save(WithoutMode(data)) \/ Save(WithWord(data))
    \/ \E x \in Coords : Save(CoordsOnly(x))

Next == SavePage \/ SaveOther \/ ImportFails \/ ImportWorks

Spec == Init /\ [][Next]_vars

-----------------------------------------------------------------------------
(* Properties                                                              *)

\* Every field of the section has a value of its own; the time zone is known
\* and the mode by city names a city (LocationConfig's validators).
TypeOK ==
    /\ DOMAIN location = Fields
    /\ location.country \in Codes \cup {None}
    /\ location.city \in Names \cup {None}
    /\ location.city_id \in Ids \cup {None}
    /\ location.region \in Regions \cup {None}
    /\ location.coords \in Coords \cup {c.coords : c \in Cities}
    /\ location.timezone \in Timezones
    /\ location.use_manual \in BOOLEAN
    /\ available \in BOOLEAN /\ checked \in BOOLEAN

\* In the mode by city the stored coordinates, time zone, name, id and region
\* are all those of one city of the database, in the country whose code is
\* stored, up to the case of its letters: whatever a client has sent, if the
\* last save sent the mode as a boolean.  (One that leaves the mode out, or
\* writes it as a word, is not looked up and may move the city.)
CityPlaceIsReal ==
    checked /\ ~location.use_manual => \E c \in Cities : IsAt(location, c)

\* While the database can be read, picking a city in the list stores that very
\* city, whatever was stored before, however many cities share its name and
\* however the code of the restored country is spelled.
PickIsStored ==
    available => \A c \in Cities : \A code \in SpellingsOf(c) :
                    IsAt(Saved(Collected(Pick(c, code), FALSE)), c)

\* A city asked for by its id is that city or none: an id that is unknown, or
\* belongs to another country, is never replaced by a city of the same name.
\* Without an id, a region that has a city of that name decides.
NeverAnotherCity ==
    \A country \in Codes, name \in Names, id \in Ids \cup {None},
       region \in Regions \cup {None}, x \in Coords :
        LET l    == Saved(ByName(country, name, id, region, x))
            near == InRegion(ByCityName(country, name), region)
        IN  ~l.use_manual =>
                /\ l.country = country
                /\ id # None => l.city_id = id
                /\ id = None => Folded[l.city] = Folded[name]
                /\ id = None /\ near # {} => Folded[l.region] = Folded[region]

\* Opening the page and saving the section as it stands keeps the country, the
\* city's id or, without one, its name up to case.  It moves nothing and, while
\* the database can be read, changes nothing but an id or region that is stored
\* without a city, also when the database was lost or came back since the last
\* save: unless that save left the mode by city unchecked.  (Such a section, or
\* one from before there were ids, is looked up now and its place corrected.)
ResaveKeepsPlace ==
    LET l == Saved(Collected(location, location.use_manual))
    IN  /\ l.country = location.country
        /\ location.city # None =>
               IF location.city_id # None THEN l.city_id = location.city_id
               ELSE Folded[l.city] = Folded[location.city]
        /\ checked \/ location.use_manual =>
               /\ SamePlace(l, location)
               /\ available /\ location.city # None => l = location

=============================================================================
