-------------------------- MODULE PrayerTimesProofs --------------------------
(***************************************************************************)
(* What prayer times are computed from: the stored location, for every     *)
(* city database, finite or not, and any coordinates and time zones; and   *)
(* the uploaded timetable, for every text.  The two share no state.        *)
(***************************************************************************)
EXTENDS Location, Timetable, WellFoundedInduction, TLAPS

-----------------------------------------------------------------------------
(* The location.  The invariant adds to TypeOK and CityPlaceIsReal only    *)
(* that the section is a function on its fields.                           *)

IsSection(l) == DOMAIN l = Fields /\ l = [f \in Fields |-> l[f]]

Places == Coords \cup {c.coords : c \in Cities}

\* Values of the right kinds; the time zone may be unknown.
WellTyped(l) ==
    /\ l.country \in Codes \cup {None}
    /\ l.city \in Names \cup {None}
    /\ l.city_id \in Ids \cup {None}
    /\ l.region \in Regions \cup {None}
    /\ l.coords \in Places
    /\ l.use_manual \in BOOLEAN

IInv == TypeOK /\ IsSection(location) /\ CityPlaceIsReal

\* What any client may send: fields of the section, each with a value of its
\* kind; a request that names the mode names a country.
Sendable(data) ==
    /\ "country" \in DOMAIN data => data.country \in Codes \cup {None}
    /\ "city" \in DOMAIN data => data.city \in Names \cup {None}
    /\ "city_id" \in DOMAIN data => data.city_id \in Ids \cup {None}
    /\ "region" \in DOMAIN data => data.region \in Regions \cup {None}
    /\ "coords" \in DOMAIN data => data.coords \in Places
    /\ "use_manual" \in DOMAIN data => data.use_manual \in BOOLEAN /\ "country" \in DOMAIN data

Found(data) == city_record(Sent(data, "country"), Sent(data, "city"),
                           Sent(data, "city_id"), Sent(data, "region"))

\* The value a field has after a save that changes nothing of the request.
AsSent(data, f) == IF f \in DOMAIN data THEN data[f] ELSE location[f]

-----------------------------------------------------------------------------
\* geo.city_record only returns cities of the country it is asked about.
LEMMA CityRecord ==
    ASSUME NEW country, NEW city, NEW id, NEW region,
           NEW c \in city_record(country, city, id, region)
    PROVE  /\ c \in Cities /\ c.country = Upper[country]
           /\ id # None => c.id = id
           /\ id = None => Folded[c.name] = Folded[city]
BY DEF city_record, MostPeople, ById, ByCityName, InRegion

\* A city is what its id stands for, however its country is spelled.
LEMMA RecordOfId ==
    ASSUME available, NEW c \in Cities, NEW country, Upper[country] = c.country,
           NEW city, NEW region
    PROVE  city_record(country, city, c.id, region) = {c}
<1>1. c.id # None /\ \A d \in Cities : d.id = c.id => d = c
  BY LocationAssumption
<1> QED BY <1>1 DEF city_record, ById

\* The validator of the section only changes the mode.
LEMMA SavedIsMerged ==
    ASSUME NEW data
    PROVE  LET m == Merged(location, Checked(data))
           IN  /\ DOMAIN m = Fields
               /\ \A f \in Fields : m[f] = AsSent(Checked(data), f)
               /\ IsSection(Saved(data))
               /\ \A f \in Fields \ {"use_manual"} : Saved(data)[f] = m[f]
               /\ Saved(data).use_manual =
                     IF None \in {m.country, m.city} THEN TRUE ELSE m.use_manual
<1> DEFINE m == Merged(location, Checked(data))
<1>1. /\ m = [f \in Fields |-> m[f]] /\ DOMAIN m = Fields
      /\ \A f \in Fields : m[f] = AsSent(Checked(data), f)
  BY DEF Merged, AsSent
<1>2. Saved(data) = [m EXCEPT !.use_manual =
                        IF None \in {m.country, m.city} THEN TRUE ELSE m.use_manual]
  BY DEF Saved, Normalised
<1> HIDE DEF m
<1>3. "use_manual" \in Fields
  BY DEF Fields
<1>4. /\ IsSection(Saved(data))
      /\ \A f \in Fields \ {"use_manual"} : Saved(data)[f] = m[f]
      /\ Saved(data).use_manual =
            IF None \in {m.country, m.city} THEN TRUE ELSE m.use_manual
  BY <1>1, <1>2, <1>3 DEF IsSection
<1> QED BY <1>1, <1>4 DEF m

\* A save that asks for the mode by city stores one city that was found, or
\* falls back to coordinates and stores the rest as it was sent.
LEMMA SavedByCity ==
    ASSUME NEW data, SendsMode(data), data.use_manual = FALSE, "country" \in DOMAIN data
    PROVE  /\ Saved(data).country = data.country
           /\ Found(data) = {} =>
                 /\ Saved(data).use_manual = TRUE
                 /\ \A f \in Fields \ {"use_manual"} : Saved(data)[f] = AsSent(data, f)
           /\ Found(data) # {} => \E c \in Found(data) :
                 /\ Saved(data).city = c.name
                 /\ Saved(data).city_id = c.id
                 /\ Saved(data).region = c.region
                 /\ Saved(data).coords = c.coords
                 /\ Saved(data).timezone = c.timezone
                 /\ Saved(data).use_manual = IF None \in {data.country, c.name} THEN TRUE ELSE FALSE
<1> DEFINE new == Corrected(data)  m == Merged(location, Checked(data))
<1>0. "use_manual" \in DOMAIN data
  BY DEF SendsMode
<1>1. Checked(data) = [f \in DOMAIN data \cup DOMAIN new |->
                         IF f \in DOMAIN new THEN new[f] ELSE data[f]]
  BY DEF Checked
<1>2. /\ \A f \in Fields : m[f] = AsSent(Checked(data), f)
      /\ \A f \in Fields \ {"use_manual"} : Saved(data)[f] = m[f]
      /\ Saved(data).use_manual = IF None \in {m.country, m.city} THEN TRUE ELSE m.use_manual
  BY SavedIsMerged
<1> HIDE DEF m
<1>3. CASE Found(data) = {}
  <2>1. new = [use_manual |-> TRUE]
    BY <1>3 DEF Corrected, Found
  <2>2. DOMAIN new = {"use_manual"} /\ new["use_manual"] = TRUE
    BY <2>1
  <2> HIDE DEF new
  <2>3. /\ DOMAIN Checked(data) = DOMAIN data /\ Checked(data)["use_manual"] = TRUE
        /\ \A f \in DOMAIN data \ {"use_manual"} : Checked(data)[f] = data[f]
    BY <1>0, <1>1, <2>2
  <2>4. m.use_manual = TRUE
    BY <1>0, <1>2, <2>3 DEF Fields, AsSent
  <2>5. \A f \in Fields \ {"use_manual"} : Saved(data)[f] = AsSent(data, f)
    BY <1>2, <2>3 DEF AsSent
  <2>6. Saved(data).country = data.country
    BY <2>5 DEF AsSent, Fields
  <2> QED BY <1>2, <1>3, <2>4, <2>5, <2>6
<1>4. CASE Found(data) # {}
  <2>1. PICK c \in Found(data) :
           new = [city_id |-> c.id, coords |-> c.coords, timezone |-> c.timezone,
                  city |-> c.name, region |-> c.region]
    BY <1>4 DEF Corrected, Found
  <2>2. /\ DOMAIN new = {"city_id", "coords", "timezone", "city", "region"}
        /\ new["city_id"] = c.id /\ new["coords"] = c.coords
        /\ new["timezone"] = c.timezone /\ new["city"] = c.name
        /\ new["region"] = c.region
    BY <2>1
  <2> HIDE DEF new
  <2>3. /\ m.city_id = c.id /\ m.coords = c.coords /\ m.timezone = c.timezone
        /\ m.city = c.name /\ m.region = c.region
    BY <1>1, <1>2, <2>2 DEF Fields, AsSent
  <2>4. m.use_manual = FALSE /\ m.country = data.country
    BY <1>0, <1>1, <1>2, <2>2 DEF Fields, AsSent
  <2>5. Saved(data).use_manual = IF None \in {data.country, c.name} THEN TRUE ELSE FALSE
    BY <1>2, <2>3, <2>4
  <2> QED BY <1>2, <1>4, <2>3, <2>4, <2>5 DEF Fields
<1> QED BY <1>3, <1>4

\* A save in the mode by coordinates, or whose mode is not looked at, stores
\* what is sent.
LEMMA SavedAsSent ==
    ASSUME NEW data, ~SendsMode(data) \/ data.use_manual = TRUE
    PROVE  /\ \A f \in Fields \ {"use_manual"} : Saved(data)[f] = AsSent(data, f)
           /\ Saved(data).use_manual \in {TRUE, AsSent(data, "use_manual")}
<1> DEFINE m == Merged(location, Checked(data))
<1>1. Checked(data) = data
  BY DEF Checked
<1>2. /\ \A f \in Fields : m[f] = AsSent(data, f)
      /\ \A f \in Fields \ {"use_manual"} : Saved(data)[f] = m[f]
      /\ Saved(data).use_manual = IF None \in {m.country, m.city} THEN TRUE ELSE m.use_manual
  BY <1>1, SavedIsMerged
<1> HIDE DEF m
<1>3. m.use_manual = AsSent(data, "use_manual")
  BY <1>2 DEF Fields
<1> QED BY <1>2, <1>3

-----------------------------------------------------------------------------
\* Whatever a client may send, what is stored has its type.
LEMMA SavedTyped ==
    ASSUME TypeOK, NEW data, Sendable(data), Valid(Saved(data))
    PROVE  /\ IsSection(Saved(data)) /\ WellTyped(Saved(data))
           /\ Saved(data).timezone \in Timezones
<1>0. Saved(data).timezone \in Timezones
  BY DEF Valid
<1>1. WellTyped(location)
  BY DEF TypeOK, WellTyped, Places
<1>2. ASSUME \A f \in Fields \ {"use_manual"} : Saved(data)[f] = AsSent(data, f),
             Saved(data).use_manual \in {TRUE, AsSent(data, "use_manual")}
      PROVE  WellTyped(Saved(data))
  <2>1. /\ AsSent(data, "country") \in Codes \cup {None}
        /\ AsSent(data, "city") \in Names \cup {None}
        /\ AsSent(data, "city_id") \in Ids \cup {None}
    BY <1>1 DEF Sendable, WellTyped, AsSent
  <2>2. /\ AsSent(data, "region") \in Regions \cup {None}
        /\ AsSent(data, "coords") \in Places
        /\ AsSent(data, "use_manual") \in BOOLEAN
    BY <1>1 DEF Sendable, WellTyped, AsSent
  <2> QED BY <1>2, <2>1, <2>2 DEF WellTyped, Fields
<1>3. CASE ~SendsMode(data) \/ data.use_manual = TRUE
  BY <1>0, <1>2, <1>3, SavedAsSent, SavedIsMerged
<1>4. CASE SendsMode(data) /\ data.use_manual = FALSE
  <2>0. "country" \in DOMAIN data /\ data.country \in Codes \cup {None}
    BY <1>4 DEF Sendable, SendsMode
  <2>1. CASE Found(data) = {}
    BY <1>0, <1>2, <1>4, <2>0, <2>1, SavedByCity, SavedIsMerged
  <2>2. CASE Found(data) # {}
    <3>1. PICK c \in Found(data) :
             /\ Saved(data).city = c.name
             /\ Saved(data).city_id = c.id
             /\ Saved(data).region = c.region
             /\ Saved(data).coords = c.coords
             /\ Saved(data).use_manual = IF None \in {data.country, c.name} THEN TRUE ELSE FALSE
      BY <1>4, <2>0, <2>2, SavedByCity
    <3>2. c \in Cities
      BY CityRecord DEF Found
    <3>3. c.name \in Names /\ c.region \in Regions \cup {None}
      BY <3>2, LocationAssumption
    <3>4. Saved(data).country \in Codes \cup {None}
      BY <1>4, <2>0, SavedByCity
    <3>5. WellTyped(Saved(data))
      BY <3>1, <3>2, <3>3, <3>4 DEF WellTyped, Ids, Places
    <3> QED BY <1>0, <3>5, SavedIsMerged
  <2> QED BY <2>1, <2>2
<1> QED BY <1>3, <1>4 DEF Sendable, SendsMode

\* In the mode by city, what is stored is a city, if the request sent the mode.
LEMMA SavedIsCity ==
    ASSUME NEW data, Sendable(data), SendsMode(data), Saved(data).use_manual = FALSE
    PROVE  \E c \in Cities : IsAt(Saved(data), c)
<1>0. "use_manual" \in DOMAIN data /\ data.use_manual \in BOOLEAN /\ "country" \in DOMAIN data
  BY DEF Sendable, SendsMode
<1>1. data.use_manual = FALSE
  <2>1. CASE data.use_manual = TRUE
    <3>1. Saved(data).use_manual = TRUE
      BY <1>0, <2>1, SavedAsSent DEF AsSent
    <3> QED BY <3>1
  <2> QED BY <1>0, <2>1
<1>2. Found(data) # {}
  BY <1>0, <1>1, SavedByCity
<1>3. PICK c \in Found(data) :
         /\ Saved(data).country = data.country
         /\ Saved(data).city = c.name
         /\ Saved(data).city_id = c.id
         /\ Saved(data).region = c.region
         /\ Saved(data).coords = c.coords
         /\ Saved(data).timezone = c.timezone
  BY <1>0, <1>1, <1>2, SavedByCity
<1>4. c \in Cities /\ c.country = Upper[data.country]
  BY <1>0, CityRecord DEF Found, Sent
<1> QED BY <1>3, <1>4 DEF IsAt

-----------------------------------------------------------------------------
\* What the page shows, and sends, is a section.
LEMMA PickIsSection ==
    ASSUME NEW c \in Cities, NEW code \in SpellingsOf(c)
    PROVE  /\ IsSection(Pick(c, code)) /\ WellTyped(Pick(c, code))
           /\ Pick(c, code).country = code /\ Pick(c, code).city = c.name
           /\ Pick(c, code).city_id = c.id /\ Pick(c, code).region = c.region
           /\ Pick(c, code).coords = c.coords /\ Pick(c, code).timezone = c.timezone
           /\ Upper[code] = c.country /\ code # None
<1>1. /\ code \in Codes /\ Upper[code] = c.country
      /\ c.name \in Names /\ c.region \in Regions \cup {None}
      /\ c.country # None /\ Upper[None] = None
  BY LocationAssumption DEF SpellingsOf
<1>2. code # None
  BY <1>1
<1> QED BY <1>1, <1>2 DEF Pick, IsSection, WellTyped, Fields, Ids, Places

LEMMA ClearedIsSection ==
    ASSUME NEW l, IsSection(l), WellTyped(l), NEW m \in Cleared(l)
    PROVE  IsSection(m) /\ WellTyped(m)
<1>1. PICK code \in {l.country, None} \cup Countries :
         m = [l EXCEPT !.country = code, !.city = None]
  BY DEF Cleared
<1>2. code \in Codes \cup {None}
  BY LocationAssumption DEF WellTyped, Countries
<1>3. /\ IsSection(m) /\ m.country = code /\ m.city = None /\ m.city_id = l.city_id
      /\ m.region = l.region /\ m.coords = l.coords /\ m.use_manual = l.use_manual
  BY <1>1 DEF IsSection, Fields
<1> QED BY <1>2, <1>3 DEF WellTyped

LEMMA CollectedFields ==
    ASSUME NEW l, IsSection(l), NEW manual \in BOOLEAN
    PROVE  LET r == Collected(l, manual)
           IN  /\ IsSection(r)
               /\ r.country = l.country /\ r.city = l.city
               /\ r.coords = l.coords /\ r.timezone = l.timezone
               /\ r.city_id = IF l.city = None THEN None ELSE l.city_id
               /\ r.region = IF l.city = None THEN None ELSE l.region
               /\ r.use_manual = (manual \/ None \in {l.country, l.city})
BY DEF Collected, IsSection, Fields

LEMMA CollectedIsSendable ==
    ASSUME NEW l, IsSection(l), WellTyped(l), NEW manual \in BOOLEAN
    PROVE  Sendable(Collected(l, manual)) /\ SendsMode(Collected(l, manual))
<1> DEFINE r == Collected(l, manual)
<1>1. /\ IsSection(r) /\ r.country = l.country /\ r.city = l.city /\ r.coords = l.coords
      /\ r.city_id \in {None, l.city_id} /\ r.region \in {None, l.region}
      /\ r.use_manual \in BOOLEAN
  BY CollectedFields
<1> HIDE DEF r
<1>2. Sendable(r)
  BY <1>1 DEF Sendable, WellTyped, IsSection, Fields
<1>3. SendsMode(r)
  BY <1>1 DEF SendsMode, IsSection, Fields
<1> QED BY <1>2, <1>3 DEF r

LEMMA TypedIsSendable ==
    ASSUME NEW l, IsSection(l), WellTyped(l), NEW x \in Coords, NEW tz
    PROVE  Sendable(Typed(l, x, tz))
<1> DEFINE m == [l EXCEPT !.coords = x, !.timezone = tz]
<1>1. /\ IsSection(m) /\ m.country = l.country /\ m.city = l.city /\ m.city_id = l.city_id
      /\ m.region = l.region /\ m.coords = x /\ m.use_manual = l.use_manual
  BY DEF IsSection, Fields
<1> HIDE DEF m
<1>2. WellTyped(m)
  BY <1>1 DEF WellTyped, Places
<1>3. Sendable(Collected(m, TRUE))
  BY <1>1, <1>2, CollectedIsSendable
<1> QED BY <1>3 DEF m, Typed

\* So is what other clients send in the model.
LEMMA OtherIsSendable ==
    ASSUME NEW country \in Codes \cup {None}, NEW name \in Names \cup {None},
           NEW id \in Ids \cup {None}, NEW region \in Regions \cup {None}, NEW x \in Coords
    PROVE  LET data == ByName(country, name, id, region, x)
           IN  Sendable(data) /\ Sendable(WithoutMode(data)) /\ Sendable(WithWord(data))
<1> DEFINE data == ByName(country, name, id, region, x)
<1>1. /\ DOMAIN data = {"country", "city", "city_id", "region", "coords", "use_manual"}
      /\ data.country = country /\ data.city = name /\ data.city_id = id
      /\ data.region = region /\ data.coords = x /\ data.use_manual = FALSE
  BY DEF ByName
<1> HIDE DEF data
<1>2. Sendable(data)
  BY <1>1 DEF Sendable, Places
<1>3. /\ DOMAIN WithoutMode(data) = {"country", "city", "city_id", "region", "coords"}
      /\ \A f \in DOMAIN WithoutMode(data) : WithoutMode(data)[f] = data[f]
  BY <1>1 DEF WithoutMode
<1>4. Sendable(WithoutMode(data))
  BY <1>1, <1>3 DEF Sendable, Places
<1>5. /\ DOMAIN WithWord(data) = DOMAIN data \cup {"word"}
      /\ \A f \in DOMAIN data : WithWord(data)[f] = data[f]
  BY <1>1 DEF WithWord
<1>6. Sendable(WithWord(data))
  BY <1>1, <1>5 DEF Sendable, Places
<1> QED BY <1>2, <1>4, <1>6 DEF data

LEMMA CoordsOnlyIsSendable ==
    ASSUME NEW x \in Coords
    PROVE  Sendable(CoordsOnly(x))
BY DEF CoordsOnly, Sendable, Places

\* Whatever is saved, the invariant holds afterwards.
LEMMA SaveKeepsInv ==
    ASSUME IInv, NEW data, Sendable(data), Save(data)
    PROVE  IInv'
<1>1. /\ location' = Saved(data) /\ available' = available
      /\ checked' = SendsMode(data) /\ Valid(Saved(data))
  BY DEF Save
<1>2. checked' \in BOOLEAN /\ available' \in BOOLEAN
  BY <1>1 DEF IInv, TypeOK, SendsMode
<1>3. IsSection(location') /\ WellTyped(location') /\ location'.timezone \in Timezones
  BY <1>1, SavedTyped DEF IInv
<1>4. TypeOK'
  BY <1>2, <1>3 DEF TypeOK, WellTyped, IsSection, Places
<1>5. CityPlaceIsReal'
  <2>1. SUFFICES ASSUME checked', ~location'.use_manual
                 PROVE  \E c \in Cities : IsAt(location', c)
    BY DEF CityPlaceIsReal
  <2>2. SendsMode(data) /\ Saved(data).use_manual = FALSE
    BY <1>1, <1>3, <2>1 DEF WellTyped
  <2> QED BY <1>1, <2>2, SavedIsCity
<1> QED BY <1>3, <1>4, <1>5 DEF IInv, IsSection

\* The database coming and going changes no section.
LEMMA ImportKeepsInv ==
    ASSUME IInv, ImportFails \/ ImportWorks \/ UNCHANGED vars
    PROVE  IInv'
<1>1. location' = location /\ checked' = checked /\ available' \in BOOLEAN
  BY DEF IInv, TypeOK, ImportFails, ImportWorks, vars
<1>2. TypeOK'
  BY <1>1 DEF IInv, TypeOK
<1>3. IsSection(location)' /\ CityPlaceIsReal'
  BY <1>1 DEF IInv, IsSection, CityPlaceIsReal
<1> QED BY <1>2, <1>3 DEF IInv

LEMMA InitHasInv ==
    ASSUME Init
    PROVE  IInv
<1>1. available \in BOOLEAN /\ checked = FALSE
  BY DEF Init
<1>2. CASE \E c \in Cities : location = Named(c)
  <2>1. PICK c \in Cities : location = Named(c)
    BY <1>2
  <2> DEFINE p == Pick(c, c.country)
  <2>2. c.country \in SpellingsOf(c) /\ c.timezone \in Timezones
    BY LocationAssumption DEF SpellingsOf
  <2>3. /\ IsSection(p) /\ WellTyped(p)
        /\ p.timezone = c.timezone
    BY <2>2, PickIsSection
  <2>4. location = [p EXCEPT !.city_id = None, !.region = None]
    BY <2>1 DEF Named
  <2> HIDE DEF p
  <2>5. /\ IsSection(location)
        /\ location.country = p.country /\ location.city = p.city
        /\ location.city_id = None /\ location.region = None
        /\ location.coords = p.coords /\ location.timezone = p.timezone
        /\ location.use_manual = p.use_manual
    BY <2>3, <2>4 DEF Fields, IsSection
  <2> QED BY <1>1, <2>2, <2>3, <2>5
         DEF IInv, TypeOK, CityPlaceIsReal, IsSection, WellTyped, Places
<1>3. CASE \E x \in Coords, tz \in Timezones : location = CoordinatesOf(x, tz)
  <2>1. PICK x \in Coords, tz \in Timezones : location = CoordinatesOf(x, tz)
    BY <1>3
  <2>2. /\ IsSection(location)
        /\ location.country = None /\ location.city = None
        /\ location.city_id = None /\ location.region = None
        /\ location.coords = x /\ location.timezone = tz
        /\ location.use_manual = TRUE
    BY <2>1 DEF CoordinatesOf, Fields, IsSection
  <2> QED BY <1>1, <2>2 DEF IInv, TypeOK, CityPlaceIsReal, IsSection
<1> QED BY <1>2, <1>3 DEF Init

LEMMA NextKeepsInv ==
    ASSUME IInv, [Next]_vars
    PROVE  IInv'
<1>1. CASE SavePage
  <2>0. PICK shown \in Shown : \E l \in {shown} \cup Cleared(shown) :
           \/ \E manual \in BOOLEAN : Save(Collected(l, manual))
           \/ \E x \in Coords, tz \in Timezones \cup {None} : Save(Typed(l, x, tz))
    BY <1>1 DEF SavePage
  <2>1. PICK l \in {shown} \cup Cleared(shown) :
           \/ \E manual \in BOOLEAN : Save(Collected(l, manual))
           \/ \E x \in Coords, tz \in Timezones \cup {None} : Save(Typed(l, x, tz))
    BY <2>0
  <2>2. IsSection(shown) /\ WellTyped(shown)
    <3>1. IsSection(location) /\ WellTyped(location)
      BY DEF IInv, TypeOK, WellTyped, Places
    <3> QED BY <3>1, PickIsSection DEF Shown
  <2>3. IsSection(l) /\ WellTyped(l)
    BY <2>2, ClearedIsSection
  <2> QED BY <2>1, <2>3, CollectedIsSendable, TypedIsSendable, SaveKeepsInv
<1>2. CASE SaveOther
  BY <1>2, OtherIsSendable, CoordsOnlyIsSendable, SaveKeepsInv DEF SaveOther
<1> QED BY <1>1, <1>2, ImportKeepsInv DEF Next

-----------------------------------------------------------------------------
\* The invariant holds in every reachable state.
THEOREM SpecKeepsInv == Spec => []IInv
<1>1. Init => IInv
  BY InitHasInv
<1>2. IInv /\ [Next]_vars => IInv'
  BY NextKeepsInv
<1> QED BY <1>1, <1>2, PTL DEF Spec

\* The stored section has its type: its time zone is known to ZoneInfo
\* (LocationConfig's validator).
THEOREM TypeCorrect == Spec => []TypeOK
<1>1. IInv => TypeOK
  BY DEF IInv
<1> QED BY <1>1, SpecKeepsInv, PTL

\* In the mode by city the stored place is one city of the database, of the
\* country whose code is stored in whatever case, if the last save sent the
\* mode as a boolean (update_config's look-up before the save).
THEOREM CityPlaceReal == Spec => []CityPlaceIsReal
<1>1. IInv => CityPlaceIsReal
  BY DEF IInv
<1> QED BY <1>1, SpecKeepsInv, PTL

\* Picking a city stores that city, whatever was stored before and however the
\* restored country is spelled (geo.city_record looks the id up first).
THEOREM PickStored == Spec => []PickIsStored
<1>1. ASSUME available, NEW c \in Cities, NEW code \in SpellingsOf(c)
      PROVE  IsAt(Saved(Collected(Pick(c, code), FALSE)), c)
  <2> DEFINE p == Pick(c, code)  r == Collected(p, FALSE)
  <2>1. /\ IsSection(p) /\ WellTyped(p) /\ p.country = code /\ p.city = c.name
        /\ p.city_id = c.id /\ Upper[code] = c.country /\ code # None
    BY <1>1, PickIsSection
  <2>2. c.name # None
    BY <1>1, LocationAssumption
  <2> HIDE DEF p
  <2>3. /\ IsSection(r) /\ SendsMode(r) /\ r.country = code /\ r.city = c.name
        /\ r.city_id = c.id /\ r.use_manual = FALSE
    BY <2>1, <2>2, CollectedFields, CollectedIsSendable
  <2> HIDE DEF r
  <2>4. Found(r) = {c}
    BY <1>1, <2>1, <2>3, RecordOfId DEF Found, Sent, IsSection, Fields
  <2>5. /\ Saved(r).country = code
        /\ Saved(r).city = c.name /\ Saved(r).city_id = c.id
        /\ Saved(r).region = c.region /\ Saved(r).coords = c.coords
        /\ Saved(r).timezone = c.timezone
        /\ Saved(r).use_manual = IF None \in {code, c.name} THEN TRUE ELSE FALSE
    <3>1. "country" \in DOMAIN r
      BY <2>3 DEF IsSection, Fields
    <3>2. Saved(r).country = r.country
      BY <2>3, <3>1, SavedByCity
    <3>3. PICK d \in Found(r) :
             /\ Saved(r).city = d.name /\ Saved(r).city_id = d.id
             /\ Saved(r).region = d.region /\ Saved(r).coords = d.coords
             /\ Saved(r).timezone = d.timezone
             /\ Saved(r).use_manual = IF None \in {r.country, d.name} THEN TRUE ELSE FALSE
      <4>1. Found(r) # {}
        BY <2>4
      <4> QED BY <2>3, <3>1, <4>1, SavedByCity
    <3>4. d = c
      BY <2>4
    <3> QED BY <2>3, <3>2, <3>3, <3>4
  <2> QED BY <2>1, <2>2, <2>5 DEF IsAt, r, p
<1>2. PickIsStored
  BY <1>1 DEF PickIsStored
<1> QED BY <1>2, PTL

\* An unknown id is never replaced by a namesake (geo.city_record returns
\* None for it), and without an id the region decides.
THEOREM NeverAnother == Spec => []NeverAnotherCity
<1>1. ASSUME NEW country \in Codes, NEW name \in Names, NEW id \in Ids \cup {None},
             NEW region \in Regions \cup {None}, NEW x \in Coords,
             ~Saved(ByName(country, name, id, region, x)).use_manual
      PROVE  LET l    == Saved(ByName(country, name, id, region, x))
                 near == InRegion(ByCityName(country, name), region)
             IN  /\ l.country = country
                 /\ id # None => l.city_id = id
                 /\ id = None => Folded[l.city] = Folded[name]
                 /\ id = None /\ near # {} => Folded[l.region] = Folded[region]
  <2> DEFINE b == ByName(country, name, id, region, x)
  <2>1. /\ DOMAIN b = {"country", "city", "city_id", "region", "coords", "use_manual"}
        /\ b.country = country /\ b.city = name /\ b.city_id = id
        /\ b.region = region /\ b.use_manual = FALSE
    BY DEF ByName
  <2>2. ~Saved(b).use_manual
    BY <1>1
  <2> HIDE DEF b
  <2>3. Found(b) = city_record(country, name, id, region) /\ SendsMode(b)
    BY <2>1 DEF Found, Sent, SendsMode
  <2>4. Found(b) # {} /\ Saved(b).country = country
    BY <2>1, <2>2, <2>3, SavedByCity
  <2>5. PICK d \in Found(b) :
           Saved(b).city = d.name /\ Saved(b).city_id = d.id /\ Saved(b).region = d.region
    BY <2>1, <2>3, <2>4, SavedByCity
  <2>6. /\ id # None => d.id = id
        /\ id = None => Folded[d.name] = Folded[name]
    BY <2>3, <2>5, CityRecord
  <2>7. ASSUME id = None, InRegion(ByCityName(country, name), region) # {}
        PROVE  Folded[d.region] = Folded[region]
    <3>1. d \in InRegion(ByCityName(country, name), region)
      BY <2>3, <2>5, <2>7 DEF city_record, MostPeople
    <3> QED BY <3>1 DEF InRegion
  <2> QED BY <2>4, <2>5, <2>6, <2>7 DEF b
<1>2. NeverAnotherCity
  BY <1>1 DEF NeverAnotherCity
<1> QED BY <1>2, PTL

\* Saving the section as it is shown keeps country and city, and moves nothing
\* if the last save was looked up or the mode is by coordinates (renderLoc
\* restores what collectLoc sends).
THEOREM ResaveKeeps == Spec => []ResaveKeepsPlace
<1>1. ASSUME IInv
      PROVE  ResaveKeepsPlace
  <2> DEFINE r == Collected(location, location.use_manual)  l == Saved(r)
  <2>1. /\ IsSection(location) /\ WellTyped(location) /\ location.use_manual \in BOOLEAN
    BY <1>1 DEF IInv, TypeOK, WellTyped, Places
  <2>2. /\ IsSection(r) /\ Sendable(r) /\ SendsMode(r)
        /\ r.country = location.country /\ r.city = location.city
        /\ r.coords = location.coords /\ r.timezone = location.timezone
        /\ r.city_id = IF location.city = None THEN None ELSE location.city_id
        /\ r.region = IF location.city = None THEN None ELSE location.region
        /\ r.use_manual = (location.use_manual \/ None \in {location.country, location.city})
    BY <2>1, CollectedFields, CollectedIsSendable
  <2> SUFFICES /\ l.country = location.country
               /\ location.city # None =>
                     IF location.city_id # None THEN l.city_id = location.city_id
                     ELSE Folded[l.city] = Folded[location.city]
               /\ checked \/ location.use_manual =>
                     /\ SamePlace(l, location)
                     /\ available /\ location.city # None => l = location
    BY DEF ResaveKeepsPlace, r
  <2> HIDE DEF r
  <2>3. IsSection(l)
    BY SavedIsMerged
  <2>4. DOMAIN r = Fields /\ r.use_manual \in BOOLEAN
    BY <2>2, <2>1 DEF IsSection
  <2>5. ASSUME \A f \in Fields \ {"use_manual"} : l[f] = AsSent(r, f)
        PROVE  /\ l.country = location.country /\ l.city = location.city
               /\ location.city # None => l.city_id = location.city_id /\ l.region = location.region
               /\ l.coords = location.coords /\ l.timezone = location.timezone
    BY <2>2, <2>4, <2>5 DEF AsSent, Fields
  <2>6. ASSUME checked, ~location.use_manual
        PROVE  \E c \in Cities : IsAt(location, c) /\ None \notin {location.country, location.city}
    <3>1. PICK c \in Cities : IsAt(location, c)
      BY <1>1, <2>6 DEF IInv, CityPlaceIsReal
    <3>2. None \notin {c.country, c.name} /\ Upper[None] = None
      BY LocationAssumption
    <3> QED BY <3>1, <3>2 DEF IsAt
  <2>7. CASE r.use_manual = TRUE
    <3>1. /\ \A f \in Fields \ {"use_manual"} : l[f] = AsSent(r, f)
          /\ l.use_manual = TRUE
      BY <2>2, <2>4, <2>7, SavedAsSent DEF AsSent, Fields
    <3>2. checked \/ location.use_manual => location.use_manual = TRUE
      BY <2>1, <2>2, <2>6, <2>7
    <3>3. location.use_manual = TRUE /\ location.city # None => l = location
      BY <2>1, <2>3, <2>5, <3>1 DEF IsSection, Fields
    <3> QED BY <2>5, <3>1, <3>2, <3>3 DEF SamePlace
  <2>8. CASE r.use_manual = FALSE
    <3>1. "country" \in DOMAIN r /\ location.use_manual = FALSE
      BY <2>1, <2>2, <2>4, <2>8 DEF Fields
    <3>2. None \notin {location.country, location.city}
      BY <2>2, <2>8
    <3>3. r.city_id = location.city_id
      BY <2>2, <3>2
    <3>4. CASE Found(r) = {}
      <4>1. \A f \in Fields \ {"use_manual"} : l[f] = AsSent(r, f)
        BY <2>2, <2>8, <3>1, <3>4, SavedByCity
      <4>2. ~(checked /\ available)
        <5>1. ASSUME checked, available PROVE FALSE
          <6>1. PICK c \in Cities : IsAt(location, c)
            BY <2>6, <3>1, <5>1
          <6>2. Found(r) = {c}
            BY <2>2, <2>4, <3>3, <5>1, <6>1, RecordOfId DEF Found, Sent, IsAt, Fields
          <6> QED BY <3>4, <6>2
        <5> QED BY <5>1
      <4> QED BY <2>5, <3>1, <4>1, <4>2 DEF SamePlace
    <3>5. CASE Found(r) # {}
      <4>1. l.country = r.country
        BY <2>2, <2>8, <3>1, SavedByCity
      <4>2. PICK c \in Found(r) :
               /\ l.city = c.name /\ l.city_id = c.id /\ l.region = c.region
               /\ l.coords = c.coords /\ l.timezone = c.timezone
               /\ l.use_manual = IF None \in {r.country, c.name} THEN TRUE ELSE FALSE
        BY <2>2, <2>8, <3>1, <3>5, SavedByCity
      <4>3. Found(r) = city_record(r.country, r.city, r.city_id, r.region)
        BY <2>4 DEF Found, Sent, Fields
      <4>4. /\ c \in Cities
            /\ r.city_id # None => c.id = r.city_id
            /\ r.city_id = None => Folded[c.name] = Folded[r.city]
        BY <4>3, CityRecord
      <4>5. ASSUME checked
            PROVE  SamePlace(l, location) /\ l = location
        <5>1. PICK d \in Cities : IsAt(location, d)
          BY <2>6, <3>1, <4>5
        <5>2. c = d
          BY <3>3, <4>4, <5>1, LocationAssumption DEF IsAt
        <5>3. c.name # None
          BY <4>4, LocationAssumption
        <5>4. /\ l.country = location.country /\ l.city = location.city
              /\ l.city_id = location.city_id /\ l.region = location.region
              /\ l.coords = location.coords /\ l.timezone = location.timezone
              /\ l.use_manual = location.use_manual
          BY <2>2, <3>1, <3>2, <4>1, <4>2, <5>1, <5>2, <5>3 DEF IsAt
        <5> QED BY <2>1, <2>3, <5>4 DEF IsSection, Fields, SamePlace
      <4> QED BY <2>2, <3>1, <3>3, <4>1, <4>2, <4>4, <4>5
    <3> QED BY <3>4, <3>5
  <2> QED BY <2>4, <2>7, <2>8
<1>2. IInv => ResaveKeepsPlace
  BY <1>1
<1> QED BY <1>2, SpecKeepsInv, PTL


-----------------------------------------------------------------------------
(* The timetable.  The invariant relates each stage of the import to the   *)
(* lines read: the table says of each date what they say so far.           *)

\* The lines up to the i-th that name a date.
DateLines(lines, i) == {j \in 1 .. i : lines[j][1] = "date"}

\* The parser's table says of each day what the lines read so far say.
ReadInv ==
    \A d \in Dates, p \in Prayers : TimeIn(table, d, p) = Given(read)[d][p]

ParseInv ==
    /\ phase = "parsing" => curKey = DateAt(read, Len(read)) /\ curKey \in DOMAIN table \cup {NoDate}
    /\ phase # "idle" => ReadInv
    /\ phase = "writing" => \A d \in DOMAIN table : table[d] # NoTimes

\* The file is the table of some text, and holds no date without a time.
FileInv ==
    /\ \E lines \in Seq(Line) : stored = Summary(lines)
    /\ \A d \in DOMAIN load : load[d] # NoTimes

TimetableInv == TimetableTypeOK /\ ParseInv /\ FileInv /\ LoadsOneImport

-----------------------------------------------------------------------------
(* The last line of a kind                                                 *)

LEMMA LeastNat ==
    ASSUME NEW S, S \subseteq Nat, S # {}
    PROVE  \E x \in S : \A y \in S : x <= y
<1> DEFINE R == OpToRel(<, Nat)
<1>1. IsWellFoundedOn(R, Nat)
    BY NatLessThanWellFounded
<1>2. \A x, y \in Nat : x < y => <<x, y>> \in R
    BY DEF OpToRel
<1> HIDE DEF R
<1>3. PICK x \in S : \A y \in S : ~ (<<y, x>> \in R)
    BY <1>1, WFMin
<1>4. \A y \in S : ~(y < x)
    BY <1>2, <1>3
<1> QED
    BY <1>4

LEMMA LatestIsLast ==
    ASSUME NEW n \in Nat, NEW S, S \subseteq 1 .. n, S # {}
    PROVE  Latest(S) \in S /\ \A j \in S : j <= Latest(S)
<1> DEFINE T == {n - j : j \in S}
<1>0. \A j \in S : j \in Int /\ n - j \in Nat
    OBVIOUS
<1>1. T \subseteq Nat /\ T # {}
    BY <1>0
<1>2. PICK x \in T : \A y \in T : x <= y
    BY <1>1, LeastNat
<1>3. PICK i \in S : x = n - i
    BY <1>2
<1>4. ASSUME NEW j \in S
      PROVE  j <= i
    <2>1. n - j \in T
        OBVIOUS
    <2>2. n - i <= n - j
        BY <1>2, <1>3, <2>1
    <2>3. i \in Int /\ j \in Int
        BY <1>0
    <2> QED
        BY <2>2, <2>3
<1> QED
    BY <1>4 DEF Latest

LEMMA LatestUnique ==
    ASSUME NEW n \in Nat, NEW S, S \subseteq 1 .. n, NEW i \in S, \A j \in S : j <= i
    PROVE  Latest(S) = i
<1>1. Latest(S) \in S /\ \A j \in S : j <= Latest(S)
    BY LatestIsLast
<1>2. i <= Latest(S) /\ Latest(S) <= i
    BY <1>1
<1>3. \A j \in S : j \in Int
    OBVIOUS
<1>4. i \in Int /\ Latest(S) \in Int
    BY <1>1, <1>3
<1>5. \A a, b \in Int : a <= b /\ b <= a => a = b
    OBVIOUS
<1> QED
    BY <1>2, <1>4, <1>5

-----------------------------------------------------------------------------
(* One more line                                                           *)

LEMMA AppendParts ==
    ASSUME NEW lines \in Seq(Line), NEW line \in Line
    PROVE  /\ Append(lines, line) \in Seq(Line)
           /\ Len(lines) \in Nat
           /\ Len(Append(lines, line)) = Len(lines) + 1
           /\ \A i \in 1 .. Len(lines) : Append(lines, line)[i] = lines[i]
           /\ Append(lines, line)[Len(lines) + 1] = line
OBVIOUS

LEMMA DateAtAppend ==
    ASSUME NEW lines \in Seq(Line), NEW line \in Line
    PROVE  /\ \A i \in 0 .. Len(lines) : DateAt(Append(lines, line), i) = DateAt(lines, i)
           /\ DateAt(Append(lines, line), Len(lines) + 1) =
                 IF line[1] = "date" THEN line[2] ELSE DateAt(lines, Len(lines))
<1> DEFINE n == Len(lines)
           new == Append(lines, line)
<1>0. /\ n \in Nat
      /\ \A i \in 1 .. n : new[i] = lines[i]
      /\ new[n + 1] = line
    BY AppendParts
<1> HIDE DEF new, n
<1>1. ASSUME NEW i \in 0 .. n
      PROVE  /\ DateLines(new, i) = DateLines(lines, i)
             /\ DateAt(new, i) = DateAt(lines, i)
    <2>1. DateLines(new, i) = DateLines(lines, i)
        BY <1>0 DEF DateLines
    <2>2. CASE DateLines(lines, i) = {}
        BY <2>1, <2>2 DEF DateAt, DateLines
    <2>3. CASE DateLines(lines, i) # {}
        <3>0. i \in Nat /\ DateLines(lines, i) \subseteq 1 .. i
            BY <1>0 DEF DateLines
        <3>1. Latest(DateLines(lines, i)) \in 1 .. n
            BY <1>0, <2>3, <3>0, LatestIsLast
        <3>2. /\ DateAt(new, i) = new[Latest(DateLines(new, i))][2]
              /\ DateAt(lines, i) = lines[Latest(DateLines(lines, i))][2]
            BY <2>1, <2>3 DEF DateAt, DateLines
        <3> QED
            BY <1>0, <2>1, <3>1, <3>2
    <2> QED
        BY <2>1, <2>2, <2>3
<1>2. CASE line[1] = "date"
    <2>1. n + 1 \in DateLines(new, n + 1) /\ DateLines(new, n + 1) \subseteq 1 .. n + 1
        BY <1>0, <1>2 DEF DateLines
    <2>2. Latest(DateLines(new, n + 1)) = n + 1
        BY <1>0, <2>1, LatestUnique
    <2>3. DateAt(new, n + 1) = line[2]
        BY <1>0, <2>1, <2>2 DEF DateAt, DateLines
    <2> QED
        BY <1>1, <1>2, <2>3 DEF n, new
<1>3. CASE line[1] # "date"
    <2>1. DateLines(new, n + 1) = DateLines(new, n)
        BY <1>0, <1>3 DEF DateLines
    <2>2. DateAt(new, n + 1) = DateAt(new, n)
        BY <2>1 DEF DateAt, DateLines
    <2> QED
        BY <1>0, <1>1, <1>3, <2>2 DEF n, new
<1> QED
    BY <1>2, <1>3

LEMMA GivenAppend ==
    ASSUME NEW lines \in Seq(Line), NEW line \in Line, NEW d \in Dates, NEW p \in Prayers
    PROVE  Given(Append(lines, line))[d][p] =
              IF /\ line[1] = "time" /\ line[2] = p /\ line[3] # NoTime
                 /\ DateAt(lines, Len(lines)) = d
              THEN line[3] ELSE Given(lines)[d][p]
<1> DEFINE n == Len(lines)
           new == Append(lines, line)
<1>0. /\ n \in Nat
      /\ Len(new) = n + 1
      /\ \A i \in 1 .. n : new[i] = lines[i]
      /\ new[n + 1] = line
      /\ \A i \in 1 .. n : DateAt(new, i) = DateAt(lines, i)
      /\ line[1] # "date" => DateAt(new, n + 1) = DateAt(lines, n)
    BY AppendParts, DateAtAppend
<1>1. Usable(lines, d, p) =
          {i \in 1 .. n : /\ lines[i][1] = "time" /\ lines[i][2] = p
                          /\ DateAt(lines, i) = d /\ lines[i][3] # NoTime}
    BY DEF Usable, Entries
<1>2. Usable(new, d, p) =
          {i \in 1 .. n + 1 : /\ new[i][1] = "time" /\ new[i][2] = p
                              /\ DateAt(new, i) = d /\ new[i][3] # NoTime}
    BY <1>0 DEF Usable, Entries
<1>3. /\ Given(lines)[d][p] = IF Usable(lines, d, p) = {} THEN NoTime
                              ELSE lines[Latest(Usable(lines, d, p))][3]
      /\ Given(new)[d][p] = IF Usable(new, d, p) = {} THEN NoTime
                            ELSE new[Latest(Usable(new, d, p))][3]
    BY DEF Given
<1> HIDE DEF new, n
<1>4. CASE /\ line[1] = "time" /\ line[2] = p /\ line[3] # NoTime
           /\ DateAt(lines, n) = d
    <2>1. n + 1 \in Usable(new, d, p) /\ Usable(new, d, p) \subseteq 1 .. n + 1
        BY <1>0, <1>2, <1>4
    <2>2. Latest(Usable(new, d, p)) = n + 1
        BY <1>0, <2>1, LatestUnique
    <2> QED
        BY <1>0, <1>3, <1>4, <2>1, <2>2 DEF n, new
<1>5. CASE ~ (/\ line[1] = "time" /\ line[2] = p /\ line[3] # NoTime
              /\ DateAt(lines, n) = d)
    <2>1. Usable(new, d, p) = Usable(lines, d, p)
        BY <1>0, <1>1, <1>2, <1>5
    <2>2. CASE Usable(lines, d, p) = {}
        BY <1>3, <1>5, <2>1, <2>2 DEF n, new
    <2>3. CASE Usable(lines, d, p) # {}
        <3>1. Latest(Usable(lines, d, p)) \in 1 .. n
            BY <1>0, <1>1, <2>3, LatestIsLast
        <3> QED
            BY <1>0, <1>3, <1>5, <2>1, <2>3, <3>1 DEF n, new
    <2> QED
        BY <2>2, <2>3
<1> QED
    BY <1>4, <1>5

-----------------------------------------------------------------------------
(* Tables                                                                  *)

LEMMA TableParts ==
    ASSUME NEW t \in Table
    PROVE  /\ DOMAIN t \subseteq Dates
           /\ \A d \in DOMAIN t : t[d] \in Day
           /\ t = [d \in DOMAIN t |-> t[d]]
BY DEF Table

LEMMA IsTable ==
    ASSUME NEW D \in SUBSET Dates, NEW t \in [D -> Day]
    PROVE  t \in Table
BY DEF Table

LEMMA NoTableIsTable ==
    NoTable \in Table /\ \A d \in Dates, p \in Prayers : TimeIn(NoTable, d, p) = NoTime
<1>1. NoTable \in [{} -> Day]
    BY DEF NoTable
<1> QED
    BY <1>1, IsTable DEF TimeIn, NoTable

LEMMA DayParts ==
    /\ NoTimes \in Day
    /\ \A p \in Prayers : NoTimes[p] = NoTime
    /\ \A x \in Day : (\A p \in Prayers : x[p] = NoTime) => x = NoTimes
    /\ \A x, y \in Day : (\A p \in Prayers : x[p] = y[p]) => x = y
BY DEF Day, NoTimes

\* A date line opens a block without a time, or the block of before.
LEMMA OpenBlock ==
    ASSUME NEW t \in Table, NEW d \in Dates,
           NEW u, u = [x \in DOMAIN t \cup {d} |-> IF x \in DOMAIN t THEN t[x] ELSE NoTimes]
    PROVE  /\ u \in Table
           /\ d \in DOMAIN u
           /\ \A x \in Dates, p \in Prayers : TimeIn(u, x, p) = TimeIn(t, x, p)
<1>1. u \in [DOMAIN t \cup {d} -> Day] /\ DOMAIN t \cup {d} \in SUBSET Dates
    BY TableParts, DayParts
<1>2. u \in Table
    BY <1>1, IsTable
<1> QED
    BY <1>1, <1>2, DayParts DEF TimeIn

\* A time goes into the open block, and nowhere else.
LEMMA SetTime ==
    ASSUME table \in Table, curKey \in DOMAIN table, NEW p \in Prayers, NEW t \in Times,
           table' = [table EXCEPT ![curKey][p] = t]
    PROVE  /\ table' \in Table
           /\ DOMAIN table' = DOMAIN table
           /\ \A d \in Dates, q \in Prayers :
                 TimeIn(table', d, q) = IF d = curKey /\ q = p THEN t ELSE TimeIn(table, d, q)
<1>1. /\ DOMAIN table \subseteq Dates
      /\ \A d \in DOMAIN table : table[d] \in Day
      /\ table = [d \in DOMAIN table |-> table[d]]
    BY TableParts
<1>2. [table[curKey] EXCEPT ![p] = t] \in Day
    BY <1>1 DEF Day
<1>3. /\ DOMAIN table' = DOMAIN table
      /\ table'[curKey] = [table[curKey] EXCEPT ![p] = t]
      /\ \A d \in DOMAIN table \ {curKey} : table'[d] = table[d]
      /\ table' = [d \in DOMAIN table |-> table'[d]]
    BY <1>1
<1>4. table' \in [DOMAIN table -> Day]
    BY <1>1, <1>2, <1>3
<1>5. table' \in Table
    BY <1>1, <1>4, IsTable
<1>6. \A q \in Prayers : table'[curKey][q] = IF q = p THEN t ELSE table[curKey][q]
    BY <1>1, <1>3 DEF Day
<1> QED
    BY <1>3, <1>5, <1>6 DEF TimeIn

\* Dropping the dates without a time drops no time.
LEMMA DropDates ==
    ASSUME NEW t \in Table, NEW D, D = {d \in DOMAIN t : t[d] # NoTimes},
           NEW u, u = [d \in D |-> t[d]]
    PROVE  /\ u \in Table
           /\ \A d \in DOMAIN u : u[d] # NoTimes
           /\ \A x \in Dates, p \in Prayers : TimeIn(u, x, p) = TimeIn(t, x, p)
<1>1. D \in SUBSET Dates /\ u \in [D -> Day]
    BY TableParts
<1>2. u \in Table
    BY <1>1, IsTable
<1> QED
    BY <1>1, <1>2, DayParts DEF TimeIn

-----------------------------------------------------------------------------
(* The parser                                                              *)

LEMMA LineParts ==
    /\ \A d \in Dates \cup {NoDate} :
          /\ <<"date", d>> \in Line
          /\ <<"date", d>>[1] = "date"
          /\ <<"date", d>>[2] = d
    /\ \A p \in Prayers, t \in Times \cup {NoTime} :
          /\ <<"time", p, t>> \in Line
          /\ <<"time", p, t>>[1] = "time"
          /\ <<"time", p, t>>[2] = p
          /\ <<"time", p, t>>[3] = t
    /\ <<"other">> \in Line
    /\ <<"other">>[1] = "other"
BY DEF Line

LEMMA NoLines ==
    /\ <<>> \in Seq(Line)
    /\ Len(<<>>) = 0
    /\ DateAt(<<>>, 0) = NoDate
    /\ \A d \in Dates, p \in Prayers : Given(<<>>)[d][p] = NoTime
<1>1. DateAt(<<>>, 0) = NoDate
    BY DEF DateAt
<1>2. \A d \in Dates, p \in Prayers : Usable(<<>>, d, p) = {}
    BY DEF Usable, Entries
<1> QED
    BY <1>1, <1>2 DEF Given

\* What every line does to the date and to the times, whoever parses it.
LEMMA ReadsParts ==
    ASSUME TimetableInv, NEW line \in Line, Reads(line)
    PROVE  /\ read' \in Seq(Line) /\ Len(read') <= MaxLines
           /\ DateAt(read', Len(read')) = IF line[1] = "date" THEN line[2] ELSE curKey
           /\ \A d \in Dates, p \in Prayers :
                 Given(read')[d][p] =
                     IF line[1] = "time" /\ line[2] = p /\ line[3] # NoTime /\ curKey = d
                     THEN line[3] ELSE TimeIn(table, d, p)
<1>1. read \in Seq(Line) /\ Len(read) \in Nat /\ MaxLines \in Nat
    BY TimetableAssumption DEF TimetableInv, TimetableTypeOK
<1>2. read' = Append(read, line) /\ Len(read) < MaxLines /\ phase = "parsing"
    BY DEF Reads
<1>3. curKey = DateAt(read, Len(read)) /\ ReadInv
    BY <1>2 DEF TimetableInv, ParseInv
<1>4. read' \in Seq(Line) /\ Len(read') = Len(read) + 1
    BY <1>1, <1>2
<1>5. DateAt(read', Len(read')) = IF line[1] = "date" THEN line[2] ELSE curKey
    BY <1>1, <1>2, <1>3, <1>4, DateAtAppend
<1>6. ASSUME NEW d \in Dates, NEW p \in Prayers
      PROVE  Given(read')[d][p] =
                 IF line[1] = "time" /\ line[2] = p /\ line[3] # NoTime /\ curKey = d
                 THEN line[3] ELSE TimeIn(table, d, p)
    BY <1>1, <1>2, <1>3, GivenAppend DEF ReadInv
<1> QED
    BY <1>1, <1>2, <1>4, <1>5, <1>6

\* A line leaves the file alone.
LEMMA LineKeepsInv ==
    ASSUME TimetableInv, NEW line \in Line, Reads(line),
           table' \in Table,
           curKey' = IF line[1] = "date" THEN line[2] ELSE curKey,
           curKey' \in Dates \cup {NoDate},
           curKey' \in DOMAIN table' \cup {NoDate},
           \A d \in Dates, p \in Prayers :
               TimeIn(table', d, p) =
                   IF line[1] = "time" /\ line[2] = p /\ line[3] # NoTime /\ curKey = d
                   THEN line[3] ELSE TimeIn(table, d, p)
    PROVE  TimetableInv'
<1>1. phase = "parsing" /\ UNCHANGED <<phase, file, stored>>
    BY DEF Reads
<1>2. /\ read' \in Seq(Line) /\ Len(read') <= MaxLines
      /\ curKey' = DateAt(read', Len(read'))
      /\ ReadInv'
    BY ReadsParts DEF ReadInv
<1>3. TimetableTypeOK'
    BY <1>1, <1>2 DEF TimetableInv, TimetableTypeOK
<1>4. ParseInv'
    BY <1>1, <1>2 DEF ParseInv
<1>5. FileInv' /\ LoadsOneImport'
    BY <1>1 DEF TimetableInv, FileInv, LoadsOneImport, load
<1> QED
    BY <1>3, <1>4, <1>5 DEF TimetableInv

LEMMA DateLineKeepsInv ==
    ASSUME TimetableInv, NEW d \in Dates \cup {NoDate}, DateLine(d)
    PROVE  TimetableInv'
<1>1. table \in Table /\ NoDate \notin Dates
    BY TimetableAssumption DEF TimetableInv, TimetableTypeOK
<1>2. /\ table' \in Table
      /\ d # NoDate => d \in DOMAIN table'
      /\ \A x \in Dates, p \in Prayers : TimeIn(table', x, p) = TimeIn(table, x, p)
    <2>1. CASE d = NoDate
        BY <1>1, <2>1 DEF DateLine
    <2>2. CASE d \in Dates
        BY <1>1, <2>2, OpenBlock DEF DateLine
    <2> QED
        BY <2>1, <2>2
<1>3. Reads(<<"date", d>>) /\ curKey' = d
    BY DEF DateLine
<1>4. /\ <<"date", d>> \in Line
      /\ <<"date", d>>[1] = "date"
      /\ <<"date", d>>[2] = d
    BY LineParts
<1> QED
    BY <1>2, <1>3, <1>4, LineKeepsInv

LEMMA TimeLineKeepsInv ==
    ASSUME TimetableInv, NEW p \in Prayers, NEW t \in Times \cup {NoTime}, TimeLine(p, t)
    PROVE  TimetableInv'
<1> DEFINE line == <<"time", p, t>>
<1>1. line \in Line /\ line[1] = "time" /\ line[2] = p /\ line[3] = t
    BY LineParts
<1>2. /\ Reads(line)
      /\ curKey' = curKey
      /\ table' = IF curKey = NoDate \/ t = NoTime THEN table
                  ELSE [table EXCEPT ![curKey][p] = t]
    BY DEF TimeLine
<1> HIDE DEF line
<1>3. /\ table \in Table
      /\ curKey \in Dates \cup {NoDate}
      /\ curKey \in DOMAIN table \cup {NoDate}
      /\ NoDate \notin Dates
    BY <1>2, TimetableAssumption DEF Reads, TimetableInv, TimetableTypeOK, ParseInv
<1>4. /\ table' \in Table
      /\ curKey' \in DOMAIN table' \cup {NoDate}
      /\ \A d \in Dates, q \in Prayers :
            TimeIn(table', d, q) = IF q = p /\ t # NoTime /\ curKey = d
                                   THEN t ELSE TimeIn(table, d, q)
    <2>1. CASE curKey = NoDate \/ t = NoTime
        BY <1>2, <1>3, <2>1
    <2>2. CASE ~(curKey = NoDate \/ t = NoTime)
        <3>1. /\ curKey \in DOMAIN table /\ t \in Times
              /\ table' = [table EXCEPT ![curKey][p] = t]
            BY <1>2, <1>3, <2>2
        <3>2. /\ table' \in Table
              /\ DOMAIN table' = DOMAIN table
              /\ \A d \in Dates, q \in Prayers :
                    TimeIn(table', d, q) = IF d = curKey /\ q = p THEN t ELSE TimeIn(table, d, q)
            BY <1>3, <3>1, SetTime
        <3> QED
            BY <1>2, <2>2, <3>1, <3>2
    <2> QED
        BY <2>1, <2>2
<1> QED
    BY <1>1, <1>2, <1>3, <1>4, LineKeepsInv

LEMMA OtherLineKeepsInv ==
    ASSUME TimetableInv, OtherLine
    PROVE  TimetableInv'
<1>1. /\ Reads(<<"other">>)
      /\ curKey' = curKey /\ table' = table
      /\ phase = "parsing"
    BY DEF OtherLine, Reads
<1>2. <<"other">> \in Line /\ <<"other">>[1] = "other"
    BY LineParts
<1>3. /\ table \in Table
      /\ curKey \in Dates \cup {NoDate}
      /\ curKey \in DOMAIN table \cup {NoDate}
    BY <1>1 DEF TimetableInv, TimetableTypeOK, ParseInv
<1> QED
    BY <1>1, <1>2, <1>3, LineKeepsInv

LEMMA EndKeepsInv ==
    ASSUME TimetableInv, EndOfFile
    PROVE  TimetableInv'
<1> DEFINE dates == {d \in DOMAIN table : table[d] # NoTimes}
<1>1. /\ phase = "parsing"
      /\ table' = [d \in dates |-> table[d]]
      /\ phase' \in {"idle", "writing"}
      /\ UNCHANGED <<read, curKey, file, stored>>
    BY DEF EndOfFile
<1> HIDE DEF dates
<1>2. table \in Table
    BY DEF TimetableInv, TimetableTypeOK
<1>3. /\ table' \in Table
      /\ \A d \in DOMAIN table' : table'[d] # NoTimes
      /\ \A x \in Dates, p \in Prayers : TimeIn(table', x, p) = TimeIn(table, x, p)
    BY <1>1, <1>2, DropDates DEF dates
<1>4. TimetableTypeOK'
    BY <1>1, <1>3 DEF TimetableInv, TimetableTypeOK
<1>5. ReadInv'
    BY <1>1, <1>3 DEF TimetableInv, ParseInv, ReadInv
<1>6. ParseInv'
    BY <1>1, <1>3, <1>5 DEF ParseInv
<1>7. FileInv' /\ LoadsOneImport'
    BY <1>1 DEF TimetableInv, FileInv, LoadsOneImport, load
<1> QED
    BY <1>4, <1>6, <1>7 DEF TimetableInv

\* The file becomes the table, which says what the lines say.
LEMMA ReplaceKeepsInv ==
    ASSUME TimetableInv, Replace
    PROVE  TimetableInv'
<1>1. /\ phase = "writing" /\ phase' = "idle"
      /\ file' = table /\ stored' = Summary(read)
      /\ UNCHANGED <<read, curKey, table>>
    BY DEF Replace
<1>2. table \in Table /\ read \in Seq(Line)
    BY DEF TimetableInv, TimetableTypeOK
<1>3. load' = table
    BY <1>1, <1>2, FileAssumption DEF load
<1>4. ReadInv /\ \A d \in DOMAIN table : table[d] # NoTimes
    BY <1>1 DEF TimetableInv, ParseInv
<1>5. TimetableTypeOK'
    BY <1>1, <1>2 DEF TimetableInv, TimetableTypeOK
<1>6. ParseInv'
    BY <1>1 DEF ParseInv
<1>7. FileInv'
    BY <1>1, <1>2, <1>3, <1>4 DEF FileInv
<1>8. LoadsOneImport'
    BY <1>1, <1>3, <1>4 DEF LoadsOneImport, ReadInv, Summary
<1> QED
    BY <1>5, <1>6, <1>7, <1>8 DEF TimetableInv

LEMMA TimetableInitInv == TimetableInit => TimetableInv
<1> SUFFICES ASSUME TimetableInit PROVE TimetableInv
    OBVIOUS
<1>1. load = NoTable
    BY DEF TimetableInit, load
<1>2. TimetableTypeOK
    BY NoLines, NoTableIsTable, TimetableAssumption DEF TimetableInit, TimetableTypeOK
<1>3. ParseInv
    BY DEF TimetableInit, ParseInv
<1>4. FileInv
    BY <1>1, NoLines DEF TimetableInit, FileInv, NoTable
<1>5. LoadsOneImport
    BY <1>1, NoLines, NoTableIsTable DEF TimetableInit, LoadsOneImport, Summary
<1> QED
    BY <1>2, <1>3, <1>4, <1>5 DEF TimetableInv

LEMMA TimetableStepInv == TimetableInv /\ [TimetableNext]_timetableVars => TimetableInv'
<1> SUFFICES ASSUME TimetableInv, [TimetableNext]_timetableVars PROVE TimetableInv'
    OBVIOUS
<1>1. CASE StartImport
    <2>1. /\ phase' = "parsing" /\ read' = <<>> /\ curKey' = NoDate /\ table' = NoTable
          /\ UNCHANGED <<file, stored>>
        BY <1>1 DEF StartImport
    <2>2. TimetableTypeOK'
        BY <2>1, NoLines, NoTableIsTable, TimetableAssumption
        DEF TimetableInv, TimetableTypeOK
    <2>3. ParseInv'
        BY <2>1, NoLines, NoTableIsTable DEF ParseInv, ReadInv
    <2>4. FileInv' /\ LoadsOneImport'
        BY <2>1 DEF TimetableInv, FileInv, LoadsOneImport, load
    <2> QED
        BY <2>2, <2>3, <2>4 DEF TimetableInv
<1>2. CASE Fails
    BY <1>2 DEF Fails, TimetableInv, TimetableTypeOK, ParseInv, FileInv, LoadsOneImport, load
<1>3. CASE UNCHANGED timetableVars
    BY <1>3 DEF timetableVars, TimetableInv, TimetableTypeOK, ParseInv, ReadInv, FileInv,
                LoadsOneImport, load
<1> QED
    BY <1>1, <1>2, <1>3, DateLineKeepsInv, TimeLineKeepsInv, OtherLineKeepsInv,
       EndKeepsInv, ReplaceKeepsInv DEF TimetableNext

LEMMA TimetableInvariance == TimetableSpec => []TimetableInv
<1> QED
    BY TimetableInitInv, TimetableStepInv, PTL DEF TimetableSpec

-----------------------------------------------------------------------------
(* What is served                                                          *)

LEMMA SameDay ==
    ASSUME NEW f, NEW g,
           f = [p \in Prayers |-> f[p]], g = [p \in Prayers |-> g[p]],
           \A p \in Prayers : f[p] = g[p]
    PROVE  f = g
OBVIOUS

LEMMA GivenIsDay ==
    ASSUME NEW lines, NEW d \in Dates
    PROVE  /\ DOMAIN Given(lines)[d] = Prayers
           /\ Given(lines)[d] = [p \in Prayers |-> Given(lines)[d][p]]
           /\ Intended(lines)[d] = [p \in Prayers |-> Intended(lines)[d][p]]
BY DEF Given, Intended

\* A date that has a time is served from the file as the file gives it.
LEMMA ServedIsGiven ==
    ASSUME TimetableInv, NEW d \in Dates, stored.given[d] # NoTimes
    PROVE  d \in DOMAIN load /\ load[d] = stored.given[d]
<1>1. PICK lines \in Seq(Line) : stored = Summary(lines)
    BY DEF TimetableInv, FileInv
<1>2. stored.given = Given(lines)
    BY <1>1 DEF Summary
<1>3. \A p \in Prayers : TimeIn(load, d, p) = Given(lines)[d][p]
    BY <1>2 DEF TimetableInv, LoadsOneImport
<1>4. load \in Table
    BY NoTableIsTable DEF TimetableInv, TimetableTypeOK, load
<1>5. d \in DOMAIN load
    <2>1. SUFFICES ASSUME d \notin DOMAIN load PROVE FALSE
        OBVIOUS
    <2>2. \A p \in Prayers : Given(lines)[d][p] = NoTime
        BY <1>3, <2>1 DEF TimeIn
    <2>3. Given(lines)[d] = NoTimes
        BY <2>2, GivenIsDay DEF NoTimes
    <2> QED
        BY <1>2, <2>3
<1>6. load[d] \in Day
    BY <1>4, <1>5, TableParts
<1>7. \A p \in Prayers : load[d][p] = Given(lines)[d][p]
    BY <1>3, <1>5 DEF TimeIn
<1>8. load[d] = [p \in Prayers |-> load[d][p]]
    BY <1>6 DEF Day
<1>9. load[d] = Given(lines)[d]
    BY <1>7, <1>8, GivenIsDay, SameDay
<1> QED
    BY <1>2, <1>5, <1>9

\* With one line at most for a date and a prayer, the last one is the only one.
LEMMA WellFormedGiven ==
    ASSUME NEW lines \in Seq(Line), WellFormed(lines), NEW d \in Dates
    PROVE  Given(lines)[d] = Intended(lines)[d]
<1>1. ASSUME NEW p \in Prayers
      PROVE  Given(lines)[d][p] = Intended(lines)[d][p]
    <2>1. /\ Given(lines)[d][p] = IF Usable(lines, d, p) = {} THEN NoTime
                                  ELSE lines[Latest(Usable(lines, d, p))][3]
          /\ Intended(lines)[d][p] = IF Entries(lines, d, p) = {} THEN NoTime
                                     ELSE lines[Latest(Entries(lines, d, p))][3]
        BY DEF Given, Intended
    <2>2. \A i, j \in Entries(lines, d, p) : i = j
        BY DEF WellFormed
    <2>3. Usable(lines, d, p) = {i \in Entries(lines, d, p) : lines[i][3] # NoTime}
        BY DEF Usable
    <2>4. CASE Entries(lines, d, p) = {}
        BY <2>1, <2>3, <2>4
    <2>5. ASSUME NEW i \in Entries(lines, d, p)
          PROVE  Given(lines)[d][p] = Intended(lines)[d][p]
        <3>1. Entries(lines, d, p) = {i} /\ i \in 1 .. Len(lines)
            BY <2>2 DEF Entries
        <3>2. Latest({i}) = i
            <4>1. Len(lines) \in Nat
                OBVIOUS
            <4>2. {i} \subseteq 1 .. Len(lines) /\ \A j \in {i} : j <= i
                BY <3>1
            <4> QED
                BY <4>1, <4>2, LatestUnique
        <3>3. CASE lines[i][3] = NoTime
            BY <2>1, <2>3, <3>1, <3>2, <3>3
        <3>4. CASE lines[i][3] # NoTime
            <4>1. Usable(lines, d, p) = {i}
                BY <2>3, <3>1, <3>4
            <4> QED
                BY <2>1, <3>1, <3>2, <4>1
        <3> QED
            BY <3>3, <3>4
    <2> QED
        BY <2>4, <2>5
<1>2. /\ Given(lines)[d] = [p \in Prayers |-> Given(lines)[d][p]]
      /\ Intended(lines)[d] = [p \in Prayers |-> Intended(lines)[d][p]]
    BY GivenIsDay
<1> QED
    BY <1>1, <1>2, SameDay, Zenon

\* An import is at one stage, and its table is one of days and times.
THEOREM TimetableTypeCorrect == TimetableSpec => []TimetableTypeOK
BY TimetableInvariance, PTL DEF TimetableInv

\* For any text, whatever fails, and while another import writes: what is served
\* of each date and prayer is the last usable line for it of the text last stored.
THEOREM OneImport == TimetableSpec => []LoadsOneImport
BY TimetableInvariance, PTL DEF TimetableInv

\* A date that has a time in a well-formed text is served as the text says.
THEOREM WellFormedServed == TimetableSpec => []WellFormedIsServed
<1>1. TimetableInv => WellFormedIsServed
    <2> SUFFICES ASSUME TimetableInv, NEW d \in Dates,
                        stored.wellFormed, stored.intended[d] # NoTimes
                 PROVE  times_for(d) = stored.intended[d]
        BY DEF WellFormedIsServed
    <2>1. PICK lines \in Seq(Line) : stored = Summary(lines)
        BY DEF TimetableInv, FileInv
    <2>2. stored.given[d] = stored.intended[d]
        BY <2>1, WellFormedGiven DEF Summary
    <2> QED
        BY <2>2, ServedIsGiven DEF times_for
<1> QED
    BY TimetableInvariance, <1>1, PTL

\* The timetable of an ordinary year has times for 29 February.
THEOREM EveryYear == TimetableSpec => []YearRepeats
<1>1. TimetableInv => YearRepeats
    <2> SUFFICES ASSUME TimetableInv, \A d \in Dates \ {LeapDay} : stored.given[d] # NoTimes,
                        NEW d \in Dates
                 PROVE  times_for(d) # NoTimes
        BY DEF YearRepeats
    <2>1. CASE d \in DOMAIN load
        BY <2>1 DEF times_for, TimetableInv, FileInv
    <2>2. CASE d \notin DOMAIN load
        <3>1. d = LeapDay
            BY <2>2, ServedIsGiven
        <3>2. DayBefore \in DOMAIN load /\ load[DayBefore] # NoTimes
            BY ServedIsGiven, TimetableAssumption DEF TimetableInv, FileInv
        <3> QED
            BY <2>2, <3>1, <3>2 DEF times_for
    <2> QED
        BY <2>1, <2>2
<1> QED
    BY TimetableInvariance, <1>1, PTL
=============================================================================
