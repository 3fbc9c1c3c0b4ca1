----------------------------- MODULE MCLocation -----------------------------
\* Three cities that share country and name, two of them the region as well,
\* two namesakes in another country, one without a region, and a city of its
\* own; a code, a name and a region also in another case, and a blank
\* region.
EXTENDS Location

City(id, country, name, region, tz, population) ==
    [id |-> id, country |-> country, name |-> name, region |-> region,
     coords |-> id, timezone |-> tz, population |-> population]

SomeCities ==
    {City("1", "LY", "Zahra", "B", "tripoli", 5),
     City("2", "LY", "Zahra", "C", "sebha", 9),
     City("3", "TN", "Zahra", "B", "tripoli", 7),
     City("5", "LY", "Zahra", "C", "tripoli", 1),
     City("6", "TN", "Zahra", "-", "tripoli", 8),
     City("4", "LY", "Murzuq", "B", "sebha", 2)}

SomeCoords == {"x"}
SomeTimezones == {"tripoli", "sebha"}
SomeCodes == {"LY", "ly", "TN"}
SomeUpper == [k \in SomeCodes \cup {"-"} |-> IF k = "ly" THEN "LY" ELSE k]
SomeNames == {"Zahra", "zahra", "Murzuq"}
SomeRegions == {"B", "b", "C", " "}
SomeFolded ==
    [s \in SomeNames \cup SomeRegions \cup {"-"} |->
        CASE s = "Zahra" -> "zahra" [] s = "B" -> "b" [] s = " " -> "-" [] OTHER -> s]
=============================================================================
