CONSTANTS
    Cities <- SomeCities
    Coords <- SomeCoords
    Timezones <- SomeTimezones
    Codes <- SomeCodes
    Upper <- SomeUpper
    Names <- SomeNames
    Regions <- SomeRegions
    Folded <- SomeFolded
    None = "-"
SPECIFICATION Spec
INVARIANTS CityPlaceIsReal PickIsStored NeverAnotherCity ResaveKeepsPlace
