CONSTANTS
    Rooms <- TwoRooms
    Characters <- SixCharacters
    Nicks <- OneNick
    Conference <- OneHost
    None = None
    MaxLosses = 1
    MaxCrashes = 1
    MaxDisconnects = 1
    MaxCuts = 1
    MaxStanzas = 2
SPECIFICATION SessionLive
INVARIANTS TypeOK RoomsKept PresentEverywhere SessionTypeOK JidKnown RoomsOfHandlers
PROPERTIES SavedShrinksOnlyWhen DisconnectReturns ComesBack PingAnswered ImplementsConnection
CHECK_DEADLOCK FALSE
