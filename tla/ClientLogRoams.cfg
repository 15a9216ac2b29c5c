\* Roams, radio changes and departures of two clients, rows at their cap.
SPECIFICATION FairSpec
CONSTANTS
    r2 = r2
    r5 = r5
    Unknown = Unknown
    NoRow = NoRow
    NoHold = NoHold
    Nowhere = Nowhere
    Aps = {1, 2}
    Clients = {1, 2}
    Places <- MCPlaces
    Slots = {1, 2}
    Owner <- MCOwner
    MaxRows = 1
    MaxMoves = 2
    MaxFast = 0
    MaxLosses = 0
    MaxFaults = 0
    MaxClock = 1
PROPERTY
    HistoryTrue
