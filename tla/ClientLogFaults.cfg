\* Informs of one AP out of order, unnoticed stays, failed saves, sweeps and restarts.
SPECIFICATION Spec
CONSTANTS
    r2 = r2
    r5 = r5
    Unknown = Unknown
    NoRow = NoRow
    NoHold = NoHold
    Nowhere = Nowhere
    Aps = {1, 2}
    Clients = {1}
    Places <- MCPlaces
    Slots = {1, 2, 3}
    Owner <- MCOwner3
    MaxRows = 1
    MaxMoves = 1
    MaxFast = 1
    MaxLosses = 1
    MaxFaults = 1
    MaxClock = 1
INVARIANTS
    TypeOK
    HeldWhereCurrent
    HistoryAgrees
