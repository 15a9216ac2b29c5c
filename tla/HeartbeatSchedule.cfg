\* The code's own numbers; informs at every moment.
SPECIFICATION Spec
CONSTANTS
    LostAfter = 75
    Cap = 90
    Lead = 10
    Spread = 5
    Watching = 5
    Ubios = 10
    Resolution = 5
    MaxClock = 90
INVARIANTS
    TypeOK
    ScheduleBounded
