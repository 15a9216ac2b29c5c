\* Two devices, polls interleaved with informs, verbs, failed saves and restarts.
SPECIFICATION FairSpec
CONSTANTS
    Macs = {m1, m2}
    NoRec = NoRec
    NoList = NoList
    LostAfter = 0
    MaxClock = 2
    MaxInforms = 3
    MaxOps = 3
INVARIANTS
    TypeOK
    CountsTrue
PROPERTIES
    SweepSound
    SilentLost
    SeriesReturn
