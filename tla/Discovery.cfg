\* One device whose beacons are lost, repeated and late, other packets, a restart, a
\* failed save and an operator who adopts what is listed.
SPECIFICATION FairSpec
CONSTANTS
    m1 = m1
    Macs = {m1}
    Self = Self
    NoMac = NoMac
    NoSight = NoSight
    NoEntry = NoEntry
    Strays <- OtherPackets
    Discoverable = FALSE
    Armed = TRUE
    Marks = {"true"}
    Ports = {"usable"}
    Window = 1
    PruneThreshold = 0
    MaxPending = 1
    Ttl = 1
    SeqModulus = 3
    MaxAir = 1
    MaxFaults = 1
    MaxOps = 1
    MaxFailedSaves = 1
INVARIANTS
    TypeOK
    NotesSaved
PROPERTIES
    WindowHolds
    Onboarded
