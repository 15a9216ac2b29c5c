\* Two informs in flight, a loss, a failed save or a restart, and every verb that
\* touches keys, state or blocked clients; a station table may drop a client.
SPECIFICATION Spec
CONSTANTS
    home = home
    guest = guest
    r2 = r2
    r5 = r5
    NoEnvelope = NoEnvelope
    NoBaseline = NoBaseline
    NoConn = NoConn
    NoRecord = NoRecord
    Ssids <- MCSsids
    Radios <- MCRadios
    Envelopes <- NoWlans
    Clients = {c1}
    MaxAttempts = 6
    Slots = {h1, h2}
    Lanes = {"encrypted"}
    Ops = {"Adopt", "Delete", "FactoryReset", "PhysicalReset", "Expire", "Sweep", "Patch", "Block"}
    Capable <- AllVaps
    OddTables <- NoneOdd
    MaxOps = 2
    MaxLosses = 1
    MaxFaults = 1
    MaxReports = 1
SYMMETRY SlotSymmetry
INVARIANTS
    TypeOK
    KeyDiscipline
    DeviceKeyKept
    ConnectedContent
PROPERTIES
    ConfirmedKeyStands
    ImplementsLifecycle
