\* Every verb, a failed save or a restart between any two steps, and a radio that
\* reports its VAPs down for a while.
SPECIFICATION FairSpec
CONSTANTS
    home = home
    guest = guest
    r2 = r2
    r5 = r5
    NoEnvelope = NoEnvelope
    NoBaseline = NoBaseline
    NoConn = NoConn
    NoRecord = NoRecord
    Ssids <- MCSsids
    Radios <- MCRadios
    Envelopes <- BothBands
    Clients = {c1}
    MaxAttempts = 6
    Slots = {h1}
    Lanes = {"encrypted", "plain"}
    Ops = {"Create", "Patch", "Wlans", "Block", "Unblock", "Sweep", "Reboot", "Cmd", "Drop"}
    Capable <- AllVaps
    OddTables <- Outage
    MaxOps = 2
    MaxLosses = 0
    MaxFaults = 1
    MaxReports = 2
PROPERTY
    Converges
