\* Commands armed by the operator and by the watchdog on an access point with a dead
\* band, WLANs saved, given another passphrase and removed, clients blocked and
\* unblocked, on both lanes, with a failed save, a failed engine branch or a restart.
SPECIFICATION HSpec
CONSTANTS
    home = home
    guest = guest
    r2 = r2
    r5 = r5
    NoEnvelope = NoEnvelope
    NoBaseline = NoBaseline
    NoConn = NoConn
    NoRecord = NoRecord
    Ssids <- MCSsids
    Radios <- MCRadios
    Envelopes <- BothRekeyed
    Clients = {c1}
    MaxAttempts = 6
    Slots = {h1}
    Lanes = {"encrypted", "plain"}
    Ops = {"Create", "Wlans", "Reboot", "Cmd", "Block", "Drop"}
    Capable <- OneBand
    OddTables <- Recovers
    MaxOps = 3
    MaxLosses = 0
    MaxFaults = 1
    MaxReports = 1
INVARIANTS
    CommandsAtMostOnce
    SettledWlans
PROPERTIES
    WatchdogOncePerVersion
