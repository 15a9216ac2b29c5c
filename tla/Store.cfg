\* Cycles, deletes, sightings past their TTL and up to the cap, concurrent
\* savers, failed saves and restarts; every call returns.
SPECIFICATION FairSpec
CONSTANTS
    Procs = {g1, g2}
    Macs = {m1, m2}
    Notes = {n1}
    Verbs = {"Update", "UpdateExisting", "Delete", "MarkPending"}
    Deletable = {m2}
    NoProc = NoProc
    NoSighting = NoSighting
    MaxPending = 1
    Ttl = 1
    MaxCalls = 3
    MaxFaults = 1
    MaxClock = 2
INVARIANTS
    TypeOK
    CyclesSerial
    AckedDurable
PROPERTIES
    FileForward
    OpsComplete
