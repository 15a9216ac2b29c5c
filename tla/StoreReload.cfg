\* One goroutine sights one device, a reader evicts it, the process restarts: what
\* the store says of reloaded sightings.
SPECIFICATION Spec
CONSTANTS
    Procs = {g1}
    Macs = {m1}
    Notes = {n1}
    Verbs = {"MarkPending"}
    Deletable = {}
    NoProc = NoProc
    NoSighting = NoSighting
    MaxPending = 1
    Ttl = 1
    MaxCalls = 2
    MaxFaults = 1
    MaxClock = 2
PROPERTY
    EvictionsPersist
