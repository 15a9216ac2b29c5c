\* A supervisor restarts the controller over every way out of run().
SPECIFICATION FairSpec
CONSTANTS
    p1 = p1
    p2 = p2
    Procs <- MCProcs
    NoProc = NoProc
    Workers = {"admin", "discovery", "poller"}
    Exits = {"signal", "error"}
    MaxStarts = 2
    MaxSaves = 2
INVARIANTS
    TypeOK
    WritersLocked
    NoLostSave
PROPERTY
    Stops
CHECK_DEADLOCK FALSE
