\* Operator verbs of every kind on the way to a device, one fault.
SPECIFICATION FairSpec
CONSTANTS
    NoId = NoId
    Unset = Unset
    AutoPower = AutoPower
    NoList = NoList
    FirstReport <- TwoRadios
    Informs <- Heartbeats
    Patches <- SomePatches
    Drafts <- SomeDrafts
    Envelopes <- BothNetworks
    Upserts <- SomeUpserts
    MaxOps = 3
    MaxFaults = 1
INVARIANTS
    TypeOK
    EchoedRows
    WiringSound
    NoDeadVaps
PROPERTY
    EditsReach
