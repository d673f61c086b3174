SPECIFICATION FairSpec
CONSTANTS
    Filters = {f1, f2}
    NoFilter = NoFilter
    MaxConnections = 2
    MaxGeneration = 4
INVARIANTS
    ReadyIsServing
    ProbeIsHonest
PROPERTIES
    StableIsReady
