\* A reservation, a release and an update race for two products.
CONSTANTS
    NumProducts = 2
    Reserves = {a}
    Releases = {b}
    Updates = {u}
    Readers = {}
    ReadReplica = FALSE
    RedisMayFail = FALSE
    MaxStock = 1
    MaxQuantity = 2
    MaxFaults = 1
    None = None
SPECIFICATION FairSpec
INVARIANTS
    TypeOK
    NoCircularWait
PROPERTIES
    ImplementsLedger
    EveryCallEnds
\* The calls are all made and end.
CHECK_DEADLOCK FALSE
