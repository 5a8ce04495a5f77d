\* Two readers, two reservations and an update of one product; a replica that lags
\* and a Redis that fails at any call.
CONSTANTS
    NumProducts = 1
    Reserves = {a1, a2}
    Releases = {}
    Updates = {u}
    Readers = {r1, r2}
    ReadReplica = TRUE
    RedisMayFail = TRUE
    MaxStock = 1
    MaxQuantity = 1
    MaxFaults = 1
    None = None
SPECIFICATION FairSpec
PROPERTIES
    ImplementsLedger
    CacheConverges
