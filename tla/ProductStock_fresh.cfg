\* A reader that missed before the update stores what it read after it: no
\* replica, no Redis failure, one product.
CONSTANTS
    NumProducts = 1
    Reserves = {}
    Releases = {}
    Updates = {u}
    Readers = {r}
    ReadReplica = FALSE
    RedisMayFail = FALSE
    MaxStock = 1
    MaxQuantity = 1
    MaxFaults = 0
    None = None
SPECIFICATION Spec
INVARIANT
    NextReadIsFresh
