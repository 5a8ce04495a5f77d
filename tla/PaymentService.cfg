\* Two requests for one order (the Order client's retry) of two gateway
\* attempts each: attempts of one request and of both overlap.
CONSTANTS
    Requests = {r1, r2}
    Orders = {o1}
    GatewayAttempts = 2
    MaxForgets = 1
    MaxCrashes = 1
SPECIFICATION Spec
INVARIANTS
    TypeOK
    ChargedAgainOnlyByOverlap
    FailedMeansDeclined
PROPERTIES
    ImplementsLedger
    EveryRequestAnswered
