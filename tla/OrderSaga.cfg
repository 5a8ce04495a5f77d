\* One order and a cancel request for it, every call with one retry: the
\* races here are between the requests for one order.
CONSTANTS
    Orders = {o1}
    Cancels = {c1}
    Capacity = 2
    ProductAttempts = 2
    ChargeAttempts = 2
    MaxCrashes = 1
SPECIFICATION Spec
INVARIANTS
    TypeOK
    AgreesWithPayments
    GoodsHeld
    CancelledIsRestocked
    AnnouncedIsShown
    GivenBackBounded
PROPERTIES
    SettledForGood
    ImplementsBook
    EveryRequestEnds
