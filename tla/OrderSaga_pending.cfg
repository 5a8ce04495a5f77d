\* No retry and no crash: a cancel that arrives during the charge is enough.
CONSTANTS
    Orders = {o1}
    Cancels = {c1}
    Capacity = 1
    ProductAttempts = 1
    ChargeAttempts = 1
    MaxCrashes = 0
SPECIFICATION Spec
INVARIANT PaymentPendingHoldsStock
