\* One request, one retry, a gateway that neither restarts nor forgets.
CONSTANTS
    Requests = {r1}
    Orders = {o1}
    GatewayAttempts = 2
    MaxForgets = 0
    MaxCrashes = 0
SPECIFICATION Spec
INVARIANT NeverASecondCharge
