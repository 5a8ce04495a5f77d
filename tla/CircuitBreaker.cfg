\* Four threads and a threshold of three: calls are still running when the
\* breaker opens, and report their results in every later state.
CONSTANTS
    Threads = {t1, t2, t3, t4}
    FailureThreshold = 3
    RecoveryTicks = 2
SPECIFICATION Spec
INVARIANTS
    TypeOK
    StreakDecidesState
    TrialSlotExact
    WindowCountsFromLastFailure
PROPERTIES
    TrialAfterQuietWindow
    TrialEnds
    Recovers
