\* Three threads compete for two permits; ladders of three attempts, the
\* second delay cut.
CONSTANTS
    Threads = {t1, t2, t3}
    FailureThreshold = 2
    RecoveryTicks = 1
    MaxConcurrency = 2
    Attempts = 3
    BaseDelay = 2
    Multiplier = 2
    MaxDelay = 3
SPECIFICATION Spec
INVARIANTS
    TypeOK
    PermitsExact
    GuardedIsRunning
    OpenBoundsLoad
    SleepsWithinLadder
PROPERTIES
    TrialEnds
    EveryCallEnds
    Recovers
