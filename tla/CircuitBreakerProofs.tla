------------------------ MODULE CircuitBreakerProofs ------------------------
(***************************************************************************)
(* What CircuitBreaker promises for every set of threads, every threshold  *)
(* and every recovery window.  The invariants are proved one after the     *)
(* other, each using those before it, and from Safety alone: they hold of  *)
(* whatever takes only the breaker's steps, as GuardedCall does.           *)
(***************************************************************************)
EXTENDS CircuitBreaker, TLAPS

(* TypeOK in two halves, the flags apart from the counters.                *)
FieldTypes ==
    /\ state \in BreakerStates
    /\ failures \in 0..FailureThreshold
    /\ openedFor \in 0..RecoveryTicks
    /\ running \in [Threads -> Calls]
    /\ sinceFailure \in 0..RecoveryTicks

FlagTypes == trialInFlight \in BOOLEAN /\ dependencyUp \in BOOLEAN

(* The breaker's fields keep their types whatever the threads do.          *)
LEMMA TypesKept == Safety => []TypeOK
<1> USE BreakerAssumption DEF BreakerAssumption
<1>1. Init => FieldTypes
  BY DEF Init, FieldTypes, BreakerStates, Calls
<1>2. Init => FlagTypes
  BY DEF Init, FlagTypes
<1>3. FieldTypes /\ [Next]_vars => FieldTypes'
  <2> SUFFICES ASSUME FieldTypes, [Next]_vars PROVE FieldTypes'
    OBVIOUS
  <2> USE DEF FieldTypes, BreakerStates, Calls
  <2>1. CASE ReadState
    BY <2>1 DEF ReadState, Resolved
  <2>2. ASSUME NEW t \in Threads, Admit(t) PROVE FieldTypes'
    BY <2>2 DEF Admit, Resolved
  <2>3. ASSUME NEW t \in Threads, Reject(t) PROVE FieldTypes'
    BY <2>3 DEF Reject, vars
  <2>4. ASSUME NEW t \in Threads, OnSuccess(t) PROVE FieldTypes'
    BY <2>4 DEF OnSuccess, ForceClosed, Stale
  <2>5. ASSUME NEW t \in Threads, OnFailure(t) PROVE FieldTypes'
    BY <2>5 DEF OnFailure, ShouldOpen, Stale, UpTo
  <2>6. CASE Reset
    BY <2>6 DEF Reset, ForceClosed, Stale
  <2>7. CASE Tick
    BY <2>7 DEF Tick, UpTo
  <2>8. CASE Toggle \/ UNCHANGED vars
    BY <2>8 DEF Toggle, vars
  <2> QED
    BY <2>1, <2>2, <2>3, <2>4, <2>5, <2>6, <2>7, <2>8 DEF Next, Finish
<1>4. FlagTypes /\ [Next]_vars => FlagTypes'
  BY DEF FlagTypes, Next, Finish, vars, ReadState, TrialTaken, Admit, Reject,
         OnSuccess, OnFailure, Reset, ForceClosed, Tick, Toggle
<1>5. FieldTypes /\ FlagTypes => TypeOK
  BY DEF FieldTypes, FlagTypes, TypeOK
<1> QED
  BY <1>1, <1>2, <1>3, <1>4, <1>5, PTL DEF Safety

(* CLOSED exactly below the threshold.  It is inductive given the types:   *)
(* opening from CLOSED needs the threshold, HALF_OPEN and OPEN keep the    *)
(* streak, and every way back to CLOSED zeroes it.                         *)
LEMMA StreakKept == Safety => []StreakDecidesState
<1> USE BreakerAssumption DEF BreakerAssumption
<1>1. Init => StreakDecidesState
  BY DEF Init, StreakDecidesState
<1>2. TypeOK /\ StreakDecidesState /\ [Next]_vars => StreakDecidesState'
  <2> SUFFICES ASSUME TypeOK, StreakDecidesState, [Next]_vars
               PROVE  StreakDecidesState'
    OBVIOUS
  <2> USE DEF TypeOK, BreakerStates, StreakDecidesState
  <2>1. CASE ReadState
    BY <2>1 DEF ReadState, Resolved, WindowElapsed
  <2>2. ASSUME NEW t \in Threads, Admit(t) PROVE StreakDecidesState'
    BY <2>2 DEF Admit, Resolved, WindowElapsed
  <2>3. ASSUME NEW t \in Threads, Reject(t) PROVE StreakDecidesState'
    BY <2>3 DEF Reject, vars
  <2>4. ASSUME NEW t \in Threads, OnSuccess(t) PROVE StreakDecidesState'
    BY <2>4 DEF OnSuccess, ForceClosed
  <2>5. ASSUME NEW t \in Threads, OnFailure(t) PROVE StreakDecidesState'
    BY <2>5 DEF OnFailure, ShouldOpen, UpTo
  <2>6. CASE Reset
    BY <2>6 DEF Reset, ForceClosed
  <2>7. CASE Tick \/ Toggle \/ UNCHANGED vars
    BY <2>7 DEF Tick, Toggle, vars
  <2> QED
    BY <2>1, <2>2, <2>3, <2>4, <2>5, <2>6, <2>7 DEF Next, Finish
<1> QED
  BY <1>1, <1>2, TypesKept, PTL DEF Safety

(* The trial slot, strengthened: a call is only called a trial in the      *)
(* HALF_OPEN period that admitted it, so a new period starts without one.  *)
TrialInv ==
    /\ trialInFlight <=> \E t \in Threads : running[t] = "trial"
    /\ \A t \in Threads : running[t] = "trial" => state = "HALF_OPEN"
    /\ \A t, u \in Threads :
         running[t] = "trial" /\ running[u] = "trial" => t = u

(* At most one trial, and the slot is taken exactly while it runs.         *)
LEMMA TrialSlotKept == Safety => []TrialSlotExact
<1>1. Init => TrialInv
  BY DEF Init, TrialInv
<1>2. TypeOK /\ TrialInv /\ [Next]_vars => TrialInv'
  <2> SUFFICES ASSUME TypeOK, TrialInv, [Next]_vars PROVE TrialInv'
    OBVIOUS
  <2> USE DEF TypeOK, TrialInv
  <2>1. CASE ReadState
    BY <2>1 DEF ReadState, Resolved, TrialTaken, WindowElapsed
  <2>2. ASSUME NEW t \in Threads, Admit(t) PROVE TrialInv'
    BY <2>2 DEF Admit, Resolved, TrialTaken, WindowElapsed
  <2>3. ASSUME NEW t \in Threads, Reject(t) PROVE TrialInv'
    BY <2>3 DEF Reject, vars
  <2>4. ASSUME NEW t \in Threads, OnSuccess(t) PROVE TrialInv'
    BY <2>4 DEF OnSuccess, ForceClosed, Stale
  <2>5. ASSUME NEW t \in Threads, OnFailure(t) PROVE TrialInv'
    BY <2>5 DEF OnFailure, ShouldOpen, Stale
  <2>6. CASE Reset
    BY <2>6 DEF Reset, ForceClosed, Stale
  <2>7. CASE Tick \/ Toggle \/ UNCHANGED vars
    BY <2>7 DEF Tick, Toggle, vars
  <2> QED
    BY <2>1, <2>2, <2>3, <2>4, <2>5, <2>6, <2>7 DEF Next, Finish
<1>3. TrialInv => TrialSlotExact
  BY DEF TrialInv, TrialSlotExact
<1> QED
  BY <1>1, <1>2, <1>3, TypesKept, PTL DEF Safety

(* The window is restarted by every failure reported while OPEN, because   *)
(* the streak is still at the threshold there (StreakKept).             *)
LEMMA WindowKept == Safety => []WindowCountsFromLastFailure
<1> USE BreakerAssumption DEF BreakerAssumption
<1>1. Init => WindowCountsFromLastFailure
  BY DEF Init, WindowCountsFromLastFailure
<1>2. /\ TypeOK
      /\ StreakDecidesState
      /\ WindowCountsFromLastFailure
      /\ [Next]_vars
      => WindowCountsFromLastFailure'
  <2> SUFFICES ASSUME TypeOK, StreakDecidesState,
                      WindowCountsFromLastFailure, [Next]_vars
               PROVE  WindowCountsFromLastFailure'
    OBVIOUS
  <2> USE DEF TypeOK, BreakerStates, WindowCountsFromLastFailure
  <2>1. CASE ReadState
    BY <2>1 DEF ReadState, Resolved
  <2>2. ASSUME NEW t \in Threads, Admit(t)
        PROVE  WindowCountsFromLastFailure'
    BY <2>2 DEF Admit, Resolved
  <2>3. ASSUME NEW t \in Threads, OnSuccess(t) \/ Reject(t)
        PROVE  WindowCountsFromLastFailure'
    BY <2>3 DEF OnSuccess, ForceClosed, Reject, vars
  <2>4. ASSUME NEW t \in Threads, OnFailure(t)
        PROVE  WindowCountsFromLastFailure'
    BY <2>4 DEF OnFailure, ShouldOpen, StreakDecidesState
  <2>5. CASE Tick
    BY <2>5 DEF Tick, UpTo
  <2>6. CASE Reset \/ Toggle \/ UNCHANGED vars
    BY <2>6 DEF Reset, ForceClosed, Toggle, vars
  <2> QED
    BY <2>1, <2>2, <2>3, <2>4, <2>5, <2>6 DEF Next, Finish
<1> QED
  BY <1>1, <1>2, TypesKept, StreakKept, PTL DEF Safety

(* HALF_OPEN is only entered through an elapsed window, and a failure      *)
(* reported in HALF_OPEN leaves it: until the trial is admitted, no call   *)
(* has failed for a whole recovery window.                                 *)
QuietHalfOpen ==
    state = "HALF_OPEN" /\ ~trialInFlight => sinceFailure >= RecoveryTicks

(* No probe without a quiet recovery window before it.                     *)
LEMMA ProbesKept == Safety => TrialAfterQuietWindow
<1> USE BreakerAssumption DEF BreakerAssumption
<1>1. Init => QuietHalfOpen
  BY DEF Init, QuietHalfOpen
<1>2. /\ TypeOK
      /\ TrialSlotExact
      /\ WindowCountsFromLastFailure
      /\ QuietHalfOpen
      /\ [Next]_vars
      => QuietHalfOpen'
  <2> SUFFICES ASSUME TypeOK, TrialSlotExact, WindowCountsFromLastFailure,
                      QuietHalfOpen, [Next]_vars
               PROVE  QuietHalfOpen'
    OBVIOUS
  <2> USE DEF TypeOK, BreakerStates, QuietHalfOpen
  <2>1. CASE ReadState
    BY <2>1 DEF ReadState, Resolved, TrialTaken, WindowElapsed,
                WindowCountsFromLastFailure
  <2>2. ASSUME NEW t \in Threads, Admit(t) PROVE QuietHalfOpen'
    BY <2>2 DEF Admit, Resolved
  <2>3. ASSUME NEW t \in Threads, OnSuccess(t) \/ OnFailure(t) \/ Reject(t)
        PROVE  QuietHalfOpen'
    BY <2>3 DEF OnSuccess, ForceClosed, OnFailure, ShouldOpen, Reject, vars
  <2>4. CASE Tick
    BY <2>4 DEF Tick, UpTo
  <2>5. CASE Reset \/ Toggle \/ UNCHANGED vars
    BY <2>5 DEF Reset, ForceClosed, Toggle, vars
  <2> QED
    BY <2>1, <2>2, <2>3, <2>4, <2>5 DEF Next, Finish
<1>3. /\ TypeOK
      /\ WindowCountsFromLastFailure
      /\ QuietHalfOpen
      /\ [Next]_vars
      => [\A t \in Threads : running[t] # "trial" /\ running'[t] = "trial"
                               => sinceFailure >= RecoveryTicks]_vars
  <2> SUFFICES ASSUME TypeOK, WindowCountsFromLastFailure, QuietHalfOpen,
                      Next,
                      NEW u \in Threads,
                      running[u] # "trial", running'[u] = "trial"
               PROVE  sinceFailure >= RecoveryTicks
    OBVIOUS
  <2>1. PICK t \in Threads : Admit(t)
    BY DEF Next, Finish, ReadState, Reject, OnSuccess, OnFailure, Reset, ForceClosed, Tick, Toggle,
           Stale, vars, TypeOK
  <2>2. u = t /\ Resolved = "HALF_OPEN" /\ ~TrialTaken
    BY <2>1 DEF Admit, TypeOK
  <2>3. CASE WindowElapsed
    BY <2>3 DEF WindowElapsed, WindowCountsFromLastFailure, TypeOK
  <2>4. CASE ~WindowElapsed
    BY <2>2, <2>4 DEF Resolved, TrialTaken, QuietHalfOpen
  <2> QED
    BY <2>3, <2>4
<1> QED
  BY <1>1, <1>2, <1>3, TypesKept, TrialSlotKept, WindowKept, PTL
     DEF Safety, TrialAfterQuietWindow
-----------------------------------------------------------------------------
(* The breaker's fields keep their types.                                  *)
THEOREM TypeCorrect == Spec => []TypeOK
BY TypesKept, PTL DEF Spec

(* CLOSED exactly below the threshold, however results interleave.         *)
THEOREM StreakCorrect == Spec => []StreakDecidesState
BY StreakKept, PTL DEF Spec

(* At most one trial, and the slot is taken exactly while it runs.         *)
THEOREM TrialSlotCorrect == Spec => []TrialSlotExact
BY TrialSlotKept, PTL DEF Spec

(* The recovery window counts from the latest failure.                     *)
THEOREM WindowCorrect == Spec => []WindowCountsFromLastFailure
BY WindowKept, PTL DEF Spec

(* No probe without a quiet recovery window before it.                     *)
THEOREM ProbesWait == Spec => TrialAfterQuietWindow
BY ProbesKept, PTL DEF Spec
=============================================================================
