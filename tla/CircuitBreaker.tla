--------------------------- MODULE CircuitBreaker ---------------------------
(***************************************************************************)
(* app/core/reliability.py, class CircuitBreaker: the three-state breaker  *)
(* that guards one dependency and is shared by every thread of a process.  *)
(*                                                                         *)
(* Each method of the class takes self._lock once, so each is one atomic   *)
(* action here; between _before_call and _on_success / _on_failure the     *)
(* guarded function runs outside the lock for as long as it likes, which   *)
(* is where results arrive late.                                           *)
(*                                                                         *)
(* Time is counted in ticks.  The code only ever compares the time since   *)
(* _opened_at with recovery_seconds, so the model keeps that elapsed time  *)
(* and stops counting at RecoveryTicks; likewise the failure counter is    *)
(* only compared with failure_threshold and stops counting there.          *)
(***************************************************************************)
EXTENDS Integers

CONSTANTS
    Threads,           \* the threads that call through the breaker
    FailureThreshold,  \* failure_threshold
    RecoveryTicks      \* recovery_seconds

ASSUME BreakerAssumption ==
    /\ FailureThreshold \in Nat \ {0}
    /\ RecoveryTicks \in Nat

VARIABLES
    state,          \* _state
    failures,       \* _consecutive_failures, capped at FailureThreshold
    openedFor,      \* clock() - _opened_at, capped at RecoveryTicks
    trialInFlight,  \* _half_open_in_flight
    running,        \* for each thread, the guarded call it is inside of
    dependencyUp,   \* environment: every guarded call succeeds now
    sinceFailure    \* history: ticks since a guarded call last failed

vars == <<state, failures, openedFor, trialInFlight, running, dependencyUp,
          sinceFailure>>

BreakerStates == {"CLOSED", "OPEN", "HALF_OPEN"}

(* A call is "normal" if admitted while CLOSED, "trial" if admitted while  *)
(* HALF_OPEN, and "stale" once the breaker has changed state under it.  It *)
(* is history only: the code does not remember how a call was admitted.    *)
Calls == {"idle", "normal", "trial", "stale"}

(* Definitions named Something_Fault are faulty variants of Something: what *)
(* the property they belong to would catch.  No action uses them.          *)
UpTo_Uncapped(n, bound) == n

UpTo(n, bound) == IF n < bound THEN n ELSE bound

Init ==
    /\ state = "CLOSED"
    /\ failures = 0
    /\ openedFor = RecoveryTicks
    /\ trialInFlight = FALSE
    /\ running = [t \in Threads |-> "idle"]
    /\ dependencyUp \in BOOLEAN
    /\ sinceFailure = RecoveryTicks

-----------------------------------------------------------------------------
(* _maybe_half_open: an elapsed OPEN window is resolved, and the trial     *)
(* slot freed, by whoever looks at the breaker next.                       *)
WindowElapsed_Early == state = "OPEN" /\ openedFor + 1 >= RecoveryTicks
WindowElapsed_Never == state = "OPEN" /\ openedFor > RecoveryTicks

WindowElapsed == state = "OPEN" /\ openedFor >= RecoveryTicks

Resolved == IF WindowElapsed THEN "HALF_OPEN" ELSE state

TrialTaken_Unchecked == FALSE

TrialTaken == trialInFlight /\ ~WindowElapsed

Stale == [t \in Threads |-> IF running[t] = "idle" THEN "idle" ELSE "stale"]

(* The state property, read by the health probes.                          *)
ReadState ==
    /\ state' = Resolved
    /\ trialInFlight' = TrialTaken
    /\ UNCHANGED <<failures, openedFor, running, dependencyUp, sinceFailure>>

(* call / _before_call, which lets the call through ...                    *)
Admit(t) ==
    /\ running[t] = "idle"
    /\ Resolved # "OPEN"
    /\ Resolved = "HALF_OPEN" => ~TrialTaken
    /\ state' = Resolved
    /\ trialInFlight' = (Resolved = "HALF_OPEN" \/ TrialTaken)
    /\ running' = [running EXCEPT ![t] =
                     IF Resolved = "HALF_OPEN" THEN "trial" ELSE "normal"]
    /\ UNCHANGED <<failures, openedFor, dependencyUp, sinceFailure>>

(* ... or raises CircuitOpenError, having resolved nothing.                *)
Reject(t) ==
    /\ running[t] = "idle"
    /\ Resolved = "OPEN" \/ (Resolved = "HALF_OPEN" /\ TrialTaken)
    /\ UNCHANGED vars

ForceClosed_KeepsSlot ==
    state' = "CLOSED" /\ failures' = 0 /\ UNCHANGED trialInFlight

ForceClosed == state' = "CLOSED" /\ failures' = 0 /\ trialInFlight' = FALSE

(* fn() returned: _on_success, whatever state the breaker is in by now.    *)
OnSuccess(t) ==
    /\ running[t] # "idle"
    /\ ForceClosed
    /\ running' = [(IF state = "CLOSED" THEN running ELSE Stale)
                     EXCEPT ![t] = "idle"]
    /\ UNCHANGED <<openedFor, dependencyUp, sinceFailure>>

(* fn() raised: _on_failure.  A failure reported while already OPEN starts *)
(* the recovery window again.                                              *)
ShouldOpen_OffByOne == state = "HALF_OPEN" \/ failures >= FailureThreshold
ShouldOpen_NoRestart ==
    state # "OPEN" /\ (state = "HALF_OPEN" \/ failures + 1 >= FailureThreshold)

ShouldOpen == state = "HALF_OPEN" \/ failures + 1 >= FailureThreshold

OnFailure(t) ==
    /\ running[t] # "idle"
    /\ failures' = UpTo(failures + 1, FailureThreshold)
    /\ trialInFlight' = FALSE
    /\ state' = IF ShouldOpen THEN "OPEN" ELSE state
    /\ openedFor' = IF ShouldOpen THEN 0 ELSE openedFor
    /\ running' = [(IF ShouldOpen THEN Stale ELSE running) EXCEPT ![t] = "idle"]
    /\ sinceFailure' = 0
    /\ UNCHANGED dependencyUp

(* reset: the tests and the chaos harness force the breaker shut.          *)
Reset ==
    /\ ForceClosed
    /\ running' = IF state = "CLOSED" THEN running ELSE Stale
    /\ UNCHANGED <<openedFor, dependencyUp, sinceFailure>>

(* The environment: the clock, and a dependency that fails and recovers.   *)
Tick ==
    /\ openedFor' = UpTo(openedFor + 1, RecoveryTicks)
    /\ sinceFailure' = UpTo(sinceFailure + 1, RecoveryTicks)
    /\ UNCHANGED <<state, failures, trialInFlight, running, dependencyUp>>

Toggle ==
    /\ dependencyUp' = ~dependencyUp
    /\ UNCHANGED <<state, failures, openedFor, trialInFlight, running,
                   sinceFailure>>

(* A call that runs while the dependency is up succeeds.                   *)
Finish(t) == OnSuccess(t) \/ (~dependencyUp /\ OnFailure(t))

Next ==
    \/ ReadState
    \/ \E t \in Threads : Admit(t) \/ Reject(t) \/ Finish(t)
    \/ Reset
    \/ Tick
    \/ Toggle

(* Every guarded call returns or raises (each attempt has a timeout and    *)
(* the attempts are bounded), time passes, and requests keep arriving.     *)
Fairness ==
    /\ \A t \in Threads : WF_vars(Finish(t))
    /\ WF_vars(\E t \in Threads : Admit(t))
    /\ WF_vars(Tick)

(* What its steps may do, without the fairness: this much is promised to   *)
(* hold also of a breaker around something else than a plain call.         *)
Safety == Init /\ [][Next]_vars

Spec == Safety /\ Fairness

-----------------------------------------------------------------------------
(* The types of the breaker's fields and of the history.                   *)
TypeOK ==
    /\ state \in BreakerStates
    /\ failures \in 0..FailureThreshold
    /\ openedFor \in 0..RecoveryTicks
    /\ trialInFlight \in BOOLEAN
    /\ running \in [Threads -> Calls]
    /\ dependencyUp \in BOOLEAN
    /\ sinceFailure \in 0..RecoveryTicks

(* The breaker is CLOSED exactly while fewer than failure_threshold        *)
(* failures have been reported since the last success, however the results *)
(* of concurrent calls interleave with windows opening and closing: the    *)
(* streak survives HALF_OPEN, which is what lets a late failure push the   *)
(* recovery window back (_on_failure's elif branch).                       *)
StreakDecidesState == (state = "CLOSED") <=> (failures < FailureThreshold)

(* The trial slot is taken exactly while the trial admitted in this        *)
(* HALF_OPEN period is still running, and there is at most one such trial: *)
(* no late result of another call may free the slot and leave the breaker  *)
(* HALF_OPEN, nor leave the slot taken with nobody to free it, which would *)
(* reject every call for ever.                                             *)
TrialSlotExact ==
    /\ trialInFlight <=> /\ state = "HALF_OPEN"
                         /\ \E t \in Threads : running[t] = "trial"
    /\ \A t, u \in Threads :
         running[t] = "trial" /\ running[u] = "trial" => t = u

(* While the breaker is OPEN its recovery window counts from the latest    *)
(* failure of any guarded call, also of those admitted before it opened.   *)
WindowCountsFromLastFailure == state = "OPEN" => openedFor = sinceFailure

(* A recovery probe is only ever sent after a full recovery window in      *)
(* which no guarded call failed.                                           *)
TrialAfterQuietWindow ==
    [][\A t \in Threads : running[t] # "trial" /\ running'[t] = "trial"
                            => sinceFailure >= RecoveryTicks]_vars

(* A taken trial slot is always given back: HALF_OPEN cannot wedge.        *)
TrialEnds == trialInFlight ~> ~trialInFlight

(* Once the dependency stays up, the breaker closes and stays closed: no   *)
(* late result, no elapsed or restarted window keeps traffic out for ever. *)
Recovers == <>[]dependencyUp => <>[](state = "CLOSED")
=============================================================================
