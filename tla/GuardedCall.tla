------------------------------ MODULE GuardedCall ------------------------------
(***************************************************************************)
(* One dependency called the way app/payment/gateway_client.py,            *)
(* app/clients/product_client.py and payment_client.py call theirs:        *)
(*                                                                         *)
(*     bulkhead.call(lambda: breaker.call(retry_with_backoff(attempt)))    *)
(*                                                                         *)
(* by the threads of one process, which share the bulkhead and the breaker *)
(* (app/core/reliability.py).  The breaker is CircuitBreaker, instantiated:*)
(* what it guards is a whole retry ladder here, and attempts succeed or    *)
(* fail where there it was calls.                                          *)
(*                                                                         *)
(* The semaphore, the in_use counter and the breaker have a lock each and  *)
(* are taken one after the other, so each is an action of its own.         *)
(***************************************************************************)
EXTENDS Integers, FiniteSets

CONSTANTS
    Threads,          \* the threads that make calls
    FailureThreshold, \* circuit_breaker_failure_threshold
    RecoveryTicks,    \* circuit_breaker_recovery_seconds
    MaxConcurrency,   \* max_concurrency
    Attempts,         \* attempts
    BaseDelay,        \* base_delay
    Multiplier,       \* multiplier
    MaxDelay          \* max_delay

(* A semaphore of zero permits would make every call fail; the other       *)
(* settings may well be zero.                                              *)
ASSUME GuardAssumption ==
    /\ IsFiniteSet(Threads)
    /\ FailureThreshold \in Nat \ {0}
    /\ RecoveryTicks \in Nat
    /\ MaxConcurrency \in Nat \ {0}
    /\ Attempts \in Nat
    /\ BaseDelay \in Nat /\ Multiplier \in Nat /\ MaxDelay \in Nat

VARIABLES
    state, failures, openedFor, trialInFlight, \* the breaker, and
    running, sinceFailure,                     \* CircuitBreaker's history
    permits,      \* the value of _semaphore
    inUse,        \* _in_use
    pc,           \* where each thread is in its call
    attempt,      \* attempts made by each thread's call
    slept,        \* history: the most that call has slept between them
    load,         \* history: attempts each thread has started since the
                  \* breaker last opened, while it is OPEN
    dependencyUp  \* environment: every attempt now succeeds

breakerVars == <<state, failures, openedFor, trialInFlight, running,
                 sinceFailure>>
callVars == <<pc, attempt, slept>>
vars == <<breakerVars, permits, inUse, callVars, load, dependencyUp>>

Breaker == INSTANCE CircuitBreaker

(* "returned" and "raised" are what fn() did inside the breaker; "ready"   *)
(* and "calling" are the retry loop, between attempts and in one.          *)
InLadder == {"ready", "calling"}
Guarded == InLadder \cup {"returned", "raised"}
Inside == Guarded \cup {"admitting", "leaving"}
Holding == Inside \cup {"entering", "releasing"}
Steps == Holding \cup {"idle", "waiting"}

(* Definitions named Something_Fault are faulty variants of Something: what *)
(* the property they belong to would catch.  No action uses them.          *)

Init ==
    /\ Breaker!Init
    /\ permits = MaxConcurrency
    /\ inUse = 0
    /\ pc = [t \in Threads |-> "idle"]
    /\ attempt = [t \in Threads |-> 0]
    /\ slept = [t \in Threads |-> 0]
    /\ load = [t \in Threads |-> 0]
    /\ dependencyUp \in BOOLEAN

-----------------------------------------------------------------------------
(* backoff_delays: the ladder itself grows without bound, each delay taken *)
(* from it is cut.  Jitter sleeps for anything up to the delay.            *)
Grown[k \in Nat] == IF k = 0 THEN BaseDelay ELSE Grown[k - 1] * Multiplier

Delays_Uncapped == [k \in 1..(Attempts - 1) |-> Grown[k - 1]]

Delays ==
    [k \in 1..(Attempts - 1) |->
       IF Grown[k - 1] < MaxDelay THEN Grown[k - 1] ELSE MaxDelay]

GoTo(t, step) == pc' = [pc EXCEPT ![t] = step]

(* What the breaker's last opening left running is counted until it leaves *)
(* OPEN again.                                                             *)
Load(started) ==
    load' = IF state # "OPEN" \/ state' # "OPEN"
            THEN [u \in Threads |-> 0]
            ELSE [u \in Threads |->
                    IF u \in started THEN load[u] + 1 ELSE load[u]]

Quiet == UNCHANGED <<attempt, slept, dependencyUp>> /\ Load({})

-----------------------------------------------------------------------------
(* Bulkhead.call: the semaphore, waited for up to acquire_timeout ...      *)
Start(t) ==
    /\ pc[t] = "idle"
    /\ GoTo(t, "waiting")
    /\ UNCHANGED <<breakerVars, permits, inUse>> /\ Quiet

HasPermit_Unchecked == TRUE

HasPermit == permits > 0

Acquire(t) ==
    /\ pc[t] = "waiting"
    /\ HasPermit
    /\ permits' = permits - 1
    /\ GoTo(t, "entering")
    /\ UNCHANGED <<breakerVars, inUse>> /\ Quiet

(* ... which raises BulkheadFullError: the breaker never hears of it.      *)
Shed_Never(t) == FALSE /\ UNCHANGED vars

Shed(t) ==
    /\ pc[t] = "waiting"
    /\ ~HasPermit
    /\ GoTo(t, "idle")
    /\ UNCHANGED <<breakerVars, permits, inUse>> /\ Quiet

Enter(t) ==
    /\ pc[t] = "entering"
    /\ inUse' = inUse + 1
    /\ GoTo(t, "admitting")
    /\ UNCHANGED <<breakerVars, permits>> /\ Quiet

(* The finally clause: from wherever fn() ended, returning or raising.     *)
Finally_OnlyOnReturn(from) ==
    IF from = "returned" THEN "leaving" ELSE "idle"
Finally_KeepsCount(from) == "releasing"
Finally_NotWhenOpen(from) == IF from = "admitting" THEN "idle" ELSE "leaving"

Finally(from) == "leaving"

Leave(t) ==
    /\ pc[t] = "leaving"
    /\ inUse' = inUse - 1
    /\ GoTo(t, "releasing")
    /\ UNCHANGED <<breakerVars, permits>> /\ Quiet

Release(t) ==
    /\ pc[t] = "releasing"
    /\ permits' = permits + 1
    /\ GoTo(t, "idle")
    /\ attempt' = [attempt EXCEPT ![t] = 0]
    /\ slept' = [slept EXCEPT ![t] = 0]
    /\ UNCHANGED <<breakerVars, inUse, dependencyUp>> /\ Load({})

-----------------------------------------------------------------------------
(* CircuitBreaker.call around the retries.                                 *)
Admit(t) ==
    /\ pc[t] = "admitting"
    /\ Breaker!Admit(t)
    /\ GoTo(t, "ready")
    /\ UNCHANGED <<permits, inUse>> /\ Quiet

Reject(t) ==
    /\ pc[t] = "admitting"
    /\ Breaker!Reject(t)
    /\ GoTo(t, Finally(pc[t]))
    /\ UNCHANGED <<breakerVars, permits, inUse>> /\ Quiet

(* Whatever fn() raised counts, a refusal by the dependency as well.       *)
Report(t) ==
    /\ \/ pc[t] = "returned" /\ Breaker!OnSuccess(t)
       \/ pc[t] = "raised" /\ Breaker!OnFailure(t)
    /\ GoTo(t, Finally(pc[t]))
    /\ UNCHANGED <<permits, inUse>> /\ Quiet

-----------------------------------------------------------------------------
(* retry_with_backoff around one attempt of the client.                    *)
MoreAttempts(t) == attempt[t] < Attempts

Try(t) ==
    /\ pc[t] = "ready"
    /\ MoreAttempts(t)
    /\ attempt' = [attempt EXCEPT ![t] = @ + 1]
    /\ GoTo(t, "calling")
    /\ UNCHANGED <<breakerVars, permits, inUse, slept, dependencyUp>>
    /\ Load({t})

(* RetriesExhausted; with no attempts in the budget, before the first.     *)
Exhaust(t) ==
    /\ pc[t] = "ready"
    /\ ~MoreAttempts(t)
    /\ GoTo(t, "raised")
    /\ UNCHANGED <<breakerVars, permits, inUse>> /\ Quiet

Answered(t) ==
    /\ pc[t] = "calling"
    /\ GoTo(t, "returned")
    /\ UNCHANGED <<breakerVars, permits, inUse>> /\ Quiet

(* What is not in retry_on ends the ladder at once: a 4xx, or a body that  *)
(* cannot be read.                                                         *)
OutOfLadder_Unreported == "leaving"

OutOfLadder == "raised"

Refused(t) ==
    /\ pc[t] = "calling"
    /\ ~dependencyUp
    /\ GoTo(t, OutOfLadder)
    /\ UNCHANGED <<breakerVars, permits, inUse>> /\ Quiet

(* A timeout, a transport error or a 5xx: sleep, unless it was the last.   *)
Unavailable(t) ==
    /\ pc[t] = "calling"
    /\ ~dependencyUp
    /\ GoTo(t, "ready")
    /\ slept' = [slept EXCEPT ![t] =
                   @ + (IF MoreAttempts(t) THEN Delays[attempt[t]] ELSE 0)]
    /\ UNCHANGED <<breakerVars, permits, inUse, attempt, dependencyUp>>
    /\ Load({})

-----------------------------------------------------------------------------
(* probe reads the breaker's state, which may resolve an elapsed window,   *)
(* and in_use; it takes no permit and is no call of the breaker's.         *)
Probe ==
    /\ Breaker!ReadState
    /\ UNCHANGED <<permits, inUse, pc>> /\ Quiet

Tick ==
    /\ Breaker!Tick
    /\ UNCHANGED <<permits, inUse, pc>> /\ Quiet

Toggle ==
    /\ dependencyUp' = ~dependencyUp
    /\ UNCHANGED <<breakerVars, permits, inUse, callVars, load>>

CallStep(t) ==
    \/ Acquire(t) \/ Shed(t) \/ Enter(t) \/ Leave(t) \/ Release(t)
    \/ Admit(t) \/ Reject(t) \/ Report(t)
    \/ Try(t) \/ Exhaust(t) \/ Answered(t) \/ Refused(t)
    \/ Unavailable(t)

Next ==
    \/ \E t \in Threads : Start(t) \/ CallStep(t)
    \/ Probe \/ Tick \/ Toggle

(* Threads are scheduled, no wait for a permit, attempt or delay outlasts  *)
(* its timeout, requests keep arriving and time passes.                    *)
Fairness ==
    /\ \A t \in Threads : WF_vars(CallStep(t))
    /\ WF_vars(\E t \in Threads : Start(t))
    /\ WF_vars(Tick)

Spec == Init /\ [][Next]_vars /\ Fairness

-----------------------------------------------------------------------------
(* The types of the breaker, the bulkhead and the calls.                   *)
TypeOK ==
    /\ Breaker!TypeOK
    /\ permits \in 0..MaxConcurrency
    /\ inUse \in 0..MaxConcurrency
    /\ pc \in [Threads -> Steps]
    /\ attempt \in [Threads -> 0..Attempts]
    /\ load \in [Threads -> 0..Attempts]
    /\ dependencyUp \in BOOLEAN

At(steps) == {t \in Threads : pc[t] \in steps}

(* Every permit is free or held by a call that will give it back, and the  *)
(* counter the probe reports is the number of calls between its two        *)
(* updates: no rejection, refusal or exception leaks a permit, for good.   *)
PermitsExact ==
    /\ permits + Cardinality(At(Holding)) = MaxConcurrency
    /\ inUse = Cardinality(At(Inside))

(* What the breaker believes is running is what is running under it: every *)
(* call it let through, above all the HALF_OPEN trial that keeps all other *)
(* calls out, is still on its way to reporting, holding a permit.          *)
GuardedIsRunning ==
    /\ \A t \in Threads : running[t] # "idle" <=> pc[t] \in Guarded
    /\ trialInFlight => \E t \in Threads : pc[t] \in Guarded

(* While the breaker is OPEN the dependency is left alone but for calls    *)
(* admitted before: fewer than max_concurrency of them, as one had to fail *)
(* to open it, and none makes more than its attempts, however long their   *)
(* ladders outlast the opening.                                            *)
OpenBoundsLoad ==
    /\ Cardinality({t \in Threads : load[t] > 0}) < MaxConcurrency
    /\ \A t \in Threads : load[t] <= Attempts

(* The documented ladder: base_delay * multiplier^k after attempt k + 1,   *)
(* cut at max_delay; Ladder[n] is the sum of its first n delays.           *)
Power[n \in Nat] == IF n = 0 THEN 1 ELSE Power[n - 1] * Multiplier

Ladder[n \in Nat] ==
    IF n = 0 THEN 0
    ELSE Ladder[n - 1] + (IF BaseDelay * Power[n - 1] < MaxDelay
                          THEN BaseDelay * Power[n - 1] ELSE MaxDelay)

(* What a whole call may sleep: there are attempts - 1 pauses.             *)
Patience == Ladder[IF Attempts = 0 THEN 0 ELSE Attempts - 1]

(* No permit is held through more sleep than that ladder has between the   *)
(* attempts, and so never more than max_delay each: none after the last,   *)
(* none left over from the thread's call before.                           *)
SleepsWithinLadder == \A t \in Threads : slept[t] \in 0..Patience

(* A HALF_OPEN trial, here a whole retry ladder with a permit, gives its   *)
(* slot back however it ends: also when the dependency refuses it, with a  *)
(* 4xx that is not retried, or fails it for ever.  Otherwise the breaker   *)
(* would reject every call for good.                                       *)
TrialEnds == trialInFlight ~> ~trialInFlight

(* Every call ends, whatever the dependency does.                          *)
EveryCallEnds == \A t \in Threads : pc[t] # "idle" ~> pc[t] = "idle"

(* Once the dependency answers every attempt, the breaker closes for good: *)
(* its trial gets a permit, whoever else competes for them, and no call    *)
(* still in its ladder undoes that.                                        *)
Recovers == <>[]dependencyUp => <>[](state = "CLOSED")
=============================================================================
