--------------------------- MODULE GuardedCallProofs ---------------------------
(***************************************************************************)
(* What GuardedCall promises for every number of threads and permits,      *)
(* every attempt budget and every setting of the breaker.                  *)
(*                                                                         *)
(* In this order: permits, the breaker's bookkeeping, the load on an OPEN  *)
(* breaker's dependency, the sleeps, and the breaker's own promises, which *)
(* the calls inherit by implementing it.                                   *)
(***************************************************************************)
EXTENDS GuardedCall, FiniteSetTheorems, Recursion

-----------------------------------------------------------------------------
(* The types of the bulkhead, the calls and the load; the numbers' bounds  *)
(* come from counting permits, below.                                      *)
CallTypes ==
    /\ permits \in Int
    /\ inUse \in Int
    /\ pc \in [Threads -> Steps]
    /\ attempt \in [Threads -> 0..Attempts]
    /\ load \in [Threads -> Nat]

(* Steps keep these types.                                                 *)
LEMMA CallTypesStep == CallTypes /\ [Next]_vars => CallTypes'
<1> USE GuardAssumption DEF GuardAssumption
<1> SUFFICES ASSUME CallTypes, [Next]_vars PROVE CallTypes'
  OBVIOUS
<1> USE DEF CallTypes, Steps, Holding, Inside, Guarded, InLadder, GoTo, Quiet,
            Load
<1>1. ASSUME NEW t \in Threads, Start(t) PROVE CallTypes'
  BY <1>1 DEF Start
<1>2. ASSUME NEW t \in Threads, Acquire(t) \/ Shed(t) PROVE CallTypes'
  BY <1>2 DEF Acquire, Shed
<1>3. ASSUME NEW t \in Threads, Enter(t) \/ Leave(t) PROVE CallTypes'
  BY <1>3 DEF Enter, Leave
<1>4. ASSUME NEW t \in Threads, Release(t) PROVE CallTypes'
  BY <1>4 DEF Release
<1>5. ASSUME NEW t \in Threads, Admit(t) \/ Reject(t) PROVE CallTypes'
  BY <1>5 DEF Admit, Reject, Finally
<1>6. ASSUME NEW t \in Threads, Report(t) PROVE CallTypes'
  BY <1>6 DEF Report, Finally
<1>7. ASSUME NEW t \in Threads, Try(t) PROVE CallTypes'
  BY <1>7 DEF Try, MoreAttempts
<1>8. ASSUME NEW t \in Threads, Exhaust(t) \/ Answered(t) \/ Refused(t)
      PROVE  CallTypes'
  BY <1>8 DEF Exhaust, Answered, Refused, OutOfLadder
<1>9. ASSUME NEW t \in Threads, Unavailable(t) PROVE CallTypes'
  BY <1>9 DEF Unavailable
<1>10. CASE Probe \/ Tick \/ Toggle \/ UNCHANGED vars
  BY <1>10 DEF Probe, Tick, Toggle, callVars, vars
<1> QED
  BY <1>1, <1>2, <1>3, <1>4, <1>5, <1>6, <1>7, <1>8, <1>9, <1>10
     DEF Next, CallStep

-----------------------------------------------------------------------------
(* Counting permits.  A step moves one thread, into or out of a phase,     *)
(* which is a finite set of threads.                                       *)
LEMMA AtIsFinite == ASSUME NEW S PROVE IsFiniteSet(At(S))
BY GuardAssumption, FS_Subset DEF GuardAssumption, At

(* A thread that moves within a phase, or outside it, leaves its count.    *)
LEMMA SameCount ==
  ASSUME NEW S, NEW t \in Threads, NEW step, CallTypes, GoTo(t, step),
         pc[t] \in S <=> step \in S
  PROVE  At(S)' = At(S)
BY DEF At, GoTo, CallTypes

(* A thread that enters a phase adds one to its count.                     *)
LEMMA OneMore ==
  ASSUME NEW S, NEW t \in Threads, NEW step, CallTypes, GoTo(t, step),
         pc[t] \notin S, step \in S
  PROVE  Cardinality(At(S)') = Cardinality(At(S)) + 1
<1>1. At(S)' = At(S) \cup {t} /\ t \notin At(S)
  BY DEF At, GoTo, CallTypes
<1> QED
  BY <1>1, AtIsFinite, FS_AddElement

(* A thread that leaves a phase takes one from its count.                  *)
LEMMA OneLess ==
  ASSUME NEW S, NEW t \in Threads, NEW step, CallTypes, GoTo(t, step),
         pc[t] \in S, step \notin S
  PROVE  Cardinality(At(S)') = Cardinality(At(S)) - 1
<1>1. At(S)' = At(S) \ {t} /\ t \in At(S)
  BY DEF At, GoTo, CallTypes
<1> QED
  BY <1>1, AtIsFinite, FS_RemoveElement

PermitInv == CallTypes /\ permits >= 0 /\ PermitsExact

(* Steps keep the permits counted: only Acquire, Release, Enter and Leave  *)
(* cross the borders of a phase, and they move the counter it goes with.   *)
LEMMA PermitStep == PermitInv /\ [Next]_vars => PermitInv'
<1> USE GuardAssumption DEF GuardAssumption
<1> SUFFICES ASSUME PermitInv, [Next]_vars PROVE PermitsExact' /\ permits' >= 0
  BY CallTypesStep DEF PermitInv
<1> USE DEF PermitInv, Steps, Holding, Inside, Guarded, InLadder, Quiet
<1> DEFINE Counts == permits' >= 0 /\ PermitsExact'
<1>0. /\ Cardinality(At(Holding)) \in Nat
      /\ Cardinality(At(Inside)) \in Nat
      /\ permits \in Int /\ inUse \in Int
  BY AtIsFinite, FS_CardinalityType DEF CallTypes
<1>1. ASSUME NEW t \in Threads, NEW step,
             UNCHANGED <<permits, inUse>>, GoTo(t, step),
             pc[t] \in Holding <=> step \in Holding,
             pc[t] \in Inside <=> step \in Inside
      PROVE  Counts
  <2>1. At(Holding)' = At(Holding) /\ At(Inside)' = At(Inside)
    BY <1>1, SameCount, Zenon
  <2> QED
    BY <1>1, <2>1 DEF PermitsExact
<1>2. ASSUME NEW t \in Threads, Start(t) \/ Shed(t) PROVE Counts
  BY <1>1, <1>2 DEF Start, Shed
<1>3. ASSUME NEW t \in Threads, Admit(t) PROVE Counts
  BY <1>1, <1>3 DEF Admit
<1>4. ASSUME NEW t \in Threads, Reject(t) PROVE Counts
  BY <1>1, <1>4 DEF Reject, Finally
<1>5. ASSUME NEW t \in Threads, Report(t) PROVE Counts
  BY <1>1, <1>5 DEF Report, Finally
<1>6. ASSUME NEW t \in Threads,
             Try(t) \/ Exhaust(t) \/ Answered(t) \/ Refused(t) \/ Unavailable(t)
      PROVE  Counts
  BY <1>1, <1>6 DEF Try, Exhaust, Answered, Refused, OutOfLadder, Unavailable
<1>7. ASSUME NEW t \in Threads, Acquire(t) PROVE Counts
  <2>1. GoTo(t, "entering") /\ pc[t] = "waiting"
    BY <1>7 DEF Acquire
  <2>2. Cardinality(At(Holding)') = Cardinality(At(Holding)) + 1
    BY <2>1, OneMore
  <2>3. At(Inside)' = At(Inside)
    BY <2>1, SameCount
  <2> QED
    BY <1>0, <1>7, <2>2, <2>3 DEF Acquire, HasPermit, PermitsExact
<1>8. ASSUME NEW t \in Threads, Enter(t) PROVE Counts
  <2>1. GoTo(t, "admitting") /\ pc[t] = "entering"
    BY <1>8 DEF Enter
  <2>2. Cardinality(At(Inside)') = Cardinality(At(Inside)) + 1
    BY <2>1, OneMore
  <2>3. At(Holding)' = At(Holding)
    BY <2>1, SameCount
  <2> QED
    BY <1>0, <1>8, <2>2, <2>3 DEF Enter, PermitsExact
<1>9. ASSUME NEW t \in Threads, Leave(t) PROVE Counts
  <2>1. GoTo(t, "releasing") /\ pc[t] = "leaving"
    BY <1>9 DEF Leave
  <2>2. Cardinality(At(Inside)') = Cardinality(At(Inside)) - 1
    BY <2>1, OneLess
  <2>3. At(Holding)' = At(Holding)
    BY <2>1, SameCount
  <2> QED
    BY <1>0, <1>9, <2>2, <2>3 DEF Leave, PermitsExact
<1>10. ASSUME NEW t \in Threads, Release(t) PROVE Counts
  <2>1. GoTo(t, "idle") /\ pc[t] = "releasing"
    BY <1>10 DEF Release
  <2>2. Cardinality(At(Holding)') = Cardinality(At(Holding)) - 1
    BY <2>1, OneLess
  <2>3. At(Inside)' = At(Inside)
    BY <2>1, SameCount
  <2> QED
    BY <1>0, <1>10, <2>2, <2>3 DEF Release, PermitsExact
<1>11. CASE Probe \/ Tick \/ Toggle \/ UNCHANGED vars
  BY <1>11 DEF Probe, Tick, Toggle, callVars, vars, PermitsExact, At
<1> QED
  BY <1>2, <1>3, <1>4, <1>5, <1>6, <1>7, <1>8, <1>9, <1>10, <1>11
     DEF Next, CallStep

(* The count holds in every behaviour.                                     *)
LEMMA PermitInvariant == Spec => []PermitInv
<1> USE GuardAssumption DEF GuardAssumption
<1>1. Init => PermitInv
  <2> SUFFICES ASSUME Init PROVE PermitInv
    OBVIOUS
  <2>1. CallTypes
    BY DEF Init, CallTypes, Steps
  <2>2. At(Holding) = {} /\ At(Inside) = {}
    BY DEF Init, At, Holding, Inside, Guarded, InLadder
  <2> QED
    BY <2>1, <2>2, FS_EmptySet DEF Init, PermitInv, PermitsExact
<1> QED
  BY <1>1, PermitStep, PTL DEF Spec

(* Permits are never lost and never made up, whatever calls end in.        *)
THEOREM PermitsCounted == Spec => []PermitsExact
<1>1. PermitInv => PermitsExact
  BY DEF PermitInv
<1> QED
  BY <1>1, PermitInvariant, PTL

-----------------------------------------------------------------------------
(* The breaker's types, the flags apart from the counters, and the trial   *)
(* slot.                                                                   *)
FieldTypes ==
    /\ state \in {"CLOSED", "OPEN", "HALF_OPEN"}
    /\ failures \in 0..FailureThreshold
    /\ openedFor \in 0..RecoveryTicks
    /\ running \in [Threads -> {"idle", "normal", "trial", "stale"}]
    /\ sinceFailure \in 0..RecoveryTicks

FlagTypes == trialInFlight \in BOOLEAN /\ dependencyUp \in BOOLEAN

(* Steps keep the flags' types ...                                         *)
LEMMA FlagTypesStep == FlagTypes /\ [Next]_vars => FlagTypes'
BY DEF FlagTypes, Next, CallStep, vars, breakerVars, callVars, Quiet, Start,
       Acquire, Shed, Enter, Leave, Release, Admit, Reject, Report, Try, Exhaust,
       Answered, Refused, Unavailable, Probe, Tick, Toggle, Breaker!Admit,
       Breaker!OnSuccess, Breaker!OnFailure, Breaker!ReadState, Breaker!Tick,
       Breaker!TrialTaken, Breaker!ForceClosed

(* ... and those of the other fields.                                      *)
LEMMA FieldTypesStep == FieldTypes /\ [Next]_vars => FieldTypes'
<1> USE GuardAssumption DEF GuardAssumption
<1> SUFFICES ASSUME FieldTypes, [Next]_vars PROVE FieldTypes'
  OBVIOUS
<1> USE DEF FieldTypes
<1>1. ASSUME UNCHANGED breakerVars PROVE FieldTypes'
  BY <1>1 DEF breakerVars
<1>2. ASSUME NEW t \in Threads, Admit(t) PROVE FieldTypes'
  BY <1>2 DEF Admit, Breaker!Admit, Breaker!Resolved
<1>3. ASSUME NEW t \in Threads, Breaker!OnSuccess(t) PROVE FieldTypes'
  BY <1>3 DEF Breaker!OnSuccess, Breaker!ForceClosed, Breaker!Stale
<1>4. ASSUME NEW t \in Threads, Breaker!OnFailure(t) PROVE FieldTypes'
  BY <1>4 DEF Breaker!OnFailure, Breaker!ShouldOpen, Breaker!UpTo, Breaker!Stale
<1>5. ASSUME NEW t \in Threads, Start(t) \/ CallStep(t) PROVE FieldTypes'
  <2> USE <1>1
  <2>1. CASE Start(t) \/ Acquire(t) \/ Shed(t) \/ Enter(t) \/ Leave(t)
    BY <2>1 DEF Start, Acquire, Shed, Enter, Leave
  <2>2. CASE Release(t) \/ Reject(t)
    BY <2>2 DEF Release, Reject
  <2>3. CASE Try(t) \/ Exhaust(t) \/ Answered(t) \/ Refused(t) \/ Unavailable(t)
    BY <2>3 DEF Try, Exhaust, Answered, Refused, Unavailable
  <2>4. CASE Report(t)
    BY <2>4, <1>3, <1>4 DEF Report
  <2> QED
    BY <1>2, <1>5, <2>1, <2>2, <2>3, <2>4 DEF CallStep
<1>6. CASE Probe
  BY <1>6 DEF Probe, Breaker!ReadState, Breaker!Resolved
<1>7. CASE Tick
  BY <1>7 DEF Tick, Breaker!Tick, Breaker!UpTo
<1>8. CASE Toggle \/ UNCHANGED vars
  BY <1>8, <1>1 DEF Toggle, vars, breakerVars
<1> QED
  BY <1>5, <1>6, <1>7, <1>8 DEF Next

(* The slot is taken by a call the breaker remembers.                      *)
GuardInv ==
    /\ FieldTypes
    /\ FlagTypes
    /\ CallTypes
    /\ \A t \in Threads : running[t] # "idle" <=> pc[t] \in Guarded
    /\ trialInFlight => \E t \in Threads : running[t] = "trial"

(* Each layer hands a call to the next in the step that registers it.      *)
LEMMA GuardStep == GuardInv /\ [Next]_vars => GuardInv'
<1> SUFFICES ASSUME GuardInv, [Next]_vars
             PROVE  /\ (\A t \in Threads : running[t] # "idle" <=> pc[t] \in Guarded)'
                    /\ (trialInFlight => \E t \in Threads : running[t] = "trial")'
  BY CallTypesStep, FieldTypesStep, FlagTypesStep DEF GuardInv
<1> DEFINE Kept ==
      /\ (\A t \in Threads : running[t] # "idle" <=> pc[t] \in Guarded)'
      /\ (trialInFlight => \E t \in Threads : running[t] = "trial")'
<1> USE DEF GuardInv, CallTypes, FieldTypes, GoTo
<1>1. ASSUME NEW t \in Threads, NEW step, UNCHANGED breakerVars, GoTo(t, step),
             pc[t] \in Guarded <=> step \in Guarded
      PROVE  Kept
  BY <1>1 DEF breakerVars
<1>2. ASSUME NEW t \in Threads, Admit(t) PROVE Kept
  BY <1>2 DEF Admit, Breaker!Admit, Breaker!Resolved, Breaker!TrialTaken,
              Guarded, InLadder
<1>3. ASSUME NEW t \in Threads, Report(t) PROVE Kept
  <2>1. pc' = [pc EXCEPT ![t] = "leaving"] /\ ~trialInFlight'
    BY <1>3 DEF Report, Finally, Breaker!OnSuccess, Breaker!OnFailure,
                Breaker!ForceClosed
  <2>2. \A u \in Threads :
          running'[u] = "idle" <=> (u = t \/ running[u] = "idle")
    BY <1>3 DEF Report, Breaker!OnSuccess, Breaker!OnFailure, Breaker!Stale
  <2> QED
    BY <2>1, <2>2 DEF Guarded, InLadder
<1>4. ASSUME NEW t \in Threads, Start(t) \/ CallStep(t) PROVE Kept
  <2> USE <1>1 DEF Guarded, InLadder
  <2>1. CASE Start(t) \/ Acquire(t) \/ Shed(t) \/ Enter(t) \/ Leave(t)
    BY <2>1 DEF Start, Acquire, Shed, Enter, Leave
  <2>2. CASE Release(t) \/ Reject(t)
    BY <2>2 DEF Release, Reject, Finally
  <2>3. CASE Try(t) \/ Exhaust(t) \/ Answered(t) \/ Refused(t) \/ Unavailable(t)
    BY <2>3 DEF Try, Exhaust, Answered, Refused, OutOfLadder, Unavailable
  <2> QED
    BY <1>2, <1>3, <1>4, <2>1, <2>2, <2>3 DEF CallStep
<1>5. CASE Probe
  BY <1>5 DEF Probe, Breaker!ReadState, Breaker!TrialTaken
<1>6. CASE Tick \/ Toggle \/ UNCHANGED vars
  BY <1>6 DEF Tick, Breaker!Tick, Toggle, vars, breakerVars, callVars
<1> QED
  BY <1>4, <1>5, <1>6 DEF Next

(* Breaker and calls agree in every behaviour.                             *)
LEMMA GuardInvariant == Spec => []GuardInv
<1> USE GuardAssumption DEF GuardAssumption
<1>1. Init => GuardInv
  <2> SUFFICES ASSUME Init PROVE GuardInv
    OBVIOUS
  <2> USE DEF Init, Breaker!Init
  <2>1. FieldTypes
    BY DEF FieldTypes
  <2>2. FlagTypes
    BY Zenon DEF FlagTypes
  <2>3. CallTypes
    BY DEF CallTypes, Steps
  <2>4. \A t \in Threads : running[t] # "idle" <=> pc[t] \in Guarded
    BY DEF Guarded, InLadder
  <2> QED
    BY <2>1, <2>2, <2>3, <2>4 DEF GuardInv
<1> QED
  BY <1>1, GuardStep, PTL DEF Spec

(* No call the breaker waits for gets lost between its layers.             *)
THEOREM NoCallForgotten == Spec => []GuardedIsRunning
<1>1. GuardInv => GuardedIsRunning
  BY DEF GuardInv, GuardedIsRunning
<1> QED
  BY <1>1, GuardInvariant, PTL

-----------------------------------------------------------------------------
(* The load on an OPEN breaker's dependency: what it was opened over is    *)
(* fewer calls than there are permits, for the one that failed holds one,  *)
(* and no call is admitted while it stays OPEN.                            *)
Loading == {t \in Threads : load[t] > 0 \/ pc[t] \in InLadder}

LoadInv ==
    /\ \A t \in Threads : load[t] <= Attempts
    /\ \A t \in Threads : pc[t] \in InLadder => load[t] <= attempt[t]
    /\ state # "OPEN" => \A t \in Threads : load[t] = 0
    /\ state = "OPEN" => Cardinality(Loading) < MaxConcurrency

(* What the bound is proved from.                                          *)
SoundCalls == GuardInv /\ PermitInv

(* While OPEN the set of calls that load the dependency only shrinks.      *)
LEMMA LoadingShrinks ==
  ASSUME IsFiniteSet(Loading), Loading' \subseteq Loading,
         state = "OPEN", LoadInv
  PROVE  Cardinality(Loading') < MaxConcurrency
<1> USE GuardAssumption DEF GuardAssumption
<1>1. /\ Cardinality(Loading') <= Cardinality(Loading)
      /\ Cardinality(Loading') \in Nat
      /\ Cardinality(Loading) \in Nat
  BY FS_Subset, FS_CardinalityType
<1> QED
  BY <1>1 DEF LoadInv

(* Opening: the reporter is out of its ladder and holds a permit.          *)
LEMMA OpeningLoad ==
  ASSUME SoundCalls, NEW t \in Threads, pc[t] = "raised", GoTo(t, "leaving"),
         load' = [u \in Threads |-> 0]
  PROVE  Cardinality(Loading') < MaxConcurrency
<1> USE GuardAssumption DEF GuardAssumption, SoundCalls, GuardInv, PermitInv
<1>1. Loading' \subseteq At(Holding) \ {t} /\ t \in At(Holding)
  BY DEF Loading, At, CallTypes, GoTo, InLadder, Holding, Inside, Guarded
<1>2. /\ IsFiniteSet(At(Holding) \ {t})
      /\ Cardinality(At(Holding) \ {t}) = Cardinality(At(Holding)) - 1
  BY <1>1, AtIsFinite, FS_RemoveElement
<1>3. Cardinality(Loading') <= Cardinality(At(Holding) \ {t})
  BY <1>1, <1>2, FS_Subset
<1>4. IsFiniteSet(Loading') /\ Cardinality(Loading') \in Nat
  BY <1>1, <1>2, FS_Subset, FS_CardinalityType
<1>5. Cardinality(At(Holding)) \in Nat
  BY AtIsFinite, FS_CardinalityType
<1> QED
  BY <1>2, <1>3, <1>4, <1>5 DEF PermitsExact, CallTypes

(* Only Try adds load, only opening starts the count afresh, and only      *)
(* Admit brings in a new call, which an OPEN breaker does not.             *)
LEMMA LoadStep == SoundCalls /\ LoadInv /\ [Next]_vars => LoadInv'
<1> USE GuardAssumption DEF GuardAssumption, SoundCalls, GuardInv, FieldTypes,
        CallTypes, InLadder
<1> SUFFICES ASSUME SoundCalls, LoadInv, [Next]_vars PROVE LoadInv'
  OBVIOUS
<1>0. IsFiniteSet(Loading)
  BY FS_Subset DEF Loading
(* Steps other than Try start nothing.                                     *)
<1>1. ASSUME NEW t \in Threads, NEW step, GoTo(t, step), Load({}), UNCHANGED state,
             attempt'[t] = attempt[t] \/ step \notin InLadder,
             \A u \in Threads \ {t} : attempt'[u] = attempt[u],
             step \in InLadder => pc[t] \in InLadder
      PROVE  LoadInv'
  <2>1. CASE state # "OPEN"
    BY <1>1, <2>1 DEF Load, LoadInv, GoTo
  <2>2. CASE state = "OPEN"
    <3>1. load' = load
      BY <1>1, <2>2 DEF Load
    <3>2. Loading' \subseteq Loading
      BY <1>1, <3>1 DEF Loading, GoTo
    <3> QED
      BY <1>0, <1>1, <2>2, <3>1, <3>2, LoadingShrinks DEF LoadInv, GoTo
  <2> QED
    BY <2>1, <2>2
<1>2. ASSUME NEW t \in Threads, Try(t) PROVE LoadInv'
  <2> USE <1>2 DEF Try, MoreAttempts, breakerVars, Load, GoTo
  <2>1. CASE state # "OPEN"
    BY <2>1 DEF LoadInv
  <2>2. CASE state = "OPEN"
    <3>1. load' = [u \in Threads |-> IF u \in {t} THEN load[u] + 1 ELSE load[u]]
      BY <2>2
    <3>2. Loading' \subseteq Loading
      BY <3>1 DEF Loading
    <3>3. load'[t] = load[t] + 1 /\ load[t] <= attempt[t] /\ attempt[t] < Attempts
      BY <3>1 DEF LoadInv
    <3> QED
      BY <1>0, <2>2, <3>1, <3>2, <3>3, LoadingShrinks DEF LoadInv
  <2> QED
    BY <2>1, <2>2
<1>3. ASSUME NEW t \in Threads, Admit(t) PROVE LoadInv'
  <2>1. state' # "OPEN"
    BY <1>3 DEF Admit, Breaker!Admit, Breaker!Resolved
  <2>2. load' = [u \in Threads |-> 0] /\ attempt' = attempt
    BY <1>3, <2>1 DEF Admit, Quiet, Load
  <2> QED
    BY <2>1, <2>2 DEF LoadInv
<1>4. ASSUME NEW t \in Threads, Report(t) PROVE LoadInv'
  <2>1. /\ GoTo(t, "leaving") /\ Load({}) /\ attempt' = attempt
        /\ pc[t] \notin InLadder
    BY <1>4 DEF Report, Finally, Quiet
  <2>2. CASE state' # "OPEN"
    BY <2>1, <2>2 DEF Load, LoadInv
  <2>3. CASE state = "OPEN" /\ state' = "OPEN"
    BY <1>1, <2>1, <2>3
  <2>4. CASE state # "OPEN" /\ state' = "OPEN"
    <3>1. pc[t] = "raised"
      BY <1>4, <2>4 DEF Report, Breaker!OnSuccess, Breaker!ForceClosed
    <3>2. load' = [u \in Threads |-> 0]
      BY <2>1, <2>4 DEF Load
    <3>3. Cardinality(Loading') < MaxConcurrency
      BY <2>1, <3>1, <3>2, OpeningLoad
    <3> QED
      BY <2>1, <2>4, <3>2, <3>3 DEF LoadInv
  <2> QED
    BY <2>2, <2>3, <2>4
<1>5. ASSUME NEW t \in Threads, Start(t) \/ CallStep(t) PROVE LoadInv'
  <2> USE <1>1 DEF Quiet, breakerVars
  <2>1. CASE Start(t) \/ Acquire(t) \/ Shed(t)
    BY <2>1 DEF Start, Acquire, Shed
  <2>2. CASE Enter(t) \/ Leave(t) \/ Reject(t)
    BY <2>2 DEF Enter, Leave, Reject, Finally
  <2>3. CASE Release(t)
    BY <2>3 DEF Release
  <2>4. CASE Exhaust(t) \/ Answered(t) \/ Refused(t)
    BY <2>4 DEF Exhaust, Answered, Refused, OutOfLadder
  <2>5. CASE Unavailable(t)
    BY <2>5 DEF Unavailable
  <2> QED
    BY <1>2, <1>3, <1>4, <1>5, <2>1, <2>2, <2>3, <2>4, <2>5 DEF CallStep
<1>6. CASE Probe \/ Tick
  <2>1. UNCHANGED <<pc, attempt>> /\ Load({})
    BY <1>6 DEF Probe, Tick, Quiet
  <2>2. state' = state \/ (state = "OPEN" /\ state' # "OPEN")
    BY <1>6 DEF Probe, Tick, Breaker!ReadState, Breaker!Tick, Breaker!Resolved,
                Breaker!WindowElapsed
  <2>3. CASE state' # "OPEN"
    BY <2>1, <2>3 DEF LoadInv, Load
  <2>4. CASE state' = "OPEN"
    <3>1. state = "OPEN" /\ load' = load
      BY <2>1, <2>2, <2>4 DEF Load
    <3> QED
      BY <2>1, <2>4, <3>1 DEF LoadInv, Loading
  <2> QED
    BY <2>3, <2>4
<1>7. CASE Toggle \/ UNCHANGED vars
  BY <1>7 DEF Toggle, vars, breakerVars, callVars, LoadInv, Loading
<1> QED
  BY <1>5, <1>6, <1>7 DEF Next

(* The bound holds in every behaviour.                                     *)
LEMMA LoadInvariant == Spec => [](SoundCalls /\ LoadInv)
<1> USE GuardAssumption DEF GuardAssumption
<1>1. Init => LoadInv
  BY DEF Init, Breaker!Init, LoadInv, InLadder
<1>2. Spec => []SoundCalls
  BY GuardInvariant, PermitInvariant, PTL DEF SoundCalls
<1> QED
  BY <1>1, <1>2, LoadStep, PTL DEF Spec

(* Opening the breaker bounds what the dependency still has to bear.       *)
THEOREM OpenShields == Spec => []OpenBoundsLoad
<1> USE GuardAssumption DEF GuardAssumption
<1>1. SoundCalls /\ LoadInv => OpenBoundsLoad
  <2> SUFFICES ASSUME SoundCalls, LoadInv
               PROVE  Cardinality({t \in Threads : load[t] > 0}) < MaxConcurrency
    BY DEF OpenBoundsLoad, LoadInv
  <2> DEFINE Hit == {t \in Threads : load[t] > 0}
  <2>1. CASE state = "OPEN"
    <3>1. Hit \subseteq Loading /\ IsFiniteSet(Loading)
      BY FS_Subset DEF Loading
    <3>2. /\ Cardinality(Hit) <= Cardinality(Loading)
          /\ Cardinality(Hit) \in Nat /\ Cardinality(Loading) \in Nat
      BY <3>1, FS_Subset, FS_CardinalityType
    <3> QED
      BY <2>1, <3>2 DEF LoadInv
  <2>2. CASE state # "OPEN"
    <3>1. Hit = {}
      BY <2>2 DEF LoadInv
    <3> QED
      BY <3>1, FS_EmptySet
  <2> QED
    BY <2>1, <2>2
<1> QED
  BY <1>1, LoadInvariant, PTL

(* The types, with the bounds that counting gave the numbers.              *)
THEOREM TypeCorrect == Spec => []TypeOK
<1> USE GuardAssumption DEF GuardAssumption
<1>1. SoundCalls /\ LoadInv => TypeOK
  <2> SUFFICES ASSUME SoundCalls, LoadInv PROVE TypeOK
    OBVIOUS
  <2> USE DEF SoundCalls, GuardInv, PermitInv
  <2>1. Breaker!TypeOK
    BY DEF Breaker!TypeOK, FieldTypes, FlagTypes, Breaker!BreakerStates,
           Breaker!Calls
  <2>2. /\ Cardinality(At(Holding)) \in Nat
        /\ Cardinality(At(Inside)) \in Nat
        /\ Cardinality(At(Inside)) <= Cardinality(At(Holding))
    <3>1. At(Inside) \subseteq At(Holding)
      BY DEF At, Holding
    <3> QED
      BY <3>1, AtIsFinite, FS_Subset, FS_CardinalityType
  <2>3. permits \in 0..MaxConcurrency /\ inUse \in 0..MaxConcurrency
    BY <2>2 DEF PermitsExact, CallTypes
  <2>4. load \in [Threads -> 0..Attempts]
    BY DEF CallTypes, LoadInv
  <2> QED
    BY <2>1, <2>3, <2>4 DEF TypeOK, CallTypes, FlagTypes
<1> QED
  BY <1>1, LoadInvariant, PTL
-----------------------------------------------------------------------------
(* The delays are geometric, both as the code grows them and as they are   *)
(* documented.                                                             *)
Geometric(f, first) ==
    f = [k \in Nat |-> IF k = 0 THEN first ELSE f[k - 1] * Multiplier]

(* There is such a function ...                                            *)
LEMMA GeometricExists ==
  ASSUME NEW first \in Nat
  PROVE  \E f : Geometric(f, first)
<1> USE GuardAssumption DEF GuardAssumption
<1> DEFINE next == [p \in Nat \X Nat |-> p[2] * Multiplier]
<1>1. /\ next \in [Nat \X Nat -> Nat]
      /\ \A n, d \in Nat : next[<<n, d>>] = d * Multiplier
  OBVIOUS
<1> HIDE DEF next
<1>2. PICK f \in [Nat -> Nat] : Recurs(f, first, next)
  BY <1>1, RecursiveFunction
<1>3. ASSUME NEW k \in Nat \ {0} PROVE f[k] = f[k - 1] * Multiplier
  <2>1. k - 1 \in Nat /\ (k - 1) + 1 = k
    OBVIOUS
  <2> QED
    BY <1>1, <1>2, <2>1 DEF Recurs
<1> QED
  BY <1>2, <1>3 DEF Recurs, Geometric

(* ... which is a number everywhere and grows by the multiplier.           *)
LEMMA GeometricRecurs ==
  ASSUME NEW first \in Nat, NEW f, Geometric(f, first)
  PROVE  /\ \A n \in Nat : f[n] \in Nat
         /\ f[0] = first
         /\ \A n \in Nat : f[n + 1] = f[n] * Multiplier
<1> USE GuardAssumption DEF GuardAssumption
<1> DEFINE Numbers == {n \in Nat : f[n] \in Nat}
<1>1. f[0] = first /\ \A n \in Nat : f[n + 1] = f[n] * Multiplier
  BY DEF Geometric
<1>2. 0 \in Numbers /\ \A n \in Nat : n \in Numbers => n + 1 \in Numbers
  BY <1>1
<1> HIDE DEF Numbers
<1>3. \A n \in Nat : n \in Numbers
  BY <1>2, SetInduction
<1> QED
  BY <1>1, <1>3 DEF Numbers

(* So are the delay as backoff_delays grows it ...                         *)
LEMMA GrownRecurs ==
  /\ \A n \in Nat : Grown[n] \in Nat
  /\ Grown[0] = BaseDelay
  /\ \A n \in Nat : Grown[n + 1] = Grown[n] * Multiplier
<1>1. Grown = CHOOSE f : Geometric(f, BaseDelay)
  BY DEF Grown, Geometric
<1>2. BaseDelay \in Nat
  BY GuardAssumption DEF GuardAssumption
<1>3. Geometric(Grown, BaseDelay)
  BY <1>1, <1>2, GeometricExists
<1> QED
  BY <1>2, <1>3, GeometricRecurs

(* ... and the factor between the delays as they are documented.           *)
LEMMA PowerRecurs ==
  /\ \A n \in Nat : Power[n] \in Nat
  /\ Power[0] = 1
  /\ \A n \in Nat : Power[n + 1] = Power[n] * Multiplier
<1>1. Power = CHOOSE f : Geometric(f, 1)
  BY DEF Power, Geometric
<1>2. Geometric(Power, 1)
  BY <1>1, GeometricExists
<1> QED
  BY <1>2, GeometricRecurs

(* backoff_delays multiplies as it goes; that is the documented formula.   *)
LEMMA GrownIsDocumented == \A k \in Nat : Grown[k] = BaseDelay * Power[k]
<1> USE GuardAssumption DEF GuardAssumption
<1> DEFINE Same == {k \in Nat : Grown[k] = BaseDelay * Power[k]}
<1>1. 0 \in Same
  BY GrownRecurs, PowerRecurs
<1>2. ASSUME NEW k \in Nat, k \in Same PROVE k + 1 \in Same
  <2> DEFINE p == Power[k]
  <2>1. Grown[k + 1] = (BaseDelay * p) * Multiplier
    BY <1>2, GrownRecurs
  <2>2. BaseDelay * Power[k + 1] = BaseDelay * (p * Multiplier)
    BY PowerRecurs
  <2>3. p \in Nat
    BY PowerRecurs
  <2> HIDE DEF p
  <2>4. (BaseDelay * p) * Multiplier = BaseDelay * (p * Multiplier)
    BY <2>3
  <2> QED
    BY <2>1, <2>2, <2>4
<1> HIDE DEF Same
<1>3. \A k \in Nat : k \in Same
  BY <1>1, <1>2, SetInduction
<1> QED
  BY <1>3 DEF Same

(* max_delay's cut.                                                        *)
Cut(delay) == IF delay < MaxDelay THEN delay ELSE MaxDelay

(* The ladder's sums, as a recurrence.                                     *)
LEMMA LadderRecurs ==
  /\ \A n \in Nat : Ladder[n] \in Nat
  /\ Ladder[0] = 0
  /\ \A n \in Nat : Ladder[n + 1] = Ladder[n] + Cut(BaseDelay * Power[n])
<1> USE GuardAssumption DEF GuardAssumption
<1> DEFINE next == [p \in Nat \X Nat |-> p[2] + Cut(BaseDelay * Power[p[1]])]
    Sums(f) == f = [n \in Nat |-> IF n = 0 THEN 0
                                  ELSE f[n - 1] + Cut(BaseDelay * Power[n - 1])]
<1>1. \A n \in Nat : Cut(BaseDelay * Power[n]) \in Nat
  BY PowerRecurs DEF Cut
<1>2. /\ next \in [Nat \X Nat -> Nat]
      /\ \A n, s \in Nat : next[<<n, s>>] = s + Cut(BaseDelay * Power[n])
  BY <1>1
<1> HIDE DEF next
<1>3. PICK f \in [Nat -> Nat] : Recurs(f, 0, next)
  BY <1>2, RecursiveFunction
<1>4. ASSUME NEW k \in Nat \ {0}
      PROVE  f[k] = f[k - 1] + Cut(BaseDelay * Power[k - 1])
  <2>1. k - 1 \in Nat /\ (k - 1) + 1 = k
    OBVIOUS
  <2> QED
    BY <1>2, <1>3, <2>1 DEF Recurs
<1>5. Sums(f)
  BY <1>3, <1>4 DEF Recurs
<1>6. Ladder = CHOOSE g : Sums(g)
  BY DEF Ladder, Cut
<1> HIDE DEF Sums
<1>7. Sums(Ladder)
  BY <1>5, <1>6
<1>8. /\ Ladder[0] = 0
      /\ \A n \in Nat : Ladder[n + 1] = Ladder[n] + Cut(BaseDelay * Power[n])
  BY <1>7 DEF Sums
<1> DEFINE Numbers == {n \in Nat : Ladder[n] \in Nat}
<1>9. 0 \in Numbers /\ \A n \in Nat : n \in Numbers => n + 1 \in Numbers
  BY <1>1, <1>8
<1> HIDE DEF Numbers
<1>10. \A n \in Nat : n \in Numbers
  BY <1>9, SetInduction
<1> QED
  BY <1>8, <1>10 DEF Numbers

(* The ladder's sums grow, by at most max_delay a step.                    *)
LEMMA LadderGrows ==
  /\ \A m \in Nat : \A n \in 0..m : Ladder[n] <= Ladder[m]
  /\ \A n \in Nat : Ladder[n] <= n * MaxDelay
<1> USE GuardAssumption DEF GuardAssumption
<1> DEFINE Below == {n \in Nat : Ladder[n] <= n * MaxDelay}
<1>1. \A n \in Nat : /\ BaseDelay * Power[n] \in Nat
                     /\ Ladder[n] \in Nat
  BY PowerRecurs, LadderRecurs
<1>2. \A n \in Nat : /\ Ladder[n] <= Ladder[n + 1]
                     /\ Ladder[n + 1] <= Ladder[n] + MaxDelay
  <2> SUFFICES ASSUME NEW n \in Nat
               PROVE  /\ Ladder[n] <= Ladder[n + 1]
                      /\ Ladder[n + 1] <= Ladder[n] + MaxDelay
    OBVIOUS
  <2> DEFINE d == BaseDelay * Power[n]
  <2>1. d \in Nat /\ Ladder[n] \in Nat /\ Ladder[n + 1] = Ladder[n] + Cut(d)
    BY <1>1, LadderRecurs
  <2> HIDE DEF d
  <2> QED
    BY <2>1 DEF Cut
<1>3. 0 \in Below
  BY LadderRecurs
<1>4. ASSUME NEW n \in Nat, n \in Below PROVE n + 1 \in Below
  <2>1. (n + 1) * MaxDelay = n * MaxDelay + MaxDelay
    OBVIOUS
  <2> QED
    BY <1>1, <1>2, <1>4, <2>1
<1> HIDE DEF Below
<1>5. \A n \in Nat : n \in Below
  BY <1>3, <1>4, SetInduction
<1> DEFINE Top == {m \in Nat : \A n \in 0..m : Ladder[n] <= Ladder[m]}
<1>6. 0 \in Top
  BY <1>1
<1>7. ASSUME NEW m \in Nat, m \in Top PROVE m + 1 \in Top
  <2> SUFFICES ASSUME NEW n \in 0..(m + 1) PROVE Ladder[n] <= Ladder[m + 1]
    OBVIOUS
  <2>1. CASE n = m + 1
    BY <1>1, <2>1
  <2>2. CASE n \in 0..m
    BY <1>1, <1>2, <1>7, <2>2
  <2> QED
    BY <2>1, <2>2
<1> HIDE DEF Top
<1>8. \A m \in Nat : m \in Top
  BY <1>6, <1>7, SetInduction
<1> QED
  BY <1>5, <1>8 DEF Below, Top

(* The delay after attempt k is what the ladder's k-th step adds.          *)
LEMMA DelayIsStep ==
  ASSUME NEW k \in 1..(Attempts - 1)
  PROVE  Ladder[k] = Ladder[k - 1] + Delays[k]
<1>1. k - 1 \in Nat /\ (k - 1) + 1 = k
  OBVIOUS
<1>2. Delays[k] = Cut(BaseDelay * Power[k - 1])
  BY <1>1, GrownIsDocumented DEF Delays, Cut
<1> QED
  BY <1>1, <1>2, LadderRecurs

(* The sleeps of a call: one per failed attempt, but for the last of the   *)
(* budget.                                                                 *)
Sleeps(t) ==
    IF attempt[t] = 0 THEN 0
    ELSE IF pc[t] = "ready" /\ MoreAttempts(t) THEN attempt[t]
    ELSE attempt[t] - 1

(* A call has slept exactly the ladder's part for them, and one that has   *)
(* not got past the breaker has made no attempt, nor slept.                *)
SleepInv ==
    /\ slept \in [Threads -> Nat]
    /\ \A t \in Threads : slept[t] = Ladder[Sleeps(t)]
    /\ \A t \in Threads : pc[t] = "calling" => attempt[t] > 0
    /\ \A t \in Threads : pc[t] \in {"idle", "waiting", "entering", "admitting"}
                            => attempt[t] = 0

(* Only Try, Unavailable and Release move the attempts or the sleep.       *)
LEMMA SleepStep == CallTypes /\ SleepInv /\ [Next]_vars => SleepInv'
<1> USE GuardAssumption DEF GuardAssumption
<1> SUFFICES ASSUME CallTypes, SleepInv, [Next]_vars PROVE SleepInv'
  OBVIOUS
<1> USE DEF SleepInv, Sleeps, CallTypes, GoTo, MoreAttempts
<1>1. ASSUME NEW t \in Threads, NEW step, GoTo(t, step),
             UNCHANGED <<attempt, slept>>,
             pc[t] = "ready" => ~MoreAttempts(t),
             step \notin InLadder,
             step \in {"idle", "waiting", "entering", "admitting"}
               => attempt[t] = 0
      PROVE  SleepInv'
  BY <1>1 DEF InLadder
<1>2. ASSUME NEW t \in Threads, Admit(t) PROVE SleepInv'
  BY <1>2 DEF Admit, Quiet
<1>3. ASSUME NEW t \in Threads, Try(t) PROVE SleepInv'
  BY <1>3 DEF Try
<1>4. ASSUME NEW t \in Threads, Unavailable(t) PROVE SleepInv'
  <2>1. /\ slept[t] = Ladder[attempt[t] - 1]
        /\ attempt[t] \in 1..Attempts
        /\ pc' = [pc EXCEPT ![t] = "ready"] /\ attempt' = attempt
    BY <1>4 DEF Unavailable
  <2>2. slept'[t] = Ladder[Sleeps(t)']
    <3>1. CASE MoreAttempts(t)
      <4>1. attempt[t] \in 1..(Attempts - 1)
        BY <2>1, <3>1
      <4>2. slept'[t] = Ladder[attempt[t] - 1] + Delays[attempt[t]]
        BY <1>4, <2>1, <3>1 DEF Unavailable
      <4>3. Ladder[attempt[t]] = Ladder[attempt[t] - 1] + Delays[attempt[t]]
        BY <4>1, DelayIsStep
      <4> QED
        BY <2>1, <3>1, <4>2, <4>3
    <3>2. CASE ~MoreAttempts(t)
      BY <1>4, <2>1, <3>2 DEF Unavailable
    <3> QED
      BY <3>1, <3>2
  <2>3. Sleeps(t)' \in Nat
    BY <2>1
  <2>4. slept'[t] \in Nat
    BY <2>2, <2>3, LadderRecurs
  <2>5. \A u \in Threads \ {t} : slept'[u] = slept[u] /\ pc'[u] = pc[u]
    BY <1>4, <2>1 DEF Unavailable
  <2>6. slept' \in [Threads -> Nat]
    BY <1>4, <2>4, <2>5 DEF Unavailable
  <2> QED
    BY <2>1, <2>2, <2>5, <2>6
<1>5. ASSUME NEW t \in Threads, Release(t) PROVE SleepInv'
  BY <1>5, LadderRecurs DEF Release
<1>6. ASSUME NEW t \in Threads, Start(t) \/ CallStep(t) PROVE SleepInv'
  <2> USE <1>1 DEF Quiet, InLadder
  <2>1. CASE Start(t) \/ Acquire(t) \/ Shed(t)
    BY <2>1 DEF Start, Acquire, Shed
  <2>2. CASE Enter(t) \/ Leave(t) \/ Reject(t)
    BY <2>2 DEF Enter, Leave, Reject, Finally
  <2>3. CASE Report(t)
    BY <2>3 DEF Report, Finally
  <2>4. CASE Exhaust(t) \/ Answered(t) \/ Refused(t)
    BY <2>4 DEF Exhaust, Answered, Refused, OutOfLadder
  <2> QED
    BY <1>2, <1>3, <1>4, <1>5, <1>6, <2>1, <2>2, <2>3, <2>4 DEF CallStep
<1>7. CASE Probe \/ Tick \/ Toggle \/ UNCHANGED vars
  BY <1>7 DEF Probe, Tick, Toggle, Quiet, callVars, vars
<1> QED
  BY <1>6, <1>7 DEF Next

(* What was slept is the ladder's, in every behaviour.                     *)
LEMMA SleepInvariant == Spec => [](CallTypes /\ SleepInv)
<1>1. Init => SleepInv
  BY LadderRecurs DEF Init, SleepInv, Sleeps
<1>2. Spec => []CallTypes
  <2>1. GuardInv => CallTypes
    BY DEF GuardInv
  <2> QED
    BY <2>1, GuardInvariant, PTL
<1> QED
  BY <1>1, <1>2, SleepStep, PTL DEF Spec

(* A call sleeps no longer than its ladder, however it goes.               *)
THEOREM SleepsBounded == Spec => []SleepsWithinLadder
<1> USE GuardAssumption DEF GuardAssumption
<1>1. CallTypes /\ SleepInv => SleepsWithinLadder
  <2> SUFFICES ASSUME CallTypes, SleepInv, NEW t \in Threads
               PROVE  slept[t] \in 0..Patience
    BY DEF SleepsWithinLadder
  <2> DEFINE top == IF Attempts = 0 THEN 0 ELSE Attempts - 1
  <2>1. top \in Nat /\ Sleeps(t) \in 0..top
    BY DEF CallTypes, SleepInv, Sleeps, MoreAttempts
  <2>2. slept[t] = Ladder[Sleeps(t)] /\ Patience = Ladder[top]
    BY DEF SleepInv, Patience
  <2> HIDE DEF top
  <2>3. Ladder[Sleeps(t)] <= Ladder[top]
    BY <2>1, LadderGrows
  <2>4. Ladder[Sleeps(t)] \in Nat /\ Ladder[top] \in Nat
    BY <2>1, LadderRecurs
  <2> QED
    BY <2>2, <2>3, <2>4
<1> QED
  BY <1>1, SleepInvariant, PTL

(* That ladder is bounded by the settings alone, whatever the multiplier:  *)
(* a delay of at most max_delay after each attempt but the last.           *)
THEOREM PatienceBounded ==
  Patience <= (IF Attempts = 0 THEN 0 ELSE Attempts - 1) * MaxDelay
<1> DEFINE top == IF Attempts = 0 THEN 0 ELSE Attempts - 1
<1>1. top \in Nat
  BY GuardAssumption DEF GuardAssumption
<1>2. Patience = Ladder[top]
  BY DEF Patience
<1> HIDE DEF top
<1>3. Patience <= top * MaxDelay
  BY <1>1, <1>2, LadderGrows
<1> QED
  BY <1>3 DEF top

-----------------------------------------------------------------------------
(* The theorems of CircuitBreaker, for the breaker these calls share.      *)
Promised == INSTANCE CircuitBreakerProofs WITH dependencyUp <- FALSE

(* A step of the calls is a step of the breaker, or leaves it alone.       *)
LEMMA BreakerStep == [Next]_vars => [Promised!Next]_(Promised!vars)
<1> USE DEF Promised!vars
<1> SUFFICES ASSUME Next \/ UNCHANGED vars
             PROVE  Promised!Next \/ UNCHANGED Promised!vars
  OBVIOUS
<1>1. ASSUME UNCHANGED breakerVars PROVE UNCHANGED Promised!vars
  BY <1>1 DEF breakerVars
<1>2. ASSUME NEW t \in Threads, Start(t) \/ CallStep(t)
      PROVE  Promised!Next \/ UNCHANGED Promised!vars
  <2> USE <1>1
  <2>1. CASE Start(t) \/ Acquire(t) \/ Shed(t) \/ Enter(t) \/ Leave(t)
    BY <2>1 DEF Start, Acquire, Shed, Enter, Leave
  <2>2. CASE Release(t) \/ Reject(t)
    BY <2>2 DEF Release, Reject
  <2>3. CASE Try(t) \/ Exhaust(t) \/ Answered(t) \/ Refused(t) \/ Unavailable(t)
    BY <2>3 DEF Try, Exhaust, Answered, Refused, Unavailable
  <2>4. CASE Admit(t)
    <3>1. Promised!Admit(t)
      BY <2>4 DEF Admit, Breaker!Admit, Promised!Admit, Breaker!Resolved,
                  Promised!Resolved, Breaker!WindowElapsed,
                  Promised!WindowElapsed, Breaker!TrialTaken, Promised!TrialTaken
    <3> QED
      BY <3>1 DEF Promised!Next
  <2>5. CASE Report(t)
    <3>1. Promised!OnSuccess(t) \/ Promised!OnFailure(t)
      BY <2>5 DEF Report, Breaker!OnSuccess, Breaker!OnFailure,
                  Promised!OnSuccess, Promised!OnFailure, Breaker!ForceClosed,
                  Promised!ForceClosed, Breaker!ShouldOpen, Promised!ShouldOpen,
                  Breaker!Stale, Promised!Stale, Breaker!UpTo, Promised!UpTo
    <3> QED
      BY <3>1 DEF Promised!Next, Promised!Finish
  <2> QED
    BY <1>2, <2>1, <2>2, <2>3, <2>4, <2>5 DEF CallStep
<1>3. CASE Probe
  <2>1. Promised!ReadState
    BY <1>3 DEF Probe, Breaker!ReadState, Promised!ReadState, Breaker!Resolved,
                Promised!Resolved, Breaker!WindowElapsed, Promised!WindowElapsed,
                Breaker!TrialTaken, Promised!TrialTaken
  <2> QED
    BY <2>1 DEF Promised!Next
<1>4. CASE Tick
  <2>1. Promised!Tick
    BY <1>4 DEF Tick, Breaker!Tick, Promised!Tick, Breaker!UpTo, Promised!UpTo
  <2> QED
    BY <2>1 DEF Promised!Next
<1>5. CASE Toggle \/ UNCHANGED vars
  BY <1>1, <1>5 DEF Toggle, vars
<1> QED
  BY <1>2, <1>3, <1>4, <1>5 DEF Next

(* So the calls keep the breaker's promise: CircuitBreaker is composed of  *)
(* the same steps.                                                         *)
LEMMA PromiseKept == Spec => Promised!Safety
<1>1. Init => Promised!Init
  BY DEF Init, Breaker!Init, Promised!Init
<1> QED
  BY <1>1, BreakerStep, PTL DEF Spec, Promised!Safety

(* And so the breaker's theorems are true of the breaker under the         *)
(* bulkhead: streak and state agree, one ladder at a time is the trial,    *)
(* and the recovery window counts from the last ladder that failed.        *)
THEOREM SharedBreakerSound ==
  Spec => [](/\ Breaker!StreakDecidesState
             /\ Breaker!TrialSlotExact
             /\ Breaker!WindowCountsFromLastFailure)
<1>1. Promised!BreakerAssumption
  BY GuardAssumption DEF GuardAssumption, Promised!BreakerAssumption
<1>2. Spec => []Promised!StreakDecidesState
  BY <1>1, PromiseKept, Promised!StreakKept, PTL
<1>3. Spec => []Promised!TrialSlotExact
  BY <1>1, PromiseKept, Promised!TrialSlotKept, PTL
<1>4. Spec => []Promised!WindowCountsFromLastFailure
  BY <1>1, PromiseKept, Promised!WindowKept, PTL
<1>5. /\ Promised!StreakDecidesState => Breaker!StreakDecidesState
      /\ Promised!TrialSlotExact => Breaker!TrialSlotExact
      /\ Promised!WindowCountsFromLastFailure
           => Breaker!WindowCountsFromLastFailure
  BY DEF Promised!StreakDecidesState, Breaker!StreakDecidesState,
         Promised!TrialSlotExact, Breaker!TrialSlotExact,
         Promised!WindowCountsFromLastFailure,
         Breaker!WindowCountsFromLastFailure
<1> QED
  BY <1>2, <1>3, <1>4, <1>5, PTL

(* Likewise no trial ladder starts before a whole recovery window without  *)
(* a failed one.                                                           *)
THEOREM LaddersWait ==
  Spec => [][\A t \in Threads : running[t] # "trial" /\ running'[t] = "trial"
                                  => sinceFailure >= RecoveryTicks]_vars
<1>1. Promised!BreakerAssumption
  BY GuardAssumption DEF GuardAssumption, Promised!BreakerAssumption
<1>2. Spec => Promised!TrialAfterQuietWindow
  BY <1>1, PromiseKept, Promised!ProbesKept, PTL
<1>3. [\A t \in Threads : running[t] # "trial" /\ running'[t] = "trial"
                             => sinceFailure >= RecoveryTicks]_(Promised!vars)
      => [\A t \in Threads : running[t] # "trial" /\ running'[t] = "trial"
                             => sinceFailure >= RecoveryTicks]_vars
  BY DEF Promised!vars, vars, breakerVars
<1> QED
  BY <1>2, <1>3, PTL DEF Promised!TrialAfterQuietWindow
=============================================================================
