------------------------ MODULE PaymentServiceProofs ------------------------
(***************************************************************************)
(* What PaymentService promises for any number of orders, requests and     *)
(* gateway attempts, however often the gateway forgets and handlers die;   *)
(* last, that it implements PaymentLedger.                                 *)
(***************************************************************************)
EXTENDS PaymentService, TLAPS

(* A handler that has started knows its order, one that has not has        *)
(* no attempt anywhere, and an attempt names the order of its request.     *)
SubjectInv ==
    /\ \A r \in Requests :
         /\ pc[r] # "idle" => subject[r] \in Orders
         /\ pc[r] = "idle" => outcome[r] = None /\ reply[r] = None
         /\ pc[r] = "charging" => reply[r] = None
    /\ \A a \in arrived \cup processing :
         pc[a.req] # "idle" /\ subject[a.req] = a.order

TypeInv == TypeOK /\ SubjectInv

(* The tables, handlers and the gateway's memory keep their types.         *)
THEOREM TypeCorrect == Spec => []TypeInv
<1> USE PaymentAssumption DEF PaymentAssumption
<1>1. Init => TypeInv
  BY DEF Init, TypeInv, TypeOK, SubjectInv, None
<1>2. TypeInv /\ [Next]_vars => TypeInv'
  <2> SUFFICES ASSUME TypeInv, [Next]_vars PROVE TypeInv'
    OBVIOUS
  <2> USE DEF TypeInv, TypeOK, SubjectInv, Attempts, Results, None,
              paymentVars, clientVars, gatewayVars
  <2>1. ASSUME NEW r \in Requests, Receive(r) PROVE TypeInv'
    BY <2>1 DEF Receive
  <2>2. ASSUME NEW r \in Requests, Insert(r) PROVE TypeInv'
    BY <2>2 DEF Insert, Free
  <2>3. ASSUME NEW r \in Requests, Send(r) PROVE TypeInv'
    BY <2>3 DEF Send, Budget
  <2>4. ASSUME NEW r \in Requests, GiveUp(r) \/ ShortCircuit(r)
        PROVE  TypeInv'
    BY <2>4 DEF GiveUp, ShortCircuit, NoAnswer
  <2>5. ASSUME NEW r \in Requests, Crash(r) PROVE TypeInv'
    BY <2>5 DEF Crash
  <2>6. ASSUME NEW a \in arrived, Replay(a) \/ Miss(a) \/ Refuse(a)
        PROVE  TypeInv'
    BY <2>6 DEF Replay, Stored, Miss, Refuse, Respond
  <2>7. ASSUME NEW a \in processing, Charge(a) PROVE TypeInv'
    BY <2>7 DEF Charge, Respond
  <2>8. CASE Forget
    BY <2>8 DEF Forget
  <2>9. CASE UNCHANGED vars
    BY <2>9 DEF vars
  <2> QED
    BY <2>1, <2>2, <2>3, <2>4, <2>5, <2>6, <2>7, <2>8, <2>9
       DEF Next, RequestStep, GatewayStep, Quiescent
<1> QED
  BY <1>1, <1>2, PTL DEF Spec

(* The types alone.                                                        *)
THEOREM TypesKept == Spec => []TypeOK
<1>1. TypeInv => TypeOK
  BY DEF TypeInv
<1> QED
  BY <1>1, TypeCorrect, PTL

(* FAILED, in the gateway's store, in a client's hands or in the table,    *)
(* goes back to a decline of that order.                                   *)
DeclineInv ==
    /\ \A o \in Orders : store[o] = "FAILED" => o \in declined
    /\ \A r \in Requests : outcome[r] = "FAILED" => subject[r] \in declined
    /\ FailedMeansDeclined

(* No order is FAILED for want of an answer.                               *)
THEOREM FailedIsDeclined == Spec => []FailedMeansDeclined
<1> USE PaymentAssumption DEF PaymentAssumption
<1>1. Init => DeclineInv
  BY DEF Init, DeclineInv, FailedMeansDeclined, None
<1>2. TypeInv /\ DeclineInv /\ [Next]_vars => DeclineInv'
  <2> SUFFICES ASSUME TypeInv, DeclineInv, [Next]_vars PROVE DeclineInv'
    OBVIOUS
  <2> USE DEF TypeInv, TypeOK, SubjectInv, DeclineInv, FailedMeansDeclined,
              Attempts, Results, None, paymentVars, clientVars, gatewayVars
  <2>1. ASSUME NEW r \in Requests, RequestStep(r) \/ Crash(r)
        PROVE  DeclineInv'
    BY <2>1 DEF RequestStep, Receive, Insert, Free, Send, GiveUp, ShortCircuit,
                NoAnswer, Crash
  <2>2. ASSUME NEW a \in arrived, Replay(a) \/ Miss(a) \/ Refuse(a)
        PROVE  DeclineInv'
    BY <2>2 DEF Replay, Stored, Miss, Refuse, Respond
  <2>3. ASSUME NEW a \in processing, Charge(a) PROVE DeclineInv'
    BY <2>3 DEF Charge, Respond
  <2>4. CASE Forget \/ UNCHANGED vars
    BY <2>4 DEF Forget, vars
  <2> QED
    BY <2>1, <2>2, <2>3, <2>4 DEF Next, GatewayStep, Quiescent
<1>3. DeclineInv => FailedMeansDeclined
  BY DEF DeclineInv
<1> QED
  BY <1>1, <1>2, <1>3, TypeCorrect, PTL DEF Spec

(* Until two attempts for an order overlap or the store is lost, at most   *)
(* one attempt is past the replay check, nothing is stored or charged      *)
(* before it charges, and everything later is replayed.                    *)
OverlapInv ==
    \A o \in Orders :
      o \notin overlapped /\ forgets = 0 =>
        /\ charged[o] <= 1
        /\ store[o] = None => charged[o] = 0
        /\ \A a \in processing : a.order = o => store[o] = None
        /\ \A a, b \in processing : a.order = o /\ b.order = o => a = b

(* A second charge needs an overlap or a forgotten store.                  *)
THEOREM SecondChargeNeedsOverlap == Spec => []ChargedAgainOnlyByOverlap
<1> USE PaymentAssumption DEF PaymentAssumption
<1>1. Init => OverlapInv
  BY DEF Init, OverlapInv
<1>2. TypeInv /\ OverlapInv /\ [Next]_vars => OverlapInv'
  <2> SUFFICES ASSUME TypeInv, OverlapInv, [Next]_vars PROVE OverlapInv'
    OBVIOUS
  <2> USE DEF TypeInv, TypeOK, OverlapInv, Attempts, None, paymentVars,
              clientVars, gatewayVars
  <2>1. ASSUME NEW r \in Requests, RequestStep(r) \/ Crash(r)
        PROVE  OverlapInv'
    BY <2>1 DEF RequestStep, Receive, Insert, Send, GiveUp, ShortCircuit, Crash
  <2>2. ASSUME NEW a \in arrived, Replay(a) \/ Refuse(a) PROVE OverlapInv'
    BY <2>2 DEF Replay, Refuse
  <2>3. ASSUME NEW a \in arrived, Miss(a) PROVE OverlapInv'
    BY <2>3 DEF Miss, Stored
  <2>4. ASSUME NEW a \in processing, Charge(a) PROVE OverlapInv'
    BY <2>4 DEF Charge
  <2>5. CASE Forget
    BY <2>5 DEF Forget
  <2>6. CASE UNCHANGED vars
    BY <2>6 DEF vars
  <2> QED
    BY <2>1, <2>2, <2>3, <2>4, <2>5, <2>6 DEF Next, GatewayStep, Quiescent
<1>3. TypeInv /\ OverlapInv => ChargedAgainOnlyByOverlap
  BY DEF TypeInv, TypeOK, OverlapInv, ChargedAgainOnlyByOverlap
<1> QED
  BY <1>1, <1>2, <1>3, TypeCorrect, PTL DEF Spec

(* SUCCESS, in the gateway's store or in a client's hands, goes back to a  *)
(* charge of that order.                                                   *)
ChargeInv ==
    /\ \A o \in Orders : store[o] = "SUCCESS" => charged[o] > 0
    /\ \A r \in Requests : outcome[r] = "SUCCESS" => charged[subject[r]] > 0

(* A SUCCESS is only ever passed on from the gateway's charge.             *)
LEMMA ChargeInvHolds == Spec => []ChargeInv
<1> USE PaymentAssumption DEF PaymentAssumption
<1>1. Init => ChargeInv
  BY DEF Init, ChargeInv, None
<1>2. TypeInv /\ ChargeInv /\ [Next]_vars => ChargeInv'
  <2> SUFFICES ASSUME TypeInv, ChargeInv, [Next]_vars PROVE ChargeInv'
    OBVIOUS
  <2> USE DEF TypeInv, TypeOK, SubjectInv, ChargeInv, Attempts, None,
              paymentVars, clientVars, gatewayVars
  <2>1. ASSUME NEW r \in Requests, RequestStep(r) \/ Crash(r)
        PROVE  ChargeInv'
    <3>1. CASE Receive(r)
      BY <3>1 DEF Receive
    <3>2. CASE Insert(r) \/ Crash(r)
      BY <3>2 DEF Insert, Crash
    <3>3. CASE Send(r) \/ GiveUp(r) \/ ShortCircuit(r)
      BY <3>3 DEF Send, GiveUp, ShortCircuit, NoAnswer
    <3> QED
      BY <2>1, <3>1, <3>2, <3>3 DEF RequestStep
  <2>2. ASSUME NEW a \in arrived, Replay(a) \/ Miss(a) \/ Refuse(a)
        PROVE  ChargeInv'
    BY <2>2 DEF Replay, Stored, Miss, Refuse, Respond
  <2>3. ASSUME NEW a \in processing, Charge(a) PROVE ChargeInv'
    <3>1. a \in Attempts /\ subject[a.req] = a.order /\ UNCHANGED subject
      BY <2>3 DEF Charge
    <3>2. \A o \in Orders : charged[o] > 0 => charged'[o] > 0
      BY <2>3, <3>1 DEF Charge
    <3>3. PICK status \in {"SUCCESS", "FAILED"} :
            /\ store' = [store EXCEPT ![a.order] = status]
            /\ Respond(a, status)
            /\ status = "SUCCESS"
                 => charged' = [charged EXCEPT ![a.order] = @ + 1]
      BY <2>3 DEF Charge
    <3>4. status = "SUCCESS" => charged'[a.order] > 0
      BY <3>1, <3>3
    <3>5. (\A o \in Orders : store[o] = "SUCCESS" => charged[o] > 0)'
      BY <3>1, <3>2, <3>3, <3>4
    <3>6. ASSUME NEW r \in Requests, outcome'[r] = "SUCCESS"
          PROVE  charged'[subject[r]] > 0
      <4>1. CASE outcome'[r] = outcome[r]
        <5>1. charged[subject[r]] > 0 /\ pc[r] # "idle"
          BY <3>6, <4>1
        <5> QED
          BY <3>2, <5>1
      <4>2. CASE r = a.req /\ status = "SUCCESS"
        BY <3>1, <3>4, <4>2
      <4> QED
        BY <3>1, <3>3, <3>6, <4>1, <4>2 DEF Respond
    <3> QED
      BY <3>1, <3>5, <3>6
  <2>4. CASE Forget \/ UNCHANGED vars
    BY <2>4 DEF Forget, vars
  <2> QED
    BY <2>1, <2>2, <2>3, <2>4 DEF Next, GatewayStep, Quiescent
<1> QED
  BY <1>1, <1>2, TypeCorrect, PTL DEF Spec

(* The refinement: an insert that finds the order free is Decide, a        *)
(* request answered from the row is Answer, an approved charge is Charge,  *)
(* and every other step is invisible to PaymentLedger.                     *)
THEOREM Refinement == Spec => ImplementsLedger
<1> USE PaymentAssumption DEF PaymentAssumption
<1>1. Init => Ledger!Init
  BY DEF Init, Ledger!Init, Told, Results, None
<1>2. TypeInv /\ ChargeInv /\ [Next]_vars => [Ledger!Next]_(Ledger!vars)
  <2> SUFFICES ASSUME TypeInv, ChargeInv, [Next]_vars
               PROVE  Ledger!Next \/ UNCHANGED <<row, Told, charged>>
    BY DEF Ledger!vars
  <2> USE DEF TypeInv, TypeOK, SubjectInv, Results, None, paymentVars,
              clientVars, gatewayVars
  <2>1. ASSUME NEW r \in Requests, Receive(r)
        PROVE  Ledger!Next \/ UNCHANGED <<row, Told, charged>>
    <3>1. PICK o \in Orders :
            /\ subject' = [subject EXCEPT ![r] = o]
            /\ reply' = [reply EXCEPT ![r] = row[o]]
      BY <2>1 DEF Receive
    <3>2. UNCHANGED <<row, charged>> /\ reply[r] = None
      BY <2>1 DEF Receive
    <3>3. CASE row[o] = None
      <4>1. Told' = Told
        BY <3>1, <3>2, <3>3 DEF Told
      <4> QED
        BY <3>2, <4>1
    <3>4. CASE row[o] # None
      <4>1. Told' = Told \cup {<<o, row[o]>>}
        BY <3>1, <3>2, <3>4 DEF Told
      <4> QED
        BY <3>2, <3>4, <4>1 DEF Ledger!Next, Ledger!Answer
    <3> QED
      BY <3>3, <3>4
  <2>2. ASSUME NEW r \in Requests, Insert(r)
        PROVE  Ledger!Next \/ UNCHANGED <<row, Told, charged>>
    <3> DEFINE o == subject[r]
    <3>1. o \in Orders /\ outcome[r] \in Results /\ reply[r] = None
      BY <2>2 DEF Insert
    <3>2. UNCHANGED <<subject, charged>>
      BY <2>2 DEF Insert
    <3>3. CASE row[o] = None
      <4>1. /\ row' = [row EXCEPT ![o] = outcome[r]]
            /\ reply' = [reply EXCEPT ![r] = outcome[r]]
        BY <2>2, <3>3 DEF Insert, Free
      <4>2. Told' = Told \cup {<<o, outcome[r]>>}
        BY <3>1, <3>2, <4>1 DEF Told
      <4>3. Ledger!Decide(o, outcome[r])
        BY <3>1, <3>2, <3>3, <4>1, <4>2 DEF Ledger!Decide, ChargeInv
      <4> QED
        BY <3>1, <4>3 DEF Ledger!Next, Ledger!Outcomes
    <3>4. CASE row[o] # None
      <4>1. UNCHANGED row /\ reply' = [reply EXCEPT ![r] = "http_500"]
        BY <2>2, <3>4 DEF Insert, Free
      <4>2. Told' = Told
        BY <3>1, <3>2, <4>1 DEF Told
      <4> QED
        BY <3>2, <4>1, <4>2
    <3> QED
      BY <3>3, <3>4
  <2>3. ASSUME NEW r \in Requests,
               Send(r) \/ GiveUp(r) \/ ShortCircuit(r) \/ Crash(r)
        PROVE  UNCHANGED <<row, Told, charged>>
    BY <2>3 DEF Send, GiveUp, ShortCircuit, Crash, Told
  <2>4. ASSUME NEW a \in arrived, Replay(a) \/ Miss(a) \/ Refuse(a)
        PROVE  UNCHANGED <<row, Told, charged>>
    BY <2>4 DEF Replay, Miss, Refuse, Told
  <2>5. ASSUME NEW a \in processing, Charge(a)
        PROVE  Ledger!Next \/ UNCHANGED <<row, Told, charged>>
    <3>1. a.order \in Orders /\ UNCHANGED <<row, Told>>
      BY <2>5 DEF Charge, Told, Attempts
    <3>2. \/ charged' = [charged EXCEPT ![a.order] = @ + 1]
          \/ UNCHANGED charged
      BY <2>5 DEF Charge
    <3> QED
      BY <3>1, <3>2 DEF Ledger!Next, Ledger!Charge
  <2>6. CASE Forget \/ UNCHANGED vars
    BY <2>6 DEF Forget, vars, Told
  <2> QED
    BY <2>1, <2>2, <2>3, <2>4, <2>5, <2>6
       DEF Next, RequestStep, GatewayStep, Quiescent
<1> QED
  BY <1>1, <1>2, TypeCorrect, ChargeInvHolds, PTL
     DEF Spec, ImplementsLedger, Ledger!Spec

(* What the ledger promises is what OrderSaga takes for granted of the     *)
(* Payment service (ServeCharge): all callers of an order are told its     *)
(* row, the row is written once, and a SUCCESS was charged.                *)
AnswersAgree ==
    /\ \A answer \in Told : row[answer[1]] = answer[2]
    /\ \A o \in Orders : row[o] = "SUCCESS" => charged[o] > 0

DecidedOnce == [][\A o \in Orders : row[o] # None => row'[o] = row[o]]_row

(* PaymentLedger implies both.                                             *)
THEOREM LedgerSuffices == ImplementsLedger => []AnswersAgree /\ DecidedOnce
<1> DEFINE Inv == /\ AnswersAgree
                  /\ row \in [Orders -> Ledger!Outcomes \cup {None}]
                  /\ charged \in [Orders -> Nat]
                  /\ \A answer \in Told : answer[1] \in Orders /\ answer[2] # None
<1> DEFINE Kept == \A o \in Orders : row[o] # None => row'[o] = row[o]
<1>1. Ledger!Init => Inv
  BY DEF Ledger!Init, AnswersAgree, None
<1>2. Inv /\ [Ledger!Next]_(Ledger!vars) => Inv' /\ Kept
  <2> SUFFICES ASSUME Inv, [Ledger!Next]_(Ledger!vars) PROVE Inv' /\ Kept
    OBVIOUS
  <2> USE DEF AnswersAgree
  <2>1. ASSUME NEW o \in Orders, Ledger!Charge(o) PROVE Inv' /\ Kept
    BY <2>1 DEF Ledger!Charge
  <2>2. ASSUME NEW o \in Orders, Ledger!Answer(o) PROVE Inv' /\ Kept
    BY <2>2 DEF Ledger!Answer, None
  <2>3. ASSUME NEW o \in Orders, NEW r \in Ledger!Outcomes, Ledger!Decide(o, r)
        PROVE  Inv' /\ Kept
    BY <2>3 DEF Ledger!Decide, Ledger!Outcomes, None
  <2>4. CASE UNCHANGED Ledger!vars
    BY <2>4 DEF Ledger!vars
  <2> QED
    BY <2>1, <2>2, <2>3, <2>4 DEF Ledger!Next
<1>3. Inv => AnswersAgree
  OBVIOUS
<1>4. Inv /\ [Ledger!Next]_(Ledger!vars) => [Kept]_row
  BY <1>2
<1> QED
  BY <1>1, <1>2, <1>3, <1>4, PTL DEF ImplementsLedger, Ledger!Spec, DecidedOnce
=============================================================================
