--------------------------- MODULE PaymentService ---------------------------
(***************************************************************************)
(* The Payment service, app/payment/service.py charge, with the gateway    *)
(* client it calls, app/payment/gateway_client.py, and the gateway, which  *)
(* fake_gateway/main.py stands in for.                                     *)
(*                                                                         *)
(* Several POST /payments may be handled for one order at once: the Order  *)
(* service's client stops waiting and retries long before the attempts of  *)
(* gateway_client.charge are used up.  Each gateway attempt is a request   *)
(* of its own; the client may give up on it (a timeout, a transport error, *)
(* a 503) while the gateway still works on it.  As in OrderSaga, a lost    *)
(* reply is the client giving up first, and a request the gateway turned   *)
(* away with a 503 is one it never gets round to charging.                 *)
(***************************************************************************)
EXTENDS Integers

CONSTANTS
    Requests,        \* POST /payments requests
    Orders,          \* order ids; the Idempotency-Key is order-{id}
    GatewayAttempts, \* payment_retry_attempts
    MaxForgets,      \* bound: times the gateway loses its store
    MaxCrashes       \* bound: Payment handlers that die

None == "none"

ASSUME PaymentAssumption ==
    /\ GatewayAttempts \in Nat \ {0}
    /\ MaxForgets \in Nat
    /\ MaxCrashes \in Nat
    /\ None \notin Orders

VARIABLES
    row,        \* payments table: status by order_id (unique)
    pc,         \* where the handler of each request is
    subject,    \* the order each request is about
    attempts,   \* gateway attempts made for a request
    outcome,    \* what gateway_client.charge has come to
    reply,      \* the response to a request
    arrived,    \* attempts on their way to the gateway's replay check
    processing, \* attempts past that check: slow, hanging or about to charge
    store,      \* _charges: the first response by Idempotency-Key
    charged,    \* history: approved charges of each order
    declined,   \* history: orders the gateway has declined
    overlapped, \* history: orders two attempts were processed for at once
    forgets, crashes

paymentVars == <<row, pc, subject, reply>>
clientVars == <<attempts, outcome>>
gatewayVars == <<arrived, processing, store, charged, declined, overlapped,
                 forgets>>
vars == <<paymentVars, clientVars, gatewayVars, crashes>>

Results == {"SUCCESS", "FAILED", "UNKNOWN"}

(* Definitions named Something_Fault are faulty variants of Something: what *)
(* the property they belong to would catch.  No action uses them.          *)

Init ==
    /\ row = [o \in Orders |-> None]
    /\ pc = [r \in Requests |-> "idle"]
    /\ subject = [r \in Requests |-> None]
    /\ attempts = [r \in Requests |-> 0]
    /\ outcome = [r \in Requests |-> None]
    /\ reply = [r \in Requests |-> None]
    /\ arrived = {} /\ processing = {}
    /\ store = [o \in Orders |-> None]
    /\ charged = [o \in Orders |-> 0]
    /\ declined = {} /\ overlapped = {}
    /\ forgets = 0 /\ crashes = 0

-----------------------------------------------------------------------------
(* charge: a stored row answers at once; otherwise the gateway is asked.   *)
Receive(r) ==
    /\ pc[r] = "idle"
    /\ \E o \in Orders :
         /\ subject' = [subject EXCEPT ![r] = o]
         /\ pc' = [pc EXCEPT ![r] = IF row[o] # None THEN "done" ELSE "charging"]
         /\ reply' = [reply EXCEPT ![r] = row[o]]
    /\ UNCHANGED <<row, clientVars, gatewayVars, crashes>>

(* The insert.  order_id is unique: when another request of the order was  *)
(* faster, the commit raises IntegrityError and the caller gets a 500.     *)
Free_Unchecked(o) == TRUE

Free(o) == row[o] = None

Insert(r) ==
    /\ pc[r] = "charging"
    /\ outcome[r] \in Results
    /\ pc' = [pc EXCEPT ![r] = "done"]
    /\ IF Free(subject[r])
       THEN /\ row' = [row EXCEPT ![subject[r]] = outcome[r]]
            /\ reply' = [reply EXCEPT ![r] = outcome[r]]
       ELSE /\ reply' = [reply EXCEPT ![r] = "http_500"]
            /\ UNCHANGED row
    /\ UNCHANGED <<subject, clientVars, gatewayVars, crashes>>

Crash(r) ==
    /\ crashes < MaxCrashes
    /\ pc[r] = "charging"
    /\ crashes' = crashes + 1
    /\ pc' = [pc EXCEPT ![r] = "crashed"]
    /\ UNCHANGED <<row, subject, reply, clientVars, gatewayVars>>

-----------------------------------------------------------------------------
(* gateway_client.charge: attempts under retry_with_backoff.               *)
NoAnswer_Failed == "FAILED"

NoAnswer == "UNKNOWN"

Budget_OneMore == GatewayAttempts + 1

Budget == GatewayAttempts

Send(r) ==
    /\ pc[r] = "charging"
    /\ outcome[r] = None
    /\ attempts[r] < Budget
    /\ attempts' = [attempts EXCEPT ![r] = @ + 1]
    /\ outcome' = [outcome EXCEPT ![r] = "waiting"]
    /\ arrived' = arrived \cup {[req |-> r, order |-> subject[r],
                                 attempt |-> attempts[r] + 1]}
    /\ UNCHANGED <<paymentVars, processing, store, charged, declined,
                   overlapped, forgets, crashes>>

GiveUp_Forever(r) ==
    /\ outcome[r] = "waiting"
    /\ outcome' = [outcome EXCEPT ![r] = None]
    /\ UNCHANGED <<paymentVars, attempts, gatewayVars, crashes>>

GiveUp(r) ==
    /\ outcome[r] = "waiting"
    /\ outcome' = [outcome EXCEPT ![r] =
                     IF attempts[r] = Budget THEN NoAnswer ELSE None]
    /\ UNCHANGED <<paymentVars, attempts, gatewayVars, crashes>>

(* Bulkhead full or circuit open.                                          *)
ShortCircuit(r) ==
    /\ pc[r] = "charging"
    /\ outcome[r] = None
    /\ attempts[r] = 0
    /\ outcome' = [outcome EXCEPT ![r] = NoAnswer]
    /\ UNCHANGED <<paymentVars, attempts, gatewayVars, crashes>>

(* The response to attempt a is used only if a is still waited for.        *)
Respond(a, status) ==
    outcome' = IF outcome[a.req] = "waiting" /\ attempts[a.req] = a.attempt
               THEN [outcome EXCEPT ![a.req] = status]
               ELSE outcome

-----------------------------------------------------------------------------
(* The gateway.  A known key is replayed before anything else ...          *)
Stored_Ignored(o) == FALSE

Stored(o) == store[o] # None

Replay(a) ==
    /\ Stored(a.order)
    /\ Respond(a, store[a.order])
    /\ arrived' = arrived \ {a}
    /\ UNCHANGED <<paymentVars, attempts, processing, store, charged, declined,
                   overlapped, forgets, crashes>>

(* ... but the lock is released between that check and the charge, and the *)
(* latency and the hang are in between.                                    *)
Miss(a) ==
    /\ ~Stored(a.order)
    /\ arrived' = arrived \ {a}
    /\ processing' = processing \cup {a}
    /\ overlapped' = IF \E b \in processing : b.order = a.order
                     THEN overlapped \cup {a.order} ELSE overlapped
    /\ UNCHANGED <<paymentVars, clientVars, store, charged, declined, forgets,
                   crashes>>

Charge(a) ==
    /\ processing' = processing \ {a}
    /\ \E status \in {"SUCCESS", "FAILED"} :
         /\ store' = [store EXCEPT ![a.order] = status]
         /\ Respond(a, status)
         /\ IF status = "SUCCESS"
            THEN /\ charged' = [charged EXCEPT ![a.order] = @ + 1]
                 /\ UNCHANGED declined
            ELSE /\ declined' = declined \cup {a.order}
                 /\ UNCHANGED charged
    /\ UNCHANGED <<paymentVars, attempts, arrived, overlapped, forgets, crashes>>

(* A 4xx: the gateway will not take the request.                           *)
Refuse(a) ==
    /\ arrived' = arrived \ {a}
    /\ declined' = declined \cup {a.order}
    /\ Respond(a, "FAILED")
    /\ UNCHANGED <<paymentVars, attempts, processing, store, charged,
                   overlapped, forgets, crashes>>

(* The in-memory store is lost: to /admin/reset, or to a restart, which    *)
(* also ends the attempts in progress.                                     *)
Forget ==
    /\ forgets < MaxForgets
    /\ forgets' = forgets + 1
    /\ store' = [o \in Orders |-> None]
    /\ \/ UNCHANGED <<arrived, processing>>
       \/ arrived' = {} /\ processing' = {}
    /\ UNCHANGED <<paymentVars, clientVars, charged, declined, overlapped,
                   crashes>>

-----------------------------------------------------------------------------
RequestStep(r) ==
    Receive(r) \/ Insert(r) \/ Send(r) \/ GiveUp(r) \/ ShortCircuit(r)

GatewayStep ==
    \/ \E a \in arrived : Replay(a) \/ Miss(a) \/ Refuse(a)
    \/ \E a \in processing : Charge(a)

(* Every request has been answered; the service waits for more.            *)
Quiescent ==
    /\ \A r \in Requests : pc[r] # "charging"
    /\ UNCHANGED vars

Next ==
    \/ \E r \in Requests : RequestStep(r) \/ Crash(r)
    \/ GatewayStep
    \/ Forget
    \/ Quiescent

(* Handlers run on and every attempt's timeout fires in the end.  Nothing  *)
(* is assumed of the gateway.                                              *)
Fairness == \A r \in Requests : WF_vars(pc[r] # "idle" /\ RequestStep(r))

Spec == Init /\ [][Next]_vars /\ Fairness

-----------------------------------------------------------------------------
Attempts == [req : Requests, order : Orders, attempt : Nat]

(* The types of the tables, the handlers and the gateway's memory.         *)
TypeOK ==
    /\ row \in [Orders -> Results \cup {None}]
    /\ pc \in [Requests -> {"idle", "charging", "done", "crashed"}]
    /\ subject \in [Requests -> Orders \cup {None}]
    /\ attempts \in [Requests -> 0..GatewayAttempts]
    /\ outcome \in [Requests -> Results \cup {None, "waiting"}]
    /\ reply \in [Requests -> Results \cup {None, "http_500"}]
    /\ arrived \subseteq Attempts
    /\ processing \subseteq Attempts
    /\ store \in [Orders -> {"SUCCESS", "FAILED", None}]
    /\ charged \in [Orders -> Nat]
    /\ declined \subseteq Orders
    /\ overlapped \subseteq Orders
    /\ forgets \in 0..MaxForgets
    /\ crashes \in 0..MaxCrashes

(* A card is charged a second time only when two attempts for the order    *)
(* were inside the gateway's check-then-store window together, or the      *)
(* gateway lost its store: one attempt after the other is always replayed, *)
(* across retries, requests and crashes.                                   *)
ChargedAgainOnlyByOverlap ==
    \A o \in Orders : charged[o] > 1 => o \in overlapped \/ forgets > 0

(* An order is FAILED only if the gateway itself said no, never because    *)
(* nobody answered: that would be UNKNOWN.                                 *)
FailedMeansDeclined == \A o \in Orders : row[o] = "FAILED" => o \in declined

(* Every request that was accepted is answered, unless its handler dies.   *)
EveryRequestAnswered ==
    \A r \in Requests :
      pc[r] = "charging" ~> pc[r] = "done" \/ pc[r] = "crashed"

(* docs/api.md, Payments: a retried charge is never a second charge.       *)
NeverASecondCharge == \A o \in Orders : charged[o] <= 1

-----------------------------------------------------------------------------
(* The service implements PaymentLedger: what its callers have been told   *)
(* are the 200 responses.                                                  *)
Told == {<<subject[r], reply[r]>> : r \in {q \in Requests : reply[q] \in Results}}

Ledger == INSTANCE PaymentLedger WITH told <- Told

(* One decision per order, one answer for all its callers, and no SUCCESS  *)
(* without a charge, whatever concurrent requests, lost replies, crashes   *)
(* and a forgetful gateway do.                                             *)
ImplementsLedger == Ledger!Spec
=============================================================================
