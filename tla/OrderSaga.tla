------------------------------ MODULE OrderSaga ------------------------------
(***************************************************************************)
(* app/order/service.py: create_order and cancel_order, running            *)
(* concurrently in the threads of the Order service, against the Product   *)
(* service's stock (app/product/service.py, reserve_stock and              *)
(* release_stock) and the Payment service's rows (app/payment/service.py,  *)
(* charge), each in a database of its own and reached over HTTP through    *)
(* app/clients/product_client.py and payment_client.py.                    *)
(*                                                                         *)
(* An HTTP request is in `net` from when it is sent until the server       *)
(* executes it.  The client may stop waiting at any moment (a timeout, a   *)
(* transport error, a 5xx answer); the request it gave up on may still be  *)
(* executed later, or never.  A reply lost after the server executed the   *)
(* request is this same behaviour: the client gives up first and the       *)
(* server executes then, for giving up changes nothing anybody else sees.  *)
(*                                                                         *)
(* One product, one unit per order: ProductStock's several rows and their  *)
(* locks are not this module's subject.                                    *)
(***************************************************************************)
EXTENDS Integers, FiniteSets

CONSTANTS
    Orders,          \* the create requests, each named for the order it makes
    Cancels,         \* the cancel requests
    Capacity,        \* bound: units in stock at the start
    ProductAttempts, \* product_retry_attempts
    ChargeAttempts,  \* payment_retry_attempts, of the Payment client
    MaxCrashes       \* bound: handlers that die with their process

Actors == Orders \cup Cancels
None == "none"

ASSUME SagaAssumption ==
    /\ Orders \cap Cancels = {}
    /\ IsFiniteSet(Cancels)
    /\ None \notin Orders
    /\ Capacity \in Nat
    /\ ProductAttempts \in Nat \ {0}
    /\ ChargeAttempts \in Nat \ {0}
    /\ MaxCrashes \in Nat

VARIABLES
    order,    \* Order DB: the committed status of each order
    stock,    \* Product DB: stock_quantity
    taken,    \* Product DB history: units each order's reserves took ...
    given,    \* ... and units the releases for it gave back
    payment,  \* Payment DB: the status in each order's payments row
    events,   \* what publish_event delivered to the queue
    net,      \* requests sent and not yet executed
    pc,       \* where each handler is
    attempts, \* attempts made in a handler's current call
    answer,   \* what that call has come to
    heard,    \* payment_result.status of each create handler
    target,   \* the order each cancel handler loaded
    crashes

dbVars == <<order, stock, taken, given, payment>>
callVars == <<net, attempts, answer>>
vars == <<dbVars, events, callVars, pc, heard, target, crashes>>

(* Definitions named Something_Fault are faulty variants of Something: what *)
(* the property they belong to would catch.  No action uses them.          *)

Statuses == {"PENDING", "PAID", "PAYMENT_PENDING", "PAYMENT_FAILED",
             "CANCELLED"}
Results == {"SUCCESS", "FAILED", "UNKNOWN"}
Calling == {"reserve", "charge", "release"}
Ended == {"done", "raised", "crashed"}
Steps == Calling \cup Ended \cup {"idle", "insert", "created", "commit",
                                  "publish"}
Events == [type : {"OrderCreated", "OrderPaid", "OrderPaymentUnconfirmed",
                   "OrderPaymentFailed", "OrderCancelled"},
           order : Orders]

(* What a call to a service is at: no attempt under way, one under way, or *)
(* over with what the client function returned or raised.                  *)
Answers == {"none", "waiting", "ok", "rejected", "unavailable"} \cup Results

Init ==
    /\ order = [o \in Orders |-> None]
    /\ stock \in 0..Capacity
    /\ taken = [o \in Orders |-> 0]
    /\ given = [o \in Orders |-> 0]
    /\ payment = [o \in Orders |-> None]
    /\ events = {}
    /\ net = {}
    /\ pc = [p \in Actors |-> "idle"]
    /\ attempts = [p \in Actors |-> 0]
    /\ answer = [p \in Actors |-> None]
    /\ heard = [o \in Orders |-> None]
    /\ target = [c \in Cancels |-> None]
    /\ crashes = 0

-----------------------------------------------------------------------------
(* The call a handler is in: product_client.reserve and release, and       *)
(* payment_client.charge, which differ in the attempts they make and in    *)
(* what they report when none is answered.                                 *)
OrderOf(p) == IF p \in Orders THEN p ELSE target[p]

Budget_OneMore(p) ==
    1 + IF pc[p] = "charge" THEN ChargeAttempts ELSE ProductAttempts

Budget(p) == IF pc[p] = "charge" THEN ChargeAttempts ELSE ProductAttempts

NoAnswer_Failed(p) == IF pc[p] = "charge" THEN "FAILED" ELSE "unavailable"

NoAnswer(p) == IF pc[p] = "charge" THEN "UNKNOWN" ELSE "unavailable"

Send(p) ==
    /\ pc[p] \in Calling
    /\ answer[p] = None
    /\ attempts[p] < Budget(p)
    /\ attempts' = [attempts EXCEPT ![p] = @ + 1]
    /\ answer' = [answer EXCEPT ![p] = "waiting"]
    /\ net' = net \cup {[from |-> p, op |-> pc[p], order |-> OrderOf(p),
                         attempt |-> attempts[p] + 1]}
    /\ UNCHANGED <<dbVars, events, pc, heard, target, crashes>>

(* The attempt fails; after the last one RetriesExhausted ends the call.   *)
GiveUp_Forever(p) ==
    /\ answer[p] = "waiting"
    /\ answer' = [answer EXCEPT ![p] = None]
    /\ UNCHANGED <<dbVars, events, net, attempts, pc, heard, target, crashes>>

GiveUp(p) ==
    /\ answer[p] = "waiting"
    /\ answer' = [answer EXCEPT ![p] =
                    IF attempts[p] = Budget(p) THEN NoAnswer(p) ELSE None]
    /\ UNCHANGED <<dbVars, events, net, attempts, pc, heard, target, crashes>>

(* The bulkhead is full or the circuit open: no attempt is made.           *)
ShortCircuit(p) ==
    /\ pc[p] \in Calling
    /\ answer[p] = None
    /\ attempts[p] = 0
    /\ answer' = [answer EXCEPT ![p] = NoAnswer(p)]
    /\ UNCHANGED <<dbVars, events, net, attempts, pc, heard, target, crashes>>

(* The reply reaches the client only if it still waits for this attempt.   *)
Reply(m, a) ==
    answer' = IF /\ answer[m.from] = "waiting"
                 /\ pc[m.from] = m.op
                 /\ attempts[m.from] = m.attempt
              THEN [answer EXCEPT ![m.from] = a]
              ELSE answer

-----------------------------------------------------------------------------
(* The servers, each executing one request in one transaction.             *)
InStock_OffByOne == stock >= 0

InStock == stock > 0

ServeReserve(m) ==
    /\ m.op = "reserve"
    /\ IF InStock
       THEN /\ stock' = stock - 1
            /\ taken' = [taken EXCEPT ![m.order] = @ + 1]
            /\ Reply(m, "ok")
       ELSE /\ Reply(m, "rejected")
            /\ UNCHANGED <<stock, taken>>
    /\ UNCHANGED <<given, payment>>

ServeRelease(m) ==
    /\ m.op = "release"
    /\ stock' = stock + 1
    /\ given' = [given EXCEPT ![m.order] = @ + 1]
    /\ Reply(m, "ok")
    /\ UNCHANGED <<taken, payment>>

(* The Payment service answers from the order's row, or decides it; of two *)
(* requests that both find no row, the later insert fails with a 5xx,      *)
(* which is the client giving up on a request that is never executed.      *)
ServeCharge(m) ==
    /\ m.op = "charge"
    /\ IF payment[m.order] # None
       THEN /\ Reply(m, payment[m.order])
            /\ UNCHANGED payment
       ELSE \E r \in Results :
              /\ payment' = [payment EXCEPT ![m.order] = r]
              /\ Reply(m, r)
    /\ UNCHANGED <<stock, taken, given>>

Serve(m) ==
    /\ ServeReserve(m) \/ ServeRelease(m) \/ ServeCharge(m)
    /\ net' = net \ {m}
    /\ UNCHANGED <<order, events, attempts, pc, heard, target, crashes>>

-----------------------------------------------------------------------------
(* Handlers move on to `step` with no call under way.                      *)
GoTo(p, step) ==
    /\ pc' = [pc EXCEPT ![p] = step]
    /\ attempts' = [attempts EXCEPT ![p] = 0]
    /\ answer' = [answer EXCEPT ![p] = None]
    /\ UNCHANGED <<net, crashes>>

(* publish_event is best effort: three attempts, then the event is lost.   *)
Publish(type, o) ==
    events' = events \/ events' = events \cup {[type |-> type, order |-> o]}

(* create_order: the customer exists, or 404.                              *)
Start(o) ==
    /\ pc[o] = "idle"
    /\ GoTo(o, "reserve") \/ GoTo(o, "done")
    /\ UNCHANGED <<dbVars, events, heard, target>>

(* 409 and 404 from Product end the request, as does 503.                  *)
ReserveReturns(o) ==
    /\ pc[o] = "reserve"
    /\ answer[o] \in {"ok", "rejected", "unavailable"}
    /\ GoTo(o, IF answer[o] = "ok" THEN "insert" ELSE "done")
    /\ UNCHANGED <<dbVars, events, heard, target>>

Insert(o) ==
    /\ pc[o] = "insert"
    /\ order' = [order EXCEPT ![o] = "PENDING"]
    /\ GoTo(o, "created")
    /\ UNCHANGED <<stock, taken, given, payment, events, heard, target>>

(* PaymentRequest requires amount > 0: building it for an order whose line *)
(* totals all round to 0.00 raises, with the order committed and announced.*)
PublishCreated(o) ==
    /\ pc[o] = "created"
    /\ Publish("OrderCreated", o)
    /\ GoTo(o, "charge") \/ GoTo(o, "raised")
    /\ UNCHANGED <<dbVars, heard, target>>

(* The outcome is announced before it is committed (Commit).  Stock is     *)
(* only released on a definite decline.                                    *)
ReleaseAfter_AnyFailure(result) == result # "SUCCESS"

ReleaseAfter(result) == result = "FAILED"

ChargeReturns(o) ==
    /\ pc[o] = "charge"
    /\ answer[o] \in Results
    /\ heard' = [heard EXCEPT ![o] = answer[o]]
    /\ IF ReleaseAfter(answer[o])
       THEN GoTo(o, "release") /\ UNCHANGED events
       ELSE /\ GoTo(o, "commit")
            /\ Publish(IF answer[o] = "SUCCESS" THEN "OrderPaid"
                       ELSE "OrderPaymentUnconfirmed", o)
    /\ UNCHANGED <<dbVars, target>>

(* A failed compensation is swallowed: the stock stays reserved.           *)
CompensationReturns(o) ==
    /\ pc[o] = "release"
    /\ answer[o] \in {"ok", "unavailable"}
    /\ Publish("OrderPaymentFailed", o)
    /\ GoTo(o, "commit")
    /\ UNCHANGED <<dbVars, heard, target>>

StatusFor_UnknownFails(result) ==
    IF result = "SUCCESS" THEN "PAID" ELSE "PAYMENT_FAILED"

StatusFor(result) ==
    CASE result = "SUCCESS" -> "PAID"
      [] result = "UNKNOWN" -> "PAYMENT_PENDING"
      [] result = "FAILED"  -> "PAYMENT_FAILED"

(* The UPDATE is by primary key alone: whatever the row holds by now.      *)
Commit(o) ==
    /\ pc[o] = "commit"
    /\ order' = [order EXCEPT ![o] = StatusFor(heard[o])]
    /\ GoTo(o, "done")
    /\ UNCHANGED <<stock, taken, given, payment, events, heard, target>>

-----------------------------------------------------------------------------
(* cancel_order: the status is checked once, when the row is loaded.       *)
Cancellable_AlsoUncertain == {"PENDING", "PAID", "PAYMENT_PENDING"}

Cancellable == {"PENDING", "PAID"}

Load(c) ==
    /\ pc[c] = "idle"
    /\ \E o \in Orders :
         IF order[o] \in Cancellable
         THEN target' = [target EXCEPT ![c] = o] /\ GoTo(c, "release")
         ELSE GoTo(c, "done") /\ UNCHANGED target
    /\ UNCHANGED <<dbVars, events, heard>>

(* Unlike a compensation, a cancel stops (503) unless the release answered.*)
Confirmed_Anyway(reply) == TRUE

Confirmed(reply) == reply = "ok"

CancelReleased(c) ==
    /\ pc[c] = "release"
    /\ answer[c] \in {"ok", "unavailable"}
    /\ GoTo(c, IF Confirmed(answer[c]) THEN "commit" ELSE "done")
    /\ UNCHANGED <<dbVars, events, heard, target>>

CommitCancel(c) ==
    /\ pc[c] = "commit"
    /\ order' = [order EXCEPT ![target[c]] = "CANCELLED"]
    /\ GoTo(c, "publish")
    /\ UNCHANGED <<stock, taken, given, payment, events, heard, target>>

PublishCancelled(c) ==
    /\ pc[c] = "publish"
    /\ Publish("OrderCancelled", target[c])
    /\ GoTo(c, "done")
    /\ UNCHANGED <<dbVars, heard, target>>

(* The process running a handler dies; requests it sent live on.           *)
Crash(p) ==
    /\ crashes < MaxCrashes
    /\ pc[p] \notin Ended \cup {"idle"}
    /\ crashes' = crashes + 1
    /\ pc' = [pc EXCEPT ![p] = "crashed"]
    /\ UNCHANGED <<dbVars, events, callVars, heard, target>>

CallStep(p) == Send(p) \/ GiveUp(p) \/ ShortCircuit(p)

CreateStep(o) ==
    \/ Start(o) \/ ReserveReturns(o) \/ Insert(o) \/ PublishCreated(o)
    \/ ChargeReturns(o) \/ CompensationReturns(o) \/ Commit(o)

CancelStep(c) ==
    Load(c) \/ CancelReleased(c) \/ CommitCancel(c) \/ PublishCancelled(c)

(* All requests have ended; the system waits for more.                     *)
Quiescent ==
    /\ \A p \in Actors : pc[p] \in Ended \cup {"idle"}
    /\ UNCHANGED vars

Next ==
    \/ \E p \in Actors : CallStep(p) \/ Crash(p)
    \/ \E m \in net : Serve(m)
    \/ \E o \in Orders : CreateStep(o)
    \/ \E c \in Cancels : CancelStep(c)
    \/ Quiescent

(* A handler once started runs on: its thread is scheduled, and no wait    *)
(* for an attempt outlasts its timeout.  Nothing is assumed of the servers *)
(* or the network.                                                         *)
Fairness ==
    /\ \A o \in Orders :
         WF_vars(pc[o] # "idle" /\ (CallStep(o) \/ CreateStep(o)))
    /\ \A c \in Cancels :
         WF_vars(pc[c] # "idle" /\ (CallStep(c) \/ CancelStep(c)))

Spec == Init /\ [][Next]_vars /\ Fairness

-----------------------------------------------------------------------------
Requests == [from : Actors, op : Calling, order : Orders, attempt : Nat]

(* The types of the databases, the requests in flight and the handlers.    *)
TypeOK ==
    /\ order \in [Orders -> Statuses \cup {None}]
    /\ stock \in Nat
    /\ taken \in [Orders -> Nat]
    /\ given \in [Orders -> Nat]
    /\ payment \in [Orders -> Results \cup {None}]
    /\ events \subseteq Events
    /\ net \subseteq Requests
    /\ pc \in [Actors -> Steps]
    /\ attempts \in [Actors -> Nat]
    /\ answer \in [Actors -> Answers]
    /\ heard \in [Orders -> Results \cup {None}]
    /\ target \in [Cancels -> Orders \cup {None}]
    /\ crashes \in 0..MaxCrashes

(* A status or event that says what the payment came to says what the      *)
(* Payment service's row says, however many attempts were made or lost,    *)
(* whichever of them decided the row, and whatever cancels did meanwhile.  *)
AgreesWithPayments ==
    \A o \in Orders :
      /\ order[o] = "PAID" => payment[o] = "SUCCESS"
      /\ order[o] = "PAYMENT_FAILED" => payment[o] = "FAILED"
      /\ [type |-> "OrderPaid", order |-> o] \in events
           => payment[o] = "SUCCESS"
      /\ [type |-> "OrderPaymentFailed", order |-> o] \in events
           => payment[o] = "FAILED"

(* From its insert on, an order's goods are reserved until its handler has *)
(* heard a definite decline or a cancel has got past its status check:     *)
(* neither a lost answer nor a retry, a late request or a crash gives the  *)
(* stock of a possibly paid order back (the rule of PAYMENT_PENDING).      *)
GoodsHeld ==
    \A o \in Orders :
      order[o] # None /\ given[o] >= taken[o]
        => heard[o] = "FAILED" \/ \E c \in Cancels : target[c] = o

(* An order is only called cancelled, in its row or to the event consumers,*)
(* once its goods are back in stock: a release nobody confirmed does not   *)
(* cancel, however the create handler of the same order interleaves.       *)
CancelledIsRestocked ==
    \A o \in Orders :
      \/ order[o] = "CANCELLED"
      \/ [type |-> "OrderCancelled", order |-> o] \in events
      => given[o] >= 1

(* Consumers hear of a payment before the order's row shows it.  Unless its*)
(* process dies in between, the row catches up with what they were told:   *)
(* retries, late answers and cancels, which rewrite the same row, leave it *)
(* at nothing else but a cancel.  And no event is about an order that is   *)
(* not in the table.                                                       *)
Announces == [OrderPaid |-> "PAID",
              OrderPaymentUnconfirmed |-> "PAYMENT_PENDING",
              OrderPaymentFailed |-> "PAYMENT_FAILED"]

AnnouncedIsShown ==
    \A e \in events :
      /\ order[e.order] # None
      /\ e.type \in DOMAIN Announces /\ pc[e.order] = "done"
           => \/ order[e.order] = Announces[e.type]
              \/ /\ order[e.order] = "CANCELLED"
                 /\ \E c \in Cancels : target[c] = e.order

(* Goods may come back more than once - a cancel beside a compensation or  *)
(* another cancel, a retry of a release that was only slow - but never more*)
(* often than the attempts of the handlers with a reason to release them.  *)
GivenBackBounded ==
    \A o \in Orders :
      LET cancelling == {c \in Cancels : target[c] = o}
          declined == IF heard[o] = "FAILED" THEN 1 ELSE 0
      IN  given[o] <= ProductAttempts * (Cardinality(cancelling) + declined)

(* An order whose handlers have ended is settled for good, except that a   *)
(* PAID or abandoned PENDING one may be cancelled: no later request moves  *)
(* it, not even one whose calls are retried.                               *)
Settled(o, s) ==
    /\ order[o] = s
    /\ pc[o] \in Ended
    /\ \A c \in Cancels : target[c] = o => pc[c] \in Ended

SettledForGood ==
    \A o \in Orders :
      \A s \in {"PAYMENT_PENDING", "PAYMENT_FAILED", "CANCELLED"} :
        [](Settled(o, s) => [](order[o] = s))

(* How the handlers' state shows OrderBook's: a cancel is accepted when    *)
(* its handler gets past the status check, goods are back as soon as a     *)
(* release has been executed once, and a creation is concluded when its    *)
(* handler has committed the outcome.                                      *)
Book == INSTANCE OrderBook WITH
    status <- order,
    cancelling <- {o \in Orders : \E c \in Cancels : target[c] = o},
    restocked <- {o \in Orders : given[o] > 0},
    concluded <- {o \in Orders : pc[o] = "done" /\ order[o] # None}

(* So the requests for an order, in any number and order, do no more than  *)
(* the book allows: its status never outruns its payment, nor a cancel or  *)
(* a restock its reason.                                                   *)
ImplementsBook == Book!Spec

(* Every request ends: with an answer, an exception or its process.        *)
EveryRequestEnds ==
    \A p \in Actors : pc[p] # "idle" ~> pc[p] \in Ended

(* docs/api.md, Orders: while an order is PAYMENT_PENDING its stock is not *)
(* released and it cannot be cancelled.                                    *)
PaymentPendingHoldsStock ==
    \A o \in Orders :
      order[o] = "PAYMENT_PENDING" => given[o] < taken[o]
=============================================================================
