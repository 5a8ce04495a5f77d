--------------------------- MODULE OrderSagaProofs ---------------------------
(***************************************************************************)
(* What OrderSaga promises for any number of orders and cancel requests,   *)
(* any stock, any retry budgets and any number of crashes, and that it     *)
(* implements OrderBook.                                                   *)
(***************************************************************************)
EXTENDS OrderSaga, FiniteSetTheorems, TLAPS

(* A cancel handler past its status check has loaded an order; one that    *)
(* has not started has none.  It never takes a step of create_order.       *)
CancelInv ==
    \A c \in Cancels :
      /\ pc[c] \in {"idle", "release", "commit", "publish"} \cup Ended
      /\ pc[c] \in {"release", "commit", "publish"} => target[c] \in Orders
      /\ pc[c] = "idle" => target[c] = None

(* A create handler has heard nothing before the charge returns, and a     *)
(* decline or some result in the steps after it.                           *)
CreateInv ==
    \A o \in Orders :
      /\ pc[o] \in {"idle", "reserve", "insert", "created", "charge"}
           => heard[o] = None
      /\ pc[o] = "release" => heard[o] = "FAILED"
      /\ pc[o] = "commit" => heard[o] \in Results

TypeInv == TypeOK /\ CancelInv /\ CreateInv

(* Moving a handler on keeps the types of what GoTo writes.                *)
LEMMA GoToTypes ==
    ASSUME TypeOK, NEW p \in Actors, NEW step \in Steps, GoTo(p, step)
    PROVE  /\ (net \subseteq Requests)'
           /\ (pc \in [Actors -> Steps])'
           /\ (attempts \in [Actors -> Nat])'
           /\ (answer \in [Actors -> Answers])'
           /\ (crashes \in 0..MaxCrashes)'
           /\ pc'[p] = step
           /\ \A q \in Actors : q # p => pc'[q] = pc[q]
<1>1. None \in Answers
  BY DEF None, Answers
<1> QED
  BY <1>1 DEF TypeOK, GoTo

(* A publish adds at most the event it names.                              *)
LEMMA PublishTypes ==
    ASSUME TypeOK, NEW o \in Orders, NEW type, Publish(type, o),
           type \in {"OrderCreated", "OrderPaid", "OrderPaymentUnconfirmed",
                     "OrderPaymentFailed", "OrderCancelled"}
    PROVE  (events \subseteq Events)'
BY DEF TypeOK, Publish, Events

(* Every variable keeps its type.  CancelInv is what makes it inductive:   *)
(* the request a cancel sends names the order its handler has loaded.      *)
THEOREM TypeCorrect == Spec => []TypeInv
<1> USE SagaAssumption DEF SagaAssumption
<1>1. Init => TypeInv
  BY DEF Init, TypeInv, TypeOK, CancelInv, CreateInv, Ended, Calling, Steps, Answers,
         Actors, None
<1>2. TypeInv /\ [Next]_vars => TypeInv'
  <2> SUFFICES ASSUME TypeInv, [Next]_vars PROVE TypeInv'
    OBVIOUS
  <2> USE DEF TypeInv, TypeOK, CancelInv, CreateInv, Actors
  <2>1. ASSUME NEW p \in Actors, Send(p) PROVE TypeInv'
    <3>1. OrderOf(p) \in Orders
      BY <2>1 DEF Send, OrderOf, Calling, Ended
    <3>2. (net \subseteq Requests)'
      BY <2>1, <3>1 DEF Send, Requests
    <3> QED
      BY <2>1, <3>2 DEF Send, dbVars, Answers
  <2>2. ASSUME NEW p \in Actors, GiveUp(p) PROVE TypeInv'
    BY <2>2 DEF GiveUp, NoAnswer, dbVars, Answers, Results, None
  <2>3. ASSUME NEW p \in Actors, ShortCircuit(p) PROVE TypeInv'
    BY <2>3 DEF ShortCircuit, NoAnswer, dbVars, Answers, Results
  <2>4. ASSUME NEW p \in Actors, Crash(p) PROVE TypeInv'
    BY <2>4 DEF Crash, dbVars, callVars, Steps, Ended
  <2>5. ASSUME NEW m \in net, Serve(m) PROVE TypeInv'
    <3>1. m \in Requests /\ m.order \in Orders /\ m.from \in Actors
      BY DEF Requests
    <3>2. CASE ServeReserve(m)
      BY <2>5, <3>1, <3>2 DEF Serve, ServeReserve, InStock, Reply, Answers
    <3>3. CASE ServeRelease(m)
      BY <2>5, <3>1, <3>3 DEF Serve, ServeRelease, Reply, Answers
    <3>4. CASE ServeCharge(m)
      BY <2>5, <3>1, <3>4 DEF Serve, ServeCharge, Reply, Answers
    <3> QED
      BY <2>5, <3>2, <3>3, <3>4 DEF Serve
  <2>6. ASSUME NEW o \in Orders, CreateStep(o) PROVE TypeInv'
    <3>1. o \in Actors /\ o \notin Cancels
      OBVIOUS
    <3>2. ASSUME NEW step \in Steps, GoTo(o, step), UNCHANGED target
          PROVE  CancelInv'
      BY <3>1, <3>2, GoToTypes
    <3>3. CASE Start(o)
      BY <3>1, <3>2, <3>3, GoToTypes DEF Start, Steps, Ended, Calling, dbVars
    <3>4. CASE ReserveReturns(o)
      BY <3>1, <3>2, <3>4, GoToTypes
         DEF ReserveReturns, Steps, Ended, Calling, dbVars
    <3>5. CASE Insert(o)
      BY <3>1, <3>2, <3>5, GoToTypes DEF Insert, Steps, Statuses
    <3>6. CASE PublishCreated(o)
      BY <3>1, <3>2, <3>6, GoToTypes, PublishTypes
         DEF PublishCreated, Steps, Ended, Calling, dbVars
    <3>7. CASE ChargeReturns(o)
      BY <3>1, <3>2, <3>7, GoToTypes, PublishTypes
         DEF ChargeReturns, ReleaseAfter, Steps, Calling, Results, dbVars
    <3>8. CASE CompensationReturns(o)
      BY <3>1, <3>2, <3>8, GoToTypes, PublishTypes
         DEF CompensationReturns, Steps, Results, dbVars
    <3>9. CASE Commit(o)
      <4>1. StatusFor(heard[o]) \in Statuses \cup {None}
        BY <3>9 DEF Commit, StatusFor, Statuses, Results
      <4> QED
        BY <4>1, <3>1, <3>2, <3>9, GoToTypes DEF Commit, Steps, Ended
    <3> QED
      BY <2>6, <3>3, <3>4, <3>5, <3>6, <3>7, <3>8, <3>9 DEF CreateStep
  <2>7. ASSUME NEW c \in Cancels, CancelStep(c) PROVE TypeInv'
    <3>1. c \in Actors
      OBVIOUS
    <3>2. CASE Load(c)
      <4>1. PICK o \in Orders :
              \/ target' = [target EXCEPT ![c] = o] /\ GoTo(c, "release")
              \/ GoTo(c, "done") /\ UNCHANGED target
        BY <3>2 DEF Load
      <4>2. CASE target' = [target EXCEPT ![c] = o] /\ GoTo(c, "release")
        <5>1. "release" \in Steps
          BY DEF Steps, Calling
        <5>2. TypeOK'
          BY <3>1, <3>2, <4>2, <5>1, GoToTypes DEF Load, dbVars
        <5>3. CancelInv'
          BY <3>1, <4>2, <5>1, GoToTypes
        <5>4. CreateInv'
          BY <3>1, <3>2, <4>2, <5>1, GoToTypes DEF Load
        <5> QED
          BY <5>2, <5>3, <5>4
      <4>3. CASE GoTo(c, "done") /\ UNCHANGED target
        BY <3>1, <3>2, <4>3, GoToTypes DEF Load, Steps, Ended, Calling, dbVars
      <4> QED
        BY <4>1, <4>2, <4>3
    <3>3. CASE CancelReleased(c)
      BY <3>1, <3>3, GoToTypes DEF CancelReleased, Steps, Ended, dbVars
    <3>4. CASE CommitCancel(c)
      BY <3>1, <3>4, GoToTypes DEF CommitCancel, Steps, Ended, Statuses
    <3>5. CASE PublishCancelled(c)
      BY <3>1, <3>5, GoToTypes, PublishTypes
         DEF PublishCancelled, Steps, Ended, dbVars
    <3> QED
      BY <2>7, <3>2, <3>3, <3>4, <3>5 DEF CancelStep
  <2>8. CASE UNCHANGED vars
    BY <2>8 DEF vars, dbVars, callVars
  <2> QED
    BY <2>1, <2>2, <2>3, <2>4, <2>5, <2>6, <2>7, <2>8
       DEF Next, CallStep, Quiescent
<1> QED
  BY <1>1, <1>2, PTL DEF Spec

(* The types alone.                                                        *)
THEOREM TypesKept == Spec => []TypeOK
<1>1. TypeInv => TypeOK
  BY DEF TypeInv
<1> QED
  BY <1>1, TypeCorrect, PTL

(* A request in flight names the order of the handler that sent it, which  *)
(* has started; cancels only ever send releases.                           *)
NetInv ==
    \A m \in net :
      /\ m.order = OrderOf(m.from)
      /\ pc[m.from] # "idle"
      /\ m.from \in Cancels => m.op = "release"

(* So late requests touch the stock and payment of their own order only.   *)
THEOREM NetCorrect == Spec => []NetInv
<1> USE SagaAssumption DEF SagaAssumption
<1>1. Init => NetInv
  BY DEF Init, NetInv
<1>2. TypeInv /\ NetInv /\ [Next]_vars => NetInv'
  <2> SUFFICES ASSUME TypeInv, NetInv, [Next]_vars PROVE NetInv'
    OBVIOUS
  <2> USE DEF TypeInv, TypeOK, CancelInv, NetInv, OrderOf, Actors, Requests,
              dbVars, callVars
  <2>1. ASSUME NEW p \in Actors, Send(p) PROVE NetInv'
    BY <2>1 DEF Send, Calling, Ended
  <2>2. ASSUME NEW p \in Actors, GiveUp(p) \/ ShortCircuit(p) \/ Crash(p)
        PROVE  NetInv'
    BY <2>2 DEF GiveUp, ShortCircuit, Crash
  <2>3. ASSUME NEW m \in net, Serve(m) PROVE NetInv'
    BY <2>3 DEF Serve
  <2>4. ASSUME NEW o \in Orders, CreateStep(o) PROVE NetInv'
    <3>1. UNCHANGED <<net, target>> /\ \E s \in Steps \ {"idle"} : GoTo(o, s)
      BY <2>4 DEF CreateStep, Start, ReserveReturns, Insert, PublishCreated,
                  ChargeReturns, CompensationReturns, Commit, GoTo, Steps,
                  Calling, Ended
    <3> QED
      BY <3>1 DEF GoTo
  <2>5. ASSUME NEW c \in Cancels, CancelStep(c) PROVE NetInv'
    <3>1. /\ UNCHANGED net
          /\ \E s \in Steps \ {"idle"} : GoTo(c, s)
          /\ \A d \in Cancels : pc[d] # "idle" => target'[d] = target[d]
      BY <2>5 DEF CancelStep, Load, CancelReleased, CommitCancel,
                  PublishCancelled, GoTo, Steps, Calling, Ended
    <3> QED
      BY <3>1 DEF GoTo
  <2>6. CASE UNCHANGED vars
    BY <2>6 DEF vars
  <2> QED
    BY <2>1, <2>2, <2>3, <2>4, <2>5, <2>6 DEF Next, CallStep, Quiescent
<1> QED
  BY <1>1, <1>2, TypeCorrect, PTL DEF Spec

(* What a client has been told of a payment, and what a handler remembers  *)
(* of it, is in the order's payments row; a row once written is for good.  *)
PayInv ==
    /\ \A o \in Orders :
         pc[o] = "charge" /\ answer[o] \in {"SUCCESS", "FAILED"}
           => payment[o] = answer[o]
    /\ \A o \in Orders :
         heard[o] \in {"SUCCESS", "FAILED"} => payment[o] = heard[o]
    /\ AgreesWithPayments

(* ServeCharge answers with the row, and no other step writes rows or      *)
(* statuses without having heard it.                                       *)
LEMMA PayHolds == Spec => []PayInv
<1> USE SagaAssumption DEF SagaAssumption
<1>1. Init => PayInv
  BY DEF Init, PayInv, AgreesWithPayments, None, Actors
<1>2. TypeInv /\ NetInv /\ PayInv /\ [Next]_vars => PayInv'
  <2> SUFFICES ASSUME TypeInv, NetInv, PayInv, [Next]_vars PROVE PayInv'
    OBVIOUS
  <2> USE DEF TypeInv, TypeOK, CancelInv, CreateInv, NetInv, OrderOf, Actors,
              Requests, PayInv, AgreesWithPayments, dbVars, callVars
  <2>1. ASSUME NEW p \in Actors, CallStep(p) \/ Crash(p) PROVE PayInv'
    BY <2>1 DEF CallStep, Send, GiveUp, ShortCircuit, NoAnswer, Crash, None
  <2>2. ASSUME NEW m \in net, Serve(m) PROVE PayInv'
    <3>1. CASE ServeReserve(m) \/ ServeRelease(m)
      BY <2>2, <3>1 DEF Serve, ServeReserve, ServeRelease, Reply
    <3>2. CASE ServeCharge(m)
      <4>1. /\ m.from = m.order /\ m.order \in Orders
            /\ \A o \in Orders : payment[o] # None => payment'[o] = payment[o]
            /\ Reply(m, payment'[m.order])
        BY <2>2, <3>2 DEF Serve, ServeCharge
      <4> QED
        BY <2>2, <4>1 DEF Serve, Reply, None
    <3> QED
      BY <2>2, <3>1, <3>2 DEF Serve
  <2>3. ASSUME NEW o \in Orders, CreateStep(o) PROVE PayInv'
    <3>1. CASE Start(o) \/ ReserveReturns(o) \/ Insert(o)
      BY <3>1 DEF Start, ReserveReturns, Insert, GoTo, None
    <3>2. CASE PublishCreated(o)
      BY <3>2 DEF PublishCreated, Publish, GoTo, None
    <3>3. CASE ChargeReturns(o)
      BY <3>3 DEF ChargeReturns, ReleaseAfter, Publish, GoTo, None
    <3>4. CASE CompensationReturns(o)
      BY <3>4 DEF CompensationReturns, Publish, GoTo, None
    <3>5. CASE Commit(o)
      BY <3>5 DEF Commit, StatusFor, Results, GoTo, None
    <3> QED
      BY <2>3, <3>1, <3>2, <3>3, <3>4, <3>5 DEF CreateStep
  <2>4. ASSUME NEW c \in Cancels, CancelStep(c) PROVE PayInv'
    BY <2>4 DEF CancelStep, Load, CancelReleased, CommitCancel,
                PublishCancelled, Publish, GoTo, None
  <2>5. CASE UNCHANGED vars
    BY <2>5 DEF vars
  <2> QED
    BY <2>1, <2>2, <2>3, <2>4, <2>5 DEF Next, Quiescent
<1> QED
  BY <1>1, <1>2, TypeCorrect, NetCorrect, PTL DEF Spec

(* No order is called paid or failed against the Payment service's row.    *)
THEOREM PaymentsAgree == Spec => []AgreesWithPayments
<1>1. PayInv => AgreesWithPayments
  BY DEF PayInv
<1> QED
  BY <1>1, PayHolds, PTL

(* Somebody has had reason to give the order's stock back.                 *)
MayRelease(o) == heard[o] = "FAILED" \/ \E c \in Cancels : target[c] = o

(* Stock is taken before the order row exists, and only given back, or on  *)
(* its way back, once MayRelease holds, which it then does for good.       *)
StockInv ==
    /\ \A m \in net : m.op = "release" => MayRelease(m.order)
    /\ \A o \in Orders : given[o] > 0 => MayRelease(o)
    /\ \A c \in Cancels : target[c] # None => order[target[c]] # None
    /\ \A o \in Orders :
         \/ pc[o] = "reserve" /\ answer[o] = "ok"
         \/ pc[o] \in {"insert", "created", "charge", "release", "commit"}
         \/ order[o] # None
         => taken[o] > 0

(* Releases are sent for no other reason, and a served reserve counts      *)
(* before the order row is written.                                        *)
LEMMA StockHolds == Spec => []StockInv
<1> USE SagaAssumption DEF SagaAssumption
<1>1. Init => StockInv
  BY DEF Init, StockInv, None, Actors
<1>2. TypeInv /\ NetInv /\ StockInv /\ [Next]_vars => StockInv'
  <2> SUFFICES ASSUME TypeInv, NetInv, StockInv, [Next]_vars PROVE StockInv'
    OBVIOUS
  <2> USE DEF TypeInv, TypeOK, CancelInv, CreateInv, NetInv, OrderOf, Actors,
              Requests, StockInv, MayRelease, dbVars, callVars
  <2>1. ASSUME NEW p \in Actors, CallStep(p) \/ Crash(p) PROVE StockInv'
    BY <2>1 DEF CallStep, Send, GiveUp, ShortCircuit, NoAnswer, Crash, None
  <2>2. ASSUME NEW m \in net, Serve(m) PROVE StockInv'
    <3>1. m \in Requests /\ m.order \in Orders
      OBVIOUS
    <3>2. CASE ServeReserve(m)
      BY <2>2, <3>1, <3>2 DEF Serve, ServeReserve, Reply
    <3>3. CASE ServeRelease(m)
      BY <2>2, <3>1, <3>3 DEF Serve, ServeRelease, Reply
    <3>4. CASE ServeCharge(m)
      BY <2>2, <3>1, <3>4 DEF Serve, ServeCharge, Reply
    <3> QED
      BY <2>2, <3>2, <3>3, <3>4 DEF Serve
  <2>3. ASSUME NEW o \in Orders, CreateStep(o) PROVE StockInv'
    <3>1. CASE Start(o) \/ ReserveReturns(o) \/ Insert(o)
      BY <3>1 DEF Start, ReserveReturns, Insert, GoTo, None
    <3>2. CASE PublishCreated(o)
      BY <3>2 DEF PublishCreated, GoTo
    <3>3. CASE ChargeReturns(o)
      BY <3>3 DEF ChargeReturns, ReleaseAfter, GoTo, None
    <3>4. CASE CompensationReturns(o)
      BY <3>4 DEF CompensationReturns, GoTo
    <3>5. CASE Commit(o)
      BY <3>5 DEF Commit, StatusFor, Results, GoTo, None
    <3> QED
      BY <2>3, <3>1, <3>2, <3>3, <3>4, <3>5 DEF CreateStep
  <2>4. ASSUME NEW c \in Cancels, CancelStep(c) PROVE StockInv'
    <3>1. CASE Load(c)
      BY <3>1 DEF Load, Cancellable, GoTo, None
    <3>2. CASE CancelReleased(c) \/ CommitCancel(c) \/ PublishCancelled(c)
      BY <3>2 DEF CancelReleased, CommitCancel, PublishCancelled, GoTo, None
    <3> QED
      BY <2>4, <3>1, <3>2 DEF CancelStep
  <2>5. CASE UNCHANGED vars
    BY <2>5 DEF vars
  <2> QED
    BY <2>1, <2>2, <2>3, <2>4, <2>5 DEF Next, Quiescent
<1> QED
  BY <1>1, <1>2, TypeCorrect, NetCorrect, PTL DEF Spec

(* The goods of an order nobody declined or cancelled are held.            *)
THEOREM GoodsAreHeld == Spec => []GoodsHeld
<1>1. TypeInv /\ StockInv => GoodsHeld
  BY DEF TypeInv, TypeOK, StockInv, MayRelease, GoodsHeld
<1> QED
  BY <1>1, StockHolds, TypeCorrect, PTL

(* A cancel handler goes past its release only once that was executed.     *)
RestockInv ==
    /\ \A c \in Cancels :
         \/ pc[c] = "release" /\ answer[c] = "ok"
         \/ pc[c] \in {"commit", "publish"}
         => given[target[c]] > 0
    /\ CancelledIsRestocked

(* A client confirms a release only after it has been served.              *)
LEMMA RestockHolds == Spec => []RestockInv
<1> USE SagaAssumption DEF SagaAssumption
<1>1. Init => RestockInv
  BY DEF Init, RestockInv, CancelledIsRestocked, None, Actors
<1>2. TypeInv /\ NetInv /\ RestockInv /\ [Next]_vars => RestockInv'
  <2> SUFFICES ASSUME TypeInv, NetInv, RestockInv, [Next]_vars
               PROVE  RestockInv'
    OBVIOUS
  <2> USE DEF TypeInv, TypeOK, CancelInv, CreateInv, NetInv, OrderOf, Actors,
              Requests, RestockInv, CancelledIsRestocked, dbVars, callVars
  <2>1. ASSUME NEW p \in Actors, CallStep(p) \/ Crash(p) PROVE RestockInv'
    BY <2>1 DEF CallStep, Send, GiveUp, ShortCircuit, NoAnswer, Crash, None
  <2>2. ASSUME NEW m \in net, Serve(m) PROVE RestockInv'
    <3>1. m \in Requests /\ m.order \in Orders
      OBVIOUS
    <3>2. CASE ServeReserve(m)
      BY <2>2, <3>1, <3>2 DEF Serve, ServeReserve, Reply
    <3>3. CASE ServeRelease(m)
      BY <2>2, <3>1, <3>3 DEF Serve, ServeRelease, Reply
    <3>4. CASE ServeCharge(m)
      BY <2>2, <3>1, <3>4 DEF Serve, ServeCharge, Reply
    <3> QED
      BY <2>2, <3>2, <3>3, <3>4 DEF Serve
  <2>3. ASSUME NEW o \in Orders, CreateStep(o) PROVE RestockInv'
    <3>1. CASE Start(o) \/ ReserveReturns(o) \/ Insert(o)
      BY <3>1 DEF Start, ReserveReturns, Insert, GoTo, None
    <3>2. CASE PublishCreated(o)
      BY <3>2 DEF PublishCreated, Publish, GoTo
    <3>3. CASE ChargeReturns(o)
      BY <3>3 DEF ChargeReturns, Publish, GoTo
    <3>4. CASE CompensationReturns(o)
      BY <3>4 DEF CompensationReturns, Publish, GoTo
    <3>5. CASE Commit(o)
      BY <3>5 DEF Commit, StatusFor, Results, GoTo
    <3> QED
      BY <2>3, <3>1, <3>2, <3>3, <3>4, <3>5 DEF CreateStep
  <2>4. ASSUME NEW c \in Cancels, CancelStep(c) PROVE RestockInv'
    <3>1. CASE Load(c)
      BY <3>1 DEF Load, GoTo, None
    <3>2. CASE CancelReleased(c) \/ CommitCancel(c)
      BY <3>2 DEF CancelReleased, Confirmed, CommitCancel, GoTo
    <3>3. CASE PublishCancelled(c)
      BY <3>3 DEF PublishCancelled, Publish, GoTo
    <3> QED
      BY <2>4, <3>1, <3>2, <3>3 DEF CancelStep
  <2>5. CASE UNCHANGED vars
    BY <2>5 DEF vars
  <2> QED
    BY <2>1, <2>2, <2>3, <2>4, <2>5 DEF Next, Quiescent
<1> QED
  BY <1>1, <1>2, TypeCorrect, NetCorrect, PTL DEF Spec

(* Cancelled implies restocked.                                            *)
THEOREM CancelledRestocked == Spec => []CancelledIsRestocked
<1>1. RestockInv => CancelledIsRestocked
  BY DEF RestockInv
<1> QED
  BY <1>1, RestockHolds, PTL

(* What was announced is the status the handler is about to commit or has  *)
(* committed; the row is there since the insert, and after the commit only *)
(* a cancel, which loaded it, writes it again.                             *)
AnnounceInv ==
    /\ \A o \in Orders :
         /\ pc[o] \in {"created", "charge", "release", "commit"}
              => order[o] # None
         /\ pc[o] = "done" /\ heard[o] # None
              => \/ order[o] = StatusFor(heard[o])
                 \/ /\ order[o] = "CANCELLED"
                    /\ \E c \in Cancels : target[c] = o
    /\ \A c \in Cancels : target[c] # None => order[target[c]] # None
    /\ \A e \in events :
         /\ order[e.order] # None
         /\ e.type \in DOMAIN Announces
              => /\ pc[e.order] \in {"commit", "done", "crashed"}
                 /\ heard[e.order] \in Results
                 /\ Announces[e.type] = StatusFor(heard[e.order])

(* What a handler heard of a payment makes a status (create_order's if).   *)
LEMMA StatusForTypes ==
    ASSUME NEW r \in Results
    PROVE  StatusFor(r) \in Statuses \ {"PENDING", "CANCELLED"}
BY DEF StatusFor, Statuses, Results

(* Each event that announces an outcome names the status of that outcome.  *)
LEMMA AnnouncedTypes ==
    /\ DOMAIN Announces = {"OrderPaid", "OrderPaymentUnconfirmed",
                           "OrderPaymentFailed"}
    /\ Announces["OrderPaid"] = StatusFor("SUCCESS")
    /\ Announces["OrderPaymentUnconfirmed"] = StatusFor("UNKNOWN")
    /\ Announces["OrderPaymentFailed"] = StatusFor("FAILED")
BY DEF Announces, StatusFor

(* Once its handler is done, an order shows what consumers were told.      *)
THEOREM AnnouncedShown == Spec => []AnnouncedIsShown
<1> USE SagaAssumption DEF SagaAssumption
<1>1. Init => AnnounceInv
  BY DEF Init, AnnounceInv, None, Actors
<1>2. TypeInv /\ AnnounceInv /\ [Next]_vars => AnnounceInv'
  <2> SUFFICES ASSUME TypeInv, AnnounceInv, [Next]_vars PROVE AnnounceInv'
    OBVIOUS
  <2> USE DEF TypeInv, TypeOK, CancelInv, CreateInv, Actors, AnnounceInv,
              Events, dbVars, callVars
  <2>1. ASSUME NEW p \in Actors, CallStep(p) \/ Crash(p) PROVE AnnounceInv'
    BY <2>1 DEF CallStep, Send, GiveUp, ShortCircuit, Crash, Ended
  <2>2. ASSUME NEW m \in net, Serve(m) PROVE AnnounceInv'
    BY <2>2 DEF Serve
  <2>3. ASSUME NEW o \in Orders, CreateStep(o) PROVE AnnounceInv'
    <3>1. CASE Start(o) \/ ReserveReturns(o) \/ Insert(o)
      BY <3>1 DEF Start, ReserveReturns, Insert, GoTo, None
    <3>2. CASE PublishCreated(o)
      BY <3>2, AnnouncedTypes DEF PublishCreated, Publish, GoTo, None
    <3>3. CASE ChargeReturns(o)
      BY <3>3, AnnouncedTypes
         DEF ChargeReturns, ReleaseAfter, Results, Publish, GoTo, None
    <3>4. CASE CompensationReturns(o)
      BY <3>4, AnnouncedTypes
         DEF CompensationReturns, Results, Publish, GoTo, None
    <3>5. CASE Commit(o)
      BY <3>5, StatusForTypes DEF Commit, Statuses, GoTo, None
    <3> QED
      BY <2>3, <3>1, <3>2, <3>3, <3>4, <3>5 DEF CreateStep
  <2>4. ASSUME NEW c \in Cancels, CancelStep(c) PROVE AnnounceInv'
    <3>1. CASE Load(c)
      BY <3>1 DEF Load, Cancellable, GoTo, None
    <3>2. CASE CancelReleased(c) \/ CommitCancel(c)
      BY <3>2 DEF CancelReleased, CommitCancel, GoTo, None
    <3>3. CASE PublishCancelled(c)
      BY <3>3, AnnouncedTypes DEF PublishCancelled, Publish, GoTo, None
    <3> QED
      BY <2>4, <3>1, <3>2, <3>3 DEF CancelStep
  <2>5. CASE UNCHANGED vars
    BY <2>5 DEF vars
  <2> QED
    BY <2>1, <2>2, <2>3, <2>4, <2>5 DEF Next, Quiescent
<1>3. TypeInv /\ AnnounceInv => AnnouncedIsShown
  <2> SUFFICES ASSUME TypeInv, AnnounceInv, NEW e \in events
               PROVE  /\ order[e.order] # None
                      /\ e.type \in DOMAIN Announces /\ pc[e.order] = "done"
                           => \/ order[e.order] = Announces[e.type]
                              \/ /\ order[e.order] = "CANCELLED"
                                 /\ \E c \in Cancels : target[c] = e.order
    BY DEF AnnouncedIsShown
  <2> QED
    BY DEF TypeInv, TypeOK, AnnounceInv, Events, Results, None
<1> QED
  BY <1>1, <1>2, <1>3, TypeCorrect, PTL DEF Spec

(* The handlers with a reason to give the order's stock back, the attempts *)
(* they have made or can make no more, and those not yet executed.         *)
Releasers(o) ==
    {c \in Cancels : target[c] = o}
      \cup (IF heard[o] = "FAILED" THEN {o} ELSE {})

Made(o) ==
    {s \in Releasers(o) \X (1..ProductAttempts) :
       pc[s[1]] = "release" => s[2] <= attempts[s[1]]}

UnderWay(o) == {m \in net : m.op = "release" /\ m.order = o}

(* Every unit given back was asked for by an attempt of its own.           *)
GivenInv ==
    /\ IsFiniteSet(net)
    /\ \A m \in net :
         m.op = "release"
           => /\ pc[m.from] \in {"release", "commit", "publish"} \cup Ended
              /\ pc[m.from] = "release" => m.attempt <= attempts[m.from]
    /\ \A o \in Orders :
         given[o] + Cardinality(UnderWay(o)) <= Cardinality(Made(o))

(* The creator, once it has heard a decline, and the accepted cancels: as  *)
(* many as GivenBackBounded says.                                          *)
LEMMA ReleasersAreFew ==
    ASSUME SagaAssumption, NEW o \in Orders
    PROVE  LET cancelling == {c \in Cancels : target[c] = o}
               declined == IF heard[o] = "FAILED" THEN 1 ELSE 0
           IN  /\ IsFiniteSet(Releasers(o))
               /\ Cardinality(cancelling) \in Nat
               /\ Cardinality(Releasers(o)) \in Nat
               /\ Cardinality(Releasers(o)) <= Cardinality(cancelling) + declined
<1> DEFINE cancelling == {c \in Cancels : target[c] = o}
<1>1. IsFiniteSet(cancelling) /\ Cardinality(cancelling) \in Nat
  <2>1. cancelling \in SUBSET Cancels /\ IsFiniteSet(Cancels)
    BY DEF SagaAssumption
  <2> QED
    BY <2>1, FS_Subset, FS_CardinalityType
<1>2. CASE heard[o] = "FAILED"
  <2>1. Releasers(o) = cancelling \cup {o}
    BY <1>2 DEF Releasers
  <2>2. /\ IsFiniteSet(cancelling \cup {o})
        /\ Cardinality(cancelling \cup {o})
             = IF o \in cancelling THEN Cardinality(cancelling)
               ELSE Cardinality(cancelling) + 1
    BY <1>1, FS_AddElement
  <2> QED
    BY <1>1, <1>2, <2>1, <2>2
<1>3. CASE heard[o] # "FAILED"
  <2>1. Releasers(o) = cancelling
    BY <1>3 DEF Releasers
  <2> QED
    BY <1>1, <1>3, <2>1
<1> QED
  BY <1>2, <1>3

(* There are at most product_retry_attempts of them for each such handler. *)
LEMMA MadeIsBounded ==
    ASSUME SagaAssumption, NEW o \in Orders
    PROVE  /\ IsFiniteSet(Made(o))
           /\ Cardinality(Made(o)) \in Nat
           /\ Cardinality(Made(o))
                <= Cardinality(Releasers(o)) * ProductAttempts
<1>1. ProductAttempts \in Nat /\ IsFiniteSet(Releasers(o))
  BY ReleasersAreFew DEF SagaAssumption
<1>2. /\ IsFiniteSet(1..ProductAttempts)
      /\ Cardinality(1..ProductAttempts) = ProductAttempts
  <2>1. /\ IsFiniteSet(1..ProductAttempts)
        /\ Cardinality(1..ProductAttempts)
             = IF 1 > ProductAttempts THEN 0 ELSE ProductAttempts - 1 + 1
    BY <1>1, FS_Interval
  <2> QED
    BY <1>1, <2>1
<1>3. LET all == Releasers(o) \X (1..ProductAttempts)
      IN  /\ IsFiniteSet(all)
          /\ Cardinality(all) = Cardinality(Releasers(o)) * ProductAttempts
  BY <1>1, <1>2, FS_Product
<1>4. Made(o) \in SUBSET (Releasers(o) \X (1..ProductAttempts))
  BY DEF Made
<1> QED
  BY <1>3, <1>4, FS_Subset, FS_CardinalityType

(* So they can be counted.                                                 *)
LEMMA UnderWayIsFinite ==
    ASSUME IsFiniteSet(net), NEW o
    PROVE  IsFiniteSet(UnderWay(o)) /\ Cardinality(UnderWay(o)) \in Nat
<1>1. UnderWay(o) \in SUBSET net
  BY DEF UnderWay
<1> QED
  BY <1>1, FS_Subset, FS_CardinalityType

(* Any set of attempts by handlers that may come to release an order.      *)
LEMMA SlotsAreFinite ==
    ASSUME SagaAssumption, NEW o,
           NEW S \in SUBSET ((Cancels \cup {o}) \X (1..ProductAttempts))
    PROVE  IsFiniteSet(S) /\ Cardinality(S) \in Nat
<1>1. IsFiniteSet(Cancels \cup {o})
  BY FS_AddElement DEF SagaAssumption
<1>2. IsFiniteSet(1..ProductAttempts)
  <2>1. 1 \in Int /\ ProductAttempts \in Int
    BY DEF SagaAssumption
  <2> QED
    BY <2>1, FS_Interval
<1>3. IsFiniteSet((Cancels \cup {o}) \X (1..ProductAttempts))
  BY <1>1, <1>2, FS_Product
<1> QED
  BY <1>3, FS_Subset, FS_CardinalityType

(* An attempt once made stays made: a step that neither sends nor executes *)
(* a release keeps the count.                                              *)
LEMMA MadeStays ==
    ASSUME TypeInv, GivenInv, UNCHANGED given, NEW o \in Orders,
           Made(o) \subseteq Made(o)', UnderWay(o)' = UnderWay(o)
    PROVE  (given[o] + Cardinality(UnderWay(o)) <= Cardinality(Made(o)))'
<1>1. IsFiniteSet(Made(o)') /\ Cardinality(Made(o)') \in Nat
  BY SagaAssumption, SlotsAreFinite DEF Made, Releasers
<1>2. Cardinality(Made(o)) <= Cardinality(Made(o)')
  BY <1>1, FS_Subset
<1>3. Cardinality(Made(o)) \in Nat /\ Cardinality(UnderWay(o)) \in Nat
  BY SagaAssumption, MadeIsBounded, UnderWayIsFinite DEF GivenInv
<1> QED
  BY <1>1, <1>2, <1>3 DEF GivenInv, TypeInv, TypeOK

(* What a handler does between its calls only adds to what counts as made. *)
LEMMA HandlersKeepMade ==
    ASSUME TypeInv, NEW o \in Orders,
           \/ \E p \in Actors : GiveUp(p) \/ ShortCircuit(p) \/ Crash(p)
           \/ \E q \in Orders : CreateStep(q)
           \/ \E c \in Cancels : CancelStep(c)
           \/ UNCHANGED vars
    PROVE  Made(o) \subseteq Made(o)'
<1> USE SagaAssumption
        DEF SagaAssumption, TypeInv, TypeOK, CancelInv, CreateInv, Actors,
            Made, Releasers, dbVars, callVars
<1>1. ASSUME NEW p \in Actors, GiveUp(p) \/ ShortCircuit(p) \/ Crash(p)
      PROVE  Made(o) \subseteq Made(o)'
  BY <1>1 DEF GiveUp, ShortCircuit, Crash
<1>2. ASSUME NEW q \in Orders, CreateStep(q) PROVE Made(o) \subseteq Made(o)'
  <2>1. CASE ChargeReturns(q)
    BY <2>1 DEF ChargeReturns, ReleaseAfter, GoTo, None
  <2>2. CASE Start(q) \/ ReserveReturns(q) \/ Insert(q) \/ PublishCreated(q)
    BY <2>2 DEF Start, ReserveReturns, Insert, PublishCreated, GoTo
  <2>3. CASE CompensationReturns(q) \/ Commit(q)
    BY <2>3 DEF CompensationReturns, Commit, GoTo
  <2> QED
    BY <1>2, <2>1, <2>2, <2>3 DEF CreateStep
<1>3. ASSUME NEW c \in Cancels, CancelStep(c) PROVE Made(o) \subseteq Made(o)'
  <2>1. CASE Load(c)
    BY <2>1 DEF Load, GoTo, None
  <2>2. CASE CancelReleased(c) \/ CommitCancel(c) \/ PublishCancelled(c)
    BY <2>2 DEF CancelReleased, CommitCancel, PublishCancelled, GoTo
  <2> QED
    BY <1>3, <2>1, <2>2 DEF CancelStep
<1>4. CASE UNCHANGED vars
  BY <1>4 DEF vars
<1> QED
  BY <1>1, <1>2, <1>3, <1>4

(* A release that is sent is one more attempt made and one more under way. *)
LEMMA SendCounts ==
    ASSUME TypeInv, NetInv, GivenInv, NEW p \in Actors, Send(p)
    PROVE  GivenInv'
<1> USE SagaAssumption
        DEF SagaAssumption, TypeInv, TypeOK, CancelInv, CreateInv, Actors,
            dbVars
<1> DEFINE m == [from |-> p, op |-> pc[p], order |-> OrderOf(p),
                 attempt |-> attempts[p] + 1]
<1>1. /\ net' = net \cup {m} /\ pc' = pc /\ UNCHANGED <<given, target, heard>>
      /\ attempts' = [attempts EXCEPT ![p] = @ + 1]
      /\ attempts[p] \in Nat
      /\ pc[p] = "release" => attempts[p] + 1 \in 1..ProductAttempts
      /\ UNCHANGED ProductAttempts
  BY DEF Send, Budget
<1>2. IsFiniteSet(net')
  BY <1>1, FS_AddElement DEF GivenInv
<1>3. \A n \in net' :
        n.op = "release"
          => /\ pc'[n.from] \in {"release", "commit", "publish"} \cup Ended
             /\ pc'[n.from] = "release" => n.attempt <= attempts'[n.from]
  <2>1. \A n \in net : n.from \in Actors /\ n.attempt \in Nat
    BY DEF Requests
  <2> QED
    BY <1>1, <2>1 DEF GivenInv
<1>4. ASSUME NEW o \in Orders
      PROVE  (given[o] + Cardinality(UnderWay(o)) <= Cardinality(Made(o)))'
  <2>1. CASE pc[p] = "release" /\ OrderOf(p) = o
    <3> DEFINE slot == <<p, attempts[p] + 1>>
    <3>1. p \in Releasers(o)
      BY <2>1 DEF OrderOf, Releasers
    <3>2. Made(o) \cup {slot} \subseteq Made(o)' /\ slot \notin Made(o)
      <4>1. Releasers(o)' = Releasers(o)
        BY <1>1 DEF Releasers
      <4>2. slot \in Made(o)'
        BY <1>1, <2>1, <3>1, <4>1 DEF Made
      <4>3. Made(o) \subseteq Made(o)'
        BY <1>1, <4>1 DEF Made, Releasers
      <4>4. slot \notin Made(o)
        BY <1>1, <2>1 DEF Made
      <4> QED
        BY <4>2, <4>3, <4>4
    <3>3. UnderWay(o)' = UnderWay(o) \cup {m} /\ m \notin UnderWay(o)
      BY <1>1, <2>1 DEF UnderWay, GivenInv
    <3>4. IsFiniteSet(Made(o)) /\ Cardinality(Made(o)) \in Nat
      BY MadeIsBounded
    <3>5. IsFiniteSet(Made(o)') /\ Cardinality(Made(o)') \in Nat
      BY SlotsAreFinite DEF Made, Releasers
    <3>6. Cardinality(Made(o)') >= Cardinality(Made(o)) + 1
      <4>1. Cardinality(Made(o) \cup {slot}) = Cardinality(Made(o)) + 1
        BY <3>2, <3>4, FS_AddElement
      <4>2. Cardinality(Made(o) \cup {slot}) <= Cardinality(Made(o)')
        BY <3>2, <3>5, FS_Subset
      <4> QED
        BY <3>4, <3>5, <4>1, <4>2
    <3>7. /\ Cardinality(UnderWay(o)') = Cardinality(UnderWay(o)) + 1
          /\ Cardinality(UnderWay(o)) \in Nat
      BY <3>3, UnderWayIsFinite, FS_AddElement DEF GivenInv
    <3>8. given[o] + Cardinality(UnderWay(o)) <= Cardinality(Made(o))
      BY DEF GivenInv
    <3> QED
      BY <1>1, <3>4, <3>5, <3>6, <3>7, <3>8
  <2>2. CASE ~(pc[p] = "release" /\ OrderOf(p) = o)
    <3>1. UnderWay(o)' = UnderWay(o)
      BY <1>1, <2>2 DEF UnderWay
    <3>2. Made(o) \subseteq Made(o)'
      BY <1>1 DEF Made, Releasers
    <3> QED
      BY <1>1, <3>1, <3>2, MadeStays
  <2> QED
    BY <2>1, <2>2
<1> QED
  BY <1>2, <1>3, <1>4 DEF GivenInv

(* A release that is executed is no longer under way.                      *)
LEMMA ServeCounts ==
    ASSUME TypeInv, GivenInv, NEW m \in net, Serve(m)
    PROVE  GivenInv'
<1> USE SagaAssumption DEF TypeInv, TypeOK
<1>1. /\ net' = net \ {m} /\ UNCHANGED <<pc, attempts, heard, target>>
      /\ m.order \in Orders
  BY DEF Serve, Requests
<1>2. IsFiniteSet(net')
  BY <1>1, FS_RemoveElement DEF GivenInv
<1>3. ASSUME NEW o \in Orders
      PROVE  (given[o] + Cardinality(UnderWay(o)) <= Cardinality(Made(o)))'
  <2>1. Made(o)' = Made(o)
    BY <1>1 DEF Made, Releasers
  <2>2. CASE m.op = "release" /\ m.order = o
    <3>1. given'[o] = given[o] + 1
      BY <1>1, <2>2 DEF Serve, ServeReserve, ServeRelease, ServeCharge
    <3>2. UnderWay(o)' = UnderWay(o) \ {m} /\ m \in UnderWay(o)
      BY <1>1, <2>2 DEF UnderWay
    <3>3. /\ Cardinality(UnderWay(o)') = Cardinality(UnderWay(o)) - 1
          /\ Cardinality(UnderWay(o)) \in Nat
      BY <3>2, UnderWayIsFinite, FS_RemoveElement DEF GivenInv
    <3>4. Cardinality(Made(o)) \in Nat
      BY MadeIsBounded
    <3> QED
      BY <2>1, <3>1, <3>3, <3>4 DEF GivenInv
  <2>3. CASE ~(m.op = "release" /\ m.order = o)
    <3>1. given'[o] = given[o]
      BY <1>1, <2>3 DEF Serve, ServeReserve, ServeRelease, ServeCharge
    <3>2. UnderWay(o)' = UnderWay(o)
      BY <1>1, <2>3 DEF UnderWay
    <3> QED
      BY <2>1, <3>1, <3>2 DEF GivenInv
  <2> QED
    BY <2>2, <2>3
<1>4. \A n \in net' : n \in net
  BY <1>1
<1> QED
  BY <1>1, <1>2, <1>3, <1>4 DEF GivenInv

(* The goods come back no more often than there were attempts to release   *)
(* them, by handlers with a reason to.                                     *)
THEOREM GivenBack == Spec => []GivenBackBounded
<1> USE SagaAssumption
<1>1. Init => GivenInv
  <2> SUFFICES ASSUME Init PROVE GivenInv
    OBVIOUS
  <2>1. IsFiniteSet(net) /\ net = {}
    BY FS_EmptySet DEF Init
  <2>2. ASSUME NEW o \in Orders
        PROVE  given[o] + Cardinality(UnderWay(o)) <= Cardinality(Made(o))
    <3>1. UnderWay(o) = {} /\ Cardinality(UnderWay(o)) = 0 /\ given[o] = 0
      BY <2>1, FS_EmptySet DEF Init, UnderWay
    <3>2. Cardinality(Made(o)) \in Nat
      BY MadeIsBounded
    <3> QED
      BY <3>1, <3>2
  <2> QED
    BY <2>1, <2>2 DEF GivenInv
<1>2. TypeInv /\ NetInv /\ GivenInv /\ [Next]_vars => GivenInv'
  <2> SUFFICES ASSUME TypeInv, NetInv, GivenInv, [Next]_vars PROVE GivenInv'
    OBVIOUS
  <2>1. ASSUME NEW p \in Actors, Send(p) PROVE GivenInv'
    BY <2>1, SendCounts
  <2>2. ASSUME NEW m \in net, Serve(m) PROVE GivenInv'
    BY <2>2, ServeCounts
  <2>3. ASSUME \/ \E p \in Actors : GiveUp(p) \/ ShortCircuit(p) \/ Crash(p)
               \/ \E o \in Orders : CreateStep(o)
               \/ \E c \in Cancels : CancelStep(c)
               \/ UNCHANGED vars
        PROVE  GivenInv'
    <3>1. UNCHANGED <<net, given>>
      BY <2>3 DEF GiveUp, ShortCircuit, Crash, CreateStep, Start, ReserveReturns,
           Insert, PublishCreated, ChargeReturns, CompensationReturns, Commit,
           CancelStep, Load, CancelReleased, CommitCancel, PublishCancelled,
           GoTo, vars, dbVars, callVars
    <3>2. \A p \in Actors :
            pc[p] \in {"release", "commit", "publish"} \cup Ended
              => /\ pc'[p] \in {"release", "commit", "publish"} \cup Ended
                 /\ pc'[p] = "release" => /\ pc[p] = "release"
                                         /\ attempts'[p] = attempts[p]
      BY <2>3 DEF GiveUp, ShortCircuit, Crash, CreateStep, Start, ReserveReturns,
           Insert, PublishCreated, ChargeReturns, CompensationReturns, Commit,
           CancelStep, Load, CancelReleased, CommitCancel, PublishCancelled,
           GoTo, vars, dbVars, callVars, Ended, TypeInv, TypeOK, Actors
    <3>3. \A m \in net : m.from \in Actors
      BY DEF TypeInv, TypeOK, Requests
    <3>4. \A o \in Orders :
            (given[o] + Cardinality(UnderWay(o)) <= Cardinality(Made(o)))'
      <4>1. \A o \in Orders : UnderWay(o)' = UnderWay(o)
        BY <3>1 DEF UnderWay
      <4> QED
        BY <2>3, <3>1, <4>1, HandlersKeepMade, MadeStays
    <3> QED
      BY <3>1, <3>2, <3>3, <3>4 DEF GivenInv
  <2> QED
    BY <2>1, <2>2, <2>3 DEF Next, CallStep, Quiescent
<1>3. TypeInv /\ GivenInv => GivenBackBounded
  <2> SUFFICES ASSUME TypeInv, GivenInv, NEW o \in Orders
               PROVE  LET cancelling == {c \in Cancels : target[c] = o}
                          declined == IF heard[o] = "FAILED" THEN 1 ELSE 0
                      IN  given[o] <= ProductAttempts
                                        * (Cardinality(cancelling) + declined)
    BY DEF GivenBackBounded
  <2> DEFINE handlers == Cardinality({c \in Cancels : target[c] = o})
                           + (IF heard[o] = "FAILED" THEN 1 ELSE 0)
  <2>1. /\ handlers \in Nat /\ Cardinality(Releasers(o)) \in Nat
        /\ Cardinality(Releasers(o)) <= handlers
    BY ReleasersAreFew
  <2>2. /\ given[o] \in Nat /\ Cardinality(UnderWay(o)) \in Nat
        /\ given[o] + Cardinality(UnderWay(o)) <= Cardinality(Made(o))
    BY UnderWayIsFinite DEF TypeInv, TypeOK, GivenInv
  <2>3. /\ Cardinality(Made(o)) \in Nat
        /\ Cardinality(Made(o)) <= Cardinality(Releasers(o)) * ProductAttempts
    BY MadeIsBounded
  <2>4. ASSUME NEW j \in Nat, NEW k \in Nat, NEW n \in Nat, j <= k
        PROVE  j * n <= n * k /\ j * n \in Nat /\ n * k \in Nat
    BY <2>4
  <2> HIDE DEF handlers
  <2>5. given[o] <= ProductAttempts * handlers
    BY <2>1, <2>2, <2>3, <2>4 DEF SagaAssumption
  <2> QED
    BY <2>5 DEF handlers
<1> QED
  BY <1>1, <1>2, <1>3, TypeCorrect, NetCorrect, PTL DEF Spec

(* A settled order stays settled: its handlers have ended, no cancel is    *)
(* past its status check, and a new one is refused there.                  *)
THEOREM StaysSettled == Spec => SettledForGood
<1> USE SagaAssumption DEF SagaAssumption
<1>1. ASSUME NEW o \in Orders,
             NEW s \in {"PAYMENT_PENDING", "PAYMENT_FAILED", "CANCELLED"}
      PROVE  Spec => [](Settled(o, s) => [](order[o] = s))
  <2>1. TypeInv /\ Settled(o, s) /\ [Next]_vars => Settled(o, s)'
    <3> SUFFICES ASSUME TypeInv, Settled(o, s), [Next]_vars
                 PROVE  Settled(o, s)'
      OBVIOUS
    <3> USE DEF TypeInv, TypeOK, CancelInv, Settled, Ended, Actors, dbVars,
                callVars
    <3>1. ASSUME NEW p \in Actors, CallStep(p) \/ Crash(p)
          PROVE  Settled(o, s)'
      BY <3>1 DEF CallStep, Send, GiveUp, ShortCircuit, Crash
    <3>2. ASSUME NEW m \in net, Serve(m) PROVE Settled(o, s)'
      BY <3>2 DEF Serve
    <3>3. ASSUME NEW q \in Orders, CreateStep(q) PROVE Settled(o, s)'
      <4>1. q # o /\ UNCHANGED target
        BY <3>3 DEF CreateStep, Start, ReserveReturns, Insert, PublishCreated,
                    ChargeReturns, CompensationReturns, Commit
      <4>2. pc' = [pc EXCEPT ![q] = pc'[q]]
        BY <3>3 DEF CreateStep, Start, ReserveReturns, Insert, PublishCreated,
                    ChargeReturns, CompensationReturns, Commit, GoTo
      <4>3. order'[o] = order[o]
        BY <3>3, <4>1 DEF CreateStep, Start, ReserveReturns, Insert,
              PublishCreated, ChargeReturns, CompensationReturns, Commit
      <4> QED
        BY <4>1, <4>2, <4>3
    <3>4. ASSUME NEW c \in Cancels, CancelStep(c) PROVE Settled(o, s)'
      <4>1. CASE Load(c)
        BY <4>1 DEF Load, Cancellable, GoTo, None
      <4>2. CASE CancelReleased(c) \/ CommitCancel(c) \/ PublishCancelled(c)
        BY <4>2 DEF CancelReleased, CommitCancel, PublishCancelled, GoTo
      <4> QED
        BY <3>4, <4>1, <4>2 DEF CancelStep
    <3>5. CASE UNCHANGED vars
      BY <3>5 DEF vars
    <3> QED
      BY <3>1, <3>2, <3>3, <3>4, <3>5 DEF Next, Quiescent
  <2>2. Settled(o, s) => order[o] = s
    BY DEF Settled
  <2> QED
    BY <2>1, <2>2, TypeCorrect, PTL DEF Spec
<1> QED
  BY <1>1 DEF SettledForGood
-----------------------------------------------------------------------------
(* The refinement of OrderBook.  An order is in its table from the insert  *)
(* on and not before, so that nothing is charged, cancelled or concluded   *)
(* that was not placed.                                                    *)
PlacedInv ==
    /\ \A o \in Orders :
         /\ pc[o] \in {"idle", "reserve", "insert"} => order[o] = None
         /\ pc[o] \in {"created", "charge", "release", "commit"}
              => order[o] # None
    /\ \A m \in net : m.op = "charge" => order[m.order] # None
    /\ \A c \in Cancels : target[c] # None => order[target[c]] # None

(* create_order inserts the row before it charges, and cancel_order loads  *)
(* it before it acts.                                                      *)
LEMMA PlacedHolds == Spec => []PlacedInv
<1> USE SagaAssumption DEF SagaAssumption
<1>1. Init => PlacedInv
  BY DEF Init, PlacedInv, None, Actors
<1>2. TypeInv /\ NetInv /\ PlacedInv /\ [Next]_vars => PlacedInv'
  <2> SUFFICES ASSUME TypeInv, NetInv, PlacedInv, [Next]_vars PROVE PlacedInv'
    OBVIOUS
  <2> USE DEF TypeInv, TypeOK, CancelInv, NetInv, OrderOf, Actors, Requests,
              PlacedInv, dbVars, callVars
  <2>1. ASSUME NEW p \in Actors, Send(p) PROVE PlacedInv'
    BY <2>1 DEF Send, Ended
  <2>2. ASSUME NEW p \in Actors, GiveUp(p) \/ ShortCircuit(p) \/ Crash(p)
        PROVE  PlacedInv'
    BY <2>2 DEF GiveUp, ShortCircuit, Crash
  <2>3. ASSUME NEW m \in net, Serve(m) PROVE PlacedInv'
    BY <2>3 DEF Serve
  <2>4. ASSUME NEW o \in Orders, CreateStep(o) PROVE PlacedInv'
    <3>1. CASE Start(o) \/ ReserveReturns(o)
      BY <3>1 DEF Start, ReserveReturns, GoTo
    <3>2. CASE Insert(o)
      BY <3>2 DEF Insert, GoTo, None
    <3>3. CASE PublishCreated(o) \/ ChargeReturns(o) \/ CompensationReturns(o)
      BY <3>3 DEF PublishCreated, ChargeReturns, CompensationReturns, GoTo
    <3>4. CASE Commit(o)
      <4>1. StatusFor(heard[o]) # None
        BY <3>4, StatusForTypes DEF Commit, CreateInv, Statuses, None
      <4> QED
        BY <3>4, <4>1 DEF Commit, GoTo
    <3> QED
      BY <2>4, <3>1, <3>2, <3>3, <3>4 DEF CreateStep
  <2>5. ASSUME NEW c \in Cancels, CancelStep(c) PROVE PlacedInv'
    <3>1. CASE Load(c)
      BY <3>1 DEF Load, Cancellable, GoTo, None
    <3>2. CASE CancelReleased(c) \/ CommitCancel(c) \/ PublishCancelled(c)
      BY <3>2 DEF CancelReleased, CommitCancel, PublishCancelled, GoTo, None
    <3> QED
      BY <2>5, <3>1, <3>2 DEF CancelStep
  <2>6. CASE UNCHANGED vars
    BY <2>6 DEF vars
  <2> QED
    BY <2>1, <2>2, <2>3, <2>4, <2>5, <2>6 DEF Next, CallStep, Quiescent
<1> QED
  BY <1>1, <1>2, TypeCorrect, NetCorrect, PTL DEF Spec

(* The sets the refinement mapping gives OrderBook.                        *)
Cancelling == {o \in Orders : \E c \in Cancels : target[c] = o}
Restocked == {o \in Orders : given[o] > 0}
Concluded == {o \in Orders : pc[o] = "done" /\ order[o] # None}

BookVars == <<order, payment, Cancelling, Restocked, Concluded>>

(* Steps that touch none of what the mapping reads leave the book alone.   *)
LEMMA BookUnchanged ==
    ASSUME UNCHANGED <<order, payment, target, given>>,
           \A o \in Orders : order[o] # None => (pc'[o] = "done" <=> pc[o] = "done")
    PROVE  UNCHANGED BookVars
BY DEF BookVars, Cancelling, Restocked, Concluded

(* A request is executed: a payment is decided, goods come back, or the    *)
(* book does not notice.                                                   *)
LEMMA ServeBook ==
    ASSUME TypeInv, NetInv, PayInv, StockInv, PlacedInv,
           NEW m \in net, Serve(m)
    PROVE  Book!Next \/ UNCHANGED BookVars
<1>1. m \in Requests /\ m.order \in Orders
  BY DEF TypeInv, TypeOK, Requests
<1>2. UNCHANGED <<order, pc, target>>
  BY DEF Serve
<1>3. CASE ServeReserve(m)
  BY <1>2, <1>3, BookUnchanged DEF ServeReserve
<1>4. CASE ServeRelease(m)
  <2>1. payment[m.order] = "FAILED" \/ m.order \in Cancelling
    BY <1>1, <1>4 DEF ServeRelease, StockInv, MayRelease, PayInv, Cancelling
  <2>2. Restocked' = Restocked \cup {m.order}
    BY <1>1, <1>4 DEF ServeRelease, Restocked, TypeInv, TypeOK
  <2>3. UNCHANGED <<order, payment, Cancelling, Concluded>>
    BY <1>2, <1>4 DEF ServeRelease, Cancelling, Concluded
  <2>4. Book!Restock(m.order)
    BY <2>1, <2>2, <2>3 DEF Book!Restock, Cancelling, Restocked, Concluded
  <2> QED
    BY <1>1, <2>4 DEF Book!Next
<1>5. CASE ServeCharge(m)
  <2>1. order[m.order] # None
    BY <1>5 DEF ServeCharge, PlacedInv
  <2>2. UNCHANGED <<order, Cancelling, Restocked, Concluded>>
    BY <1>2, <1>5 DEF ServeCharge, Cancelling, Restocked, Concluded
  <2>3. CASE payment[m.order] # None
    BY <1>5, <2>2, <2>3 DEF ServeCharge, BookVars
  <2>4. ASSUME payment[m.order] = None,
               NEW r \in Results, payment' = [payment EXCEPT ![m.order] = r]
        PROVE  Book!Next
    <3>1. Book!Pay(m.order, r)
      BY <2>1, <2>2, <2>4 DEF Book!Pay, Cancelling, Restocked, Concluded, None
    <3> QED
      BY <1>1, <3>1 DEF Book!Next, Results
  <2> QED
    BY <1>5, <2>3, <2>4 DEF ServeCharge
<1> QED
  BY <1>3, <1>4, <1>5 DEF Serve

(* The create handler places its order and concludes it.                   *)
LEMMA CreateBook ==
    ASSUME TypeInv, PayInv, PlacedInv, NEW o \in Orders, CreateStep(o)
    PROVE  Book!Next \/ UNCHANGED BookVars
<1>1. pc \in [Actors -> Steps] /\ o \in Actors /\ Orders \subseteq Actors
  BY DEF TypeInv, TypeOK, Actors
<1>2. CASE Start(o) \/ ReserveReturns(o)
  <2>1. order[o] = None
    BY <1>2 DEF Start, ReserveReturns, PlacedInv
  <2>2. \A q \in Orders : order[q] # None => pc'[q] = pc[q]
    BY <1>1, <1>2, <2>1 DEF Start, ReserveReturns, GoTo
  <2>3. UNCHANGED <<order, payment, target, given>>
    BY <1>2 DEF Start, ReserveReturns, dbVars
  <2> QED
    BY <2>2, <2>3, BookUnchanged
<1>3. CASE Insert(o)
  <2>1. order[o] = None /\ order' = [order EXCEPT ![o] = "PENDING"]
    BY <1>3 DEF Insert, PlacedInv
  <2>2. UNCHANGED <<payment, target, given>>
    BY <1>3 DEF Insert
  <2>3. pc[o] = "insert" /\ pc' = [pc EXCEPT ![o] = "created"]
    BY <1>3 DEF Insert, GoTo
  <2>4. UNCHANGED <<Cancelling, Restocked, Concluded>>
    <3>1. \A q \in Orders : (pc'[q] = "done" /\ order'[q] # None)
                              <=> (pc[q] = "done" /\ order[q] # None)
      BY <1>1, <2>1, <2>3 DEF TypeInv, TypeOK
    <3> QED
      BY <2>2, <3>1 DEF Cancelling, Restocked, Concluded
  <2>5. Book!Place(o)
    BY <2>1, <2>2, <2>4 DEF Book!Place, Cancelling, Restocked, Concluded, None
  <2> QED
    BY <2>5 DEF Book!Next
<1>4. CASE PublishCreated(o) \/ ChargeReturns(o) \/ CompensationReturns(o)
  <2>1. pc[o] # "done" /\ pc'[o] # "done"
        /\ \A q \in Orders \ {o} : pc'[q] = pc[q]
    BY <1>1, <1>4 DEF PublishCreated, ChargeReturns, CompensationReturns, GoTo
  <2>2. UNCHANGED <<order, payment, target, given>>
    BY <1>4 DEF PublishCreated, ChargeReturns, CompensationReturns, dbVars
  <2> QED
    BY <2>1, <2>2, BookUnchanged
<1>5. CASE Commit(o)
  <2>1. /\ pc[o] = "commit" /\ pc' = [pc EXCEPT ![o] = "done"]
        /\ order' = [order EXCEPT ![o] = StatusFor(heard[o])]
        /\ UNCHANGED <<payment, target, given>>
    BY <1>5 DEF Commit, GoTo
  <2>2. heard[o] \in Results /\ order[o] # None
    BY <2>1 DEF TypeInv, CreateInv, PlacedInv
  <2>3. StatusFor(heard[o]) \in Book!Says(o)
    BY <2>2 DEF StatusFor, Results, PayInv, Book!Says
  <2>4. StatusFor(heard[o]) # None
    BY <2>2, StatusForTypes DEF Statuses, None
  <2>5. o \notin Concluded /\ Concluded' = Concluded \cup {o}
    <3>1. \A q \in Orders \ {o} : pc'[q] = pc[q] /\ order'[q] = order[q]
      BY <1>1, <2>1 DEF TypeInv, TypeOK
    <3>2. pc'[o] = "done" /\ order'[o] # None /\ pc[o] # "done"
      BY <1>1, <2>1, <2>4 DEF TypeInv, TypeOK
    <3> QED
      BY <3>1, <3>2 DEF Concluded
  <2>6. UNCHANGED <<Cancelling, Restocked>>
    BY <2>1 DEF Cancelling, Restocked
  <2>7. Book!Conclude(o)
    BY <2>1, <2>2, <2>3, <2>5, <2>6
       DEF Book!Conclude, Cancelling, Restocked, Concluded, None
  <2> QED
    BY <2>7 DEF Book!Next
<1> QED
  BY <1>2, <1>3, <1>4, <1>5 DEF CreateStep

(* A cancel handler has its cancel accepted and carries it out.            *)
LEMMA CancelBook ==
    ASSUME TypeInv, PlacedInv, RestockInv, NEW c \in Cancels, CancelStep(c)
    PROVE  Book!Next \/ UNCHANGED BookVars
<1>1. /\ pc \in [Actors -> Steps] /\ Orders \subseteq Actors
      /\ c \in Actors /\ c \notin Orders
  BY SagaAssumption DEF SagaAssumption, TypeInv, TypeOK, Actors
<1>2. \A q \in Orders : pc'[q] = pc[q]
  BY <1>1 DEF CancelStep, Load, CancelReleased, CommitCancel, PublishCancelled, GoTo
<1>3. CASE Load(c)
  <2>1. pc[c] = "idle" /\ target[c] = None /\ UNCHANGED <<order, payment, given>>
    BY <1>3 DEF Load, TypeInv, CancelInv, dbVars
  <2>2. UNCHANGED <<Restocked, Concluded>>
    BY <1>2, <2>1 DEF Restocked, Concluded
  <2>3. CASE UNCHANGED target
    BY <1>2, <2>1, <2>3, BookUnchanged
  <2>4. ASSUME NEW o \in Orders, order[o] \in Cancellable,
               target' = [target EXCEPT ![c] = o]
        PROVE  Book!Next
    <3>1. Cancelling' = Cancelling \cup {o}
      BY <2>1, <2>4, SagaAssumption
         DEF Cancelling, TypeInv, TypeOK, SagaAssumption
    <3>2. Book!AcceptCancel(o)
      BY <2>1, <2>2, <2>4, <3>1
         DEF Book!AcceptCancel, Cancellable, Cancelling, Restocked, Concluded
    <3> QED
      BY <3>2 DEF Book!Next
  <2> QED
    BY <1>3, <2>3, <2>4 DEF Load
<1>4. CASE CancelReleased(c) \/ PublishCancelled(c)
  <2>1. UNCHANGED <<order, payment, target, given>>
    BY <1>4 DEF CancelReleased, PublishCancelled, dbVars
  <2> QED
    BY <1>2, <2>1, BookUnchanged
<1>5. CASE CommitCancel(c)
  <2> DEFINE o == target[c]
  <2>1. /\ pc[c] = "commit" /\ order' = [order EXCEPT ![o] = "CANCELLED"]
        /\ UNCHANGED <<payment, target, given>>
    BY <1>5 DEF CommitCancel
  <2>2. o \in Orders /\ given[o] > 0
    BY <2>1 DEF TypeInv, CancelInv, RestockInv
  <2>3. o # None /\ order[o] # None
    BY <2>2, SagaAssumption DEF SagaAssumption, PlacedInv
  <2>4. UNCHANGED <<Cancelling, Restocked, Concluded>>
    <3>1. \A q \in Orders : order'[q] # None <=> order[q] # None
      BY <2>1, <2>3 DEF TypeInv, TypeOK, None
    <3> QED
      BY <1>2, <2>1, <3>1 DEF Cancelling, Restocked, Concluded
  <2>5. o \in Cancelling \cap Restocked
    BY <2>2 DEF Cancelling, Restocked
  <2>6. Book!Cancel(o)
    BY <2>1, <2>4, <2>5 DEF Book!Cancel, Cancelling, Restocked, Concluded
  <2> QED
    BY <2>2, <2>6 DEF Book!Next
<1> QED
  BY <1>3, <1>4, <1>5 DEF CancelStep

(* Handlers, retries, late requests and crashes together implement         *)
(* OrderBook (ImplementsBook), for any number of orders and cancels.       *)
THEOREM Refinement == Spec => ImplementsBook
<1>1. Init => Book!Init
  BY SagaAssumption
     DEF SagaAssumption, Init, Book!Init, None, Actors
<1>2. /\ TypeInv /\ NetInv /\ PayInv /\ StockInv /\ RestockInv /\ PlacedInv
      /\ [Next]_vars
      => [Book!Next]_(Book!vars)
  <2> SUFFICES ASSUME TypeInv, NetInv, PayInv, StockInv, RestockInv, PlacedInv,
                      [Next]_vars
               PROVE  Book!Next \/ UNCHANGED BookVars
    BY DEF Book!vars, BookVars, Cancelling, Restocked, Concluded
  <2>1. ASSUME NEW p \in Actors, CallStep(p) \/ Crash(p) PROVE UNCHANGED BookVars
    <3>1. UNCHANGED <<order, payment, target, given>>
      BY <2>1 DEF CallStep, Send, GiveUp, ShortCircuit, Crash, dbVars
    <3>2. pc' = pc \/ (pc[p] # "done" /\ pc' = [pc EXCEPT ![p] = "crashed"])
      BY <2>1 DEF CallStep, Send, GiveUp, ShortCircuit, Crash, Ended
    <3>3. \A o \in Orders : pc'[o] = "done" <=> pc[o] = "done"
      BY <3>2 DEF TypeInv, TypeOK, Actors
    <3> QED
      BY <3>1, <3>3, BookUnchanged
  <2>2. CASE UNCHANGED vars
    BY <2>2, BookUnchanged DEF vars, dbVars
  <2> QED
    BY <2>1, <2>2, ServeBook, CreateBook, CancelBook DEF Next, Quiescent
<1> QED
  BY <1>1, <1>2, TypeCorrect, NetCorrect, PayHolds, StockHolds, RestockHolds,
     PlacedHolds, PTL
     DEF Spec, ImplementsBook, Book!Spec

(* What the book promises is enough for customers and consumers, whatever  *)
(* keeps it: statuses and goods never contradict payments and cancels.     *)
BookConsistent ==
    \A o \in Orders :
      /\ order[o] = "PAID" => payment[o] = "SUCCESS"
      /\ order[o] = "PAYMENT_FAILED" => payment[o] = "FAILED"
      /\ order[o] = "CANCELLED" => o \in Cancelling \cap Restocked
      /\ o \in Restocked => payment[o] = "FAILED" \/ o \in Cancelling

(* OrderBook implies BookConsistent.                                       *)
THEOREM BookSuffices == ImplementsBook => []BookConsistent
<1> DEFINE Inv == /\ BookConsistent
                  /\ order = [o \in Orders |-> order[o]]
                  /\ payment = [o \in Orders |-> payment[o]]
<1> USE DEF BookConsistent, Cancelling, Restocked, Concluded
<1>1. Book!Init => Inv
  BY DEF Book!Init
<1>2. Inv /\ [Book!Next]_(Book!vars) => Inv'
  <2> SUFFICES ASSUME Inv, [Book!Next]_(Book!vars) PROVE Inv'
    OBVIOUS
  <2>1. ASSUME NEW o \in Orders, Book!Place(o) \/ Book!Cancel(o) PROVE Inv'
    BY <2>1 DEF Book!Place, Book!Cancel
  <2>2. ASSUME NEW o \in Orders, Book!Conclude(o) PROVE Inv'
    BY <2>2 DEF Book!Conclude, Book!Says
  <2>3. ASSUME NEW o \in Orders, NEW r, Book!Pay(o, r) PROVE Inv'
    BY <2>3 DEF Book!Pay
  <2>4. ASSUME NEW o \in Orders, Book!AcceptCancel(o) \/ Book!Restock(o) PROVE Inv'
    BY <2>4 DEF Book!AcceptCancel, Book!Restock
  <2>5. CASE UNCHANGED Book!vars
    BY <2>5 DEF Book!vars
  <2> QED
    BY <2>1, <2>2, <2>3, <2>4, <2>5 DEF Book!Next
<1> QED
  BY <1>1, <1>2, PTL DEF ImplementsBook, Book!Spec
=============================================================================
