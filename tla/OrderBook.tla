------------------------------ MODULE OrderBook ------------------------------
(***************************************************************************)
(* What the Order service promises about its orders (docs/api.md "Orders", *)
(* docs/adr/ADR-006 and ADR-008): the creation of an order is concluded    *)
(* once, with a status that says no more than its payment has come to;     *)
(* goods only come back for an order that was declined or whose cancel was *)
(* accepted; and an order is cancelled when its goods are back.  Handlers, *)
(* retries, requests under way and the stock itself are left open, and so  *)
(* is who comes first when a create and a cancel meet.                     *)
(***************************************************************************)
CONSTANT Orders

VARIABLES
    status,      \* of each order, "none" before there is one
    payment,     \* what its payment has come to, or "none"
    cancelling,  \* orders whose cancel was accepted
    restocked,   \* orders whose goods have come back
    concluded    \* orders whose creation has come to its end

vars == <<status, payment, cancelling, restocked, concluded>>

Init ==
    /\ status = [o \in Orders |-> "none"]
    /\ payment = [o \in Orders |-> "none"]
    /\ cancelling = {}
    /\ restocked = {}
    /\ concluded = {}

Place(o) ==
    /\ status[o] = "none"
    /\ status' = [status EXCEPT ![o] = "PENDING"]
    /\ UNCHANGED <<payment, cancelling, restocked, concluded>>

Pay(o, result) ==
    /\ status[o] # "none" /\ payment[o] = "none"
    /\ payment' = [payment EXCEPT ![o] = result]
    /\ UNCHANGED <<status, cancelling, restocked, concluded>>

(* What is not known for certain is PAYMENT_PENDING, whatever it came to.  *)
Says(o) ==
    {"PAYMENT_PENDING"}
      \cup (IF payment[o] = "SUCCESS" THEN {"PAID"} ELSE {})
      \cup (IF payment[o] = "FAILED" THEN {"PAYMENT_FAILED"} ELSE {})

Conclude(o) ==
    /\ status[o] # "none"
    /\ o \notin concluded
    /\ concluded' = concluded \cup {o}
    /\ \E s \in Says(o) : status' = [status EXCEPT ![o] = s]
    /\ UNCHANGED <<payment, cancelling, restocked>>

AcceptCancel(o) ==
    /\ status[o] \in {"PENDING", "PAID"}
    /\ cancelling' = cancelling \cup {o}
    /\ UNCHANGED <<status, payment, restocked, concluded>>

Restock(o) ==
    /\ payment[o] = "FAILED" \/ o \in cancelling
    /\ restocked' = restocked \cup {o}
    /\ UNCHANGED <<status, payment, cancelling, concluded>>

Cancel(o) ==
    /\ o \in cancelling \cap restocked
    /\ status' = [status EXCEPT ![o] = "CANCELLED"]
    /\ UNCHANGED <<payment, cancelling, restocked, concluded>>

Next ==
    \E o \in Orders :
      \/ Place(o) \/ Conclude(o)
      \/ \E result \in {"SUCCESS", "FAILED", "UNKNOWN"} : Pay(o, result)
      \/ AcceptCancel(o) \/ Restock(o) \/ Cancel(o)

Spec == Init /\ [][Next]_vars
=============================================================================
