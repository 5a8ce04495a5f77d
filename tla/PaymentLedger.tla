---------------------------- MODULE PaymentLedger ----------------------------
(***************************************************************************)
(* What the Payment service promises its callers (app/payment/service.py,  *)
(* docs/api.md "Payments"): an order's outcome is decided once, every      *)
(* caller that gets an answer gets that outcome, and SUCCESS is only       *)
(* decided after the card was charged.  It promises nothing about how      *)
(* often the card is charged, nor that a FAILED order's card was not.      *)
(***************************************************************************)
EXTENDS Integers

CONSTANT Orders

VARIABLES
    row,     \* the decided outcome of each order, or "none"
    told,    \* pairs of an order and an outcome some caller was told
    charged  \* how often each order's card was charged

vars == <<row, told, charged>>

Outcomes == {"SUCCESS", "FAILED", "UNKNOWN"}

Init ==
    /\ row = [o \in Orders |-> "none"]
    /\ told = {}
    /\ charged = [o \in Orders |-> 0]

Charge(o) ==
    /\ charged' = [charged EXCEPT ![o] = @ + 1]
    /\ UNCHANGED <<row, told>>

(* The outcome is decided and its caller told in one transaction.          *)
Decide(o, r) ==
    /\ row[o] = "none"
    /\ r = "SUCCESS" => charged[o] > 0
    /\ row' = [row EXCEPT ![o] = r]
    /\ told' = told \cup {<<o, r>>}
    /\ UNCHANGED charged

Answer(o) ==
    /\ row[o] # "none"
    /\ told' = told \cup {<<o, row[o]>>}
    /\ UNCHANGED <<row, charged>>

Next ==
    \E o \in Orders :
      Charge(o) \/ Answer(o) \/ \E r \in Outcomes : Decide(o, r)

Spec == Init /\ [][Next]_vars
=============================================================================
