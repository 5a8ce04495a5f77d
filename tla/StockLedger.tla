----------------------------- MODULE StockLedger -----------------------------
(***************************************************************************)
(* What the Product service promises of its stock (app/product/service.py, *)
(* reserve_stock: "atomically check + decrement stock for an order's line  *)
(* items"): every call happens at one instant and as a whole, or not at    *)
(* all.  A reservation takes all of its items or none, and is refused only *)
(* when an item is not there; nothing is taken twice or lost.              *)
(***************************************************************************)
EXTENDS Integers

CONSTANTS
    Products, Reserves, Releases, Updates,
    None  \* not a number

VARIABLES
    stock,   \* stock of each product, None when there is no such product
    want,    \* what each call asked for by product: a quantity, a stock to be
             \* set, or None
    outcome  \* "none", "asked", "done", "refused" or "lost"

vars == <<stock, want, outcome>>

Amounts == [Products -> Nat \cup {None}]
Nothing == [p \in Products |-> None]
Calls == Reserves \cup Releases \cup Updates
Asked(c) == {p \in Products : want[c][p] # None}

Init ==
    /\ stock \in Amounts
    /\ want = [c \in Calls |-> Nothing]
    /\ outcome = [c \in Calls |-> "none"]

Create(p) ==
    /\ stock[p] = None
    /\ stock'[p] \in Nat
    /\ stock' = [stock EXCEPT ![p] = stock'[p]]
    /\ UNCHANGED <<want, outcome>>

Ask(c) ==
    /\ outcome[c] = "none"
    /\ outcome' = [outcome EXCEPT ![c] = "asked"]
    /\ want'[c] \in Amounts
    /\ want' = [want EXCEPT ![c] = want'[c]]
    /\ UNCHANGED stock

Ends(c, how) ==
    /\ outcome[c] = "asked"
    /\ outcome' = [outcome EXCEPT ![c] = how]
    /\ UNCHANGED want

Reserve(c) ==
    /\ Ends(c, "done")
    /\ \A p \in Asked(c) : stock[p] # None /\ stock[p] >= want[c][p]
    /\ stock' = [p \in Products |->
                   IF p \in Asked(c) THEN stock[p] - want[c][p] ELSE stock[p]]

Release(c) ==
    /\ Ends(c, "done")
    /\ \A p \in Asked(c) : stock[p] # None
    /\ stock' = [p \in Products |->
                   IF p \in Asked(c) THEN stock[p] + want[c][p] ELSE stock[p]]

Set(c) ==
    /\ Ends(c, "done")
    /\ \E p \in Asked(c) :
         stock[p] # None /\ stock' = [stock EXCEPT ![p] = want[c][p]]

(* An update to the value it read leaves the row alone, also when another  *)
(* call has changed it in between.                                         *)
Keep(c) ==
    /\ Ends(c, "done")
    /\ UNCHANGED stock

Refuse(c) ==
    /\ Ends(c, "refused")
    /\ \E p \in Asked(c) :
         stock[p] # None => c \in Reserves /\ stock[p] < want[c][p]
    /\ UNCHANGED stock

Lose(c) ==
    /\ Ends(c, "lost")
    /\ UNCHANGED stock

Next ==
    \/ \E p \in Products : Create(p)
    \/ \E c \in Calls : Ask(c) \/ Refuse(c) \/ Lose(c)
    \/ \E c \in Reserves : Reserve(c)
    \/ \E c \in Releases : Release(c)
    \/ \E c \in Updates : Set(c) \/ Keep(c)

Spec == Init /\ [][Next]_vars
=============================================================================
