---------------------------- MODULE EventDelivery ----------------------------
(***************************************************************************)
(* What the order-events consumer promises of one event (the docstrings of *)
(* app/worker.py and app/core/idempotency.py, docs/adr/ADR-006): delivered *)
(* at least once, every handler on its own, and taking effect no more than *)
(* once as long as its history is clean: nothing has broken, and what the  *)
(* workers know of it has not run out while one of them was using it.  The *)
(* event is let go of only when every handler has run to success; one      *)
(* whose body cannot be parsed is never handled and never let go of.  How  *)
(* many messages carry the event, which worker has one, and what lease,    *)
(* cache and table know is left open.                                      *)
(***************************************************************************)
EXTENDS Integers

CONSTANT Handlers

VARIABLES
    poison,   \* does its body fail to parse?
    sent,     \* has the event been published?
    pending,  \* is it in the queue or the dead-letter queue?
    effects,  \* how often each handler ran to success
    clean     \* has nothing broken or run out under a worker so far?

vars == <<poison, sent, pending, effects, clean>>

Init ==
    /\ poison \in BOOLEAN
    /\ sent = FALSE
    /\ pending = FALSE
    /\ effects = [h \in Handlers |-> 0]
    /\ clean = TRUE

(* Also a second time: by the publisher's retry, a redrive or a parking.   *)
Send ==
    /\ sent' = TRUE
    /\ pending' = TRUE
    /\ UNCHANGED <<poison, effects, clean>>

(* Once it is not clean a handler may run again, even when the event is    *)
(* gone.                                                                   *)
Run(h) ==
    /\ sent /\ ~poison
    /\ clean => pending /\ effects[h] = 0
    /\ effects' = [effects EXCEPT ![h] = @ + 1]
    /\ UNCHANGED <<poison, sent, pending, clean>>

Settle ==
    /\ pending /\ ~poison
    /\ \A h \in Handlers : effects[h] >= 1
    /\ pending' = FALSE
    /\ UNCHANGED <<poison, sent, effects, clean>>

Fault ==
    /\ clean' = FALSE
    /\ UNCHANGED <<poison, sent, pending, effects>>

Next ==
    \/ Send \/ Settle \/ Fault
    \/ \E h \in Handlers : Run(h)

Spec == Init /\ [][Next]_vars
=============================================================================
