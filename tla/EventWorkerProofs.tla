-------------------------- MODULE EventWorkerProofs --------------------------
(***************************************************************************)
(* Proofs about EventWorker: its types, that no event is lost, that in a   *)
(* clean history every handler takes effect at most once, and that it      *)
(* implements EventDelivery.                                               *)
(***************************************************************************)
EXTENDS EventWorker, TLAPS

-----------------------------------------------------------------------------
(* A worker that leaves its message or goes on to a step keeps the types   *)
(* of its locals.                                                          *)
LEMMA NextMessageTypes ==
    ASSUME TypeOK, NEW w \in Workers, NextMessage(w)
    PROVE  /\ pc' \in [Workers -> Processing \cup {"polling", "next", "park", "drop"}]
           /\ batch' \in [Workers -> SUBSET Deliveries]
           /\ job' \in [Workers -> Deliveries \cup {None}]
           /\ todo' \in [Workers -> SUBSET Handlers]
           /\ failed' \in [Workers -> SUBSET Handlers]
           /\ current' \in [Workers -> Handlers \cup {None}]
           /\ seen' \in [Workers -> SUBSET Handlers]
           /\ \A v \in Workers :
                /\ pc'[v] = "polling" => batch'[v] = {}
                /\ pc'[v] = "next" => batch'[v] # {}
                /\ pc'[v] \in Processing \cup {"park", "drop"} => job'[v] # None
                /\ pc'[v] \in {"record", "peek", "store"} => current'[v] # None
BY DEF TypeOK, NextMessage, AfterMessage, Processing

(* A worker that stays with its message and goes on to a step.             *)
LEMMA GoToTypes ==
    ASSUME TypeOK, NEW w \in Workers,
           NEW step \in Processing \cup {"park", "drop"}, GoTo(w, step)
    PROVE  /\ pc' \in [Workers -> Processing \cup {"polling", "next", "park", "drop"}]
           /\ batch' \in [Workers -> SUBSET Deliveries]
           /\ \A v \in Workers : /\ pc'[v] = "polling" => batch'[v] = {}
                                 /\ pc'[v] = "next" => batch'[v] # {}
BY DEF TypeOK, GoTo, Processing

(* A copy that is sent, to the queue or to the dead-letter queue.          *)
LEMMA SendToTypes ==
    ASSUME TypeOK, NEW place \in Places, SendTo(place)
    PROVE  where' \in [Copies -> Places]
BY DEF TypeOK, SendTo

(* A copy that is deleted, if the receipt is still good.                   *)
LEMMA DeleteTypes ==
    ASSUME TypeOK, NEW d, DeleteMessage(d)
    PROVE  where' \in [Copies -> Places]
BY DEF TypeOK, DeleteMessage, Places

(* A message taken out of the batch.                                       *)
LEMMA OpenTypes ==
    ASSUME TypeOK, NEW w \in Workers, NEW d \in batch[w], Open(w, d)
    PROVE  /\ d \in Deliveries
           /\ batch' \in [Workers -> SUBSET Deliveries]
BY DEF TypeOK, Open

(* The queue, the stores and the workers start with their types.           *)
LEMMA InitTypes == Init => TypeOK
<1> SUFFICES ASSUME Init PROVE TypeOK
    OBVIOUS
<1>1. poison \in BOOLEAN /\ lapsed \in BOOLEAN /\ redisUp \in BOOLEAN
    BY Zenon DEF Init
<1> QED
    BY <1>1, WorkerAssumption
    DEF WorkerAssumption, Init, TypeOK, Places, Processing

(* No step of publisher, queue, worker, Redis or tool breaks them.         *)
LEMMA StepTypes == TypeOK /\ [Next]_vars => TypeOK'
<1> SUFFICES ASSUME TypeOK, [Next]_vars PROVE TypeOK'
    OBVIOUS
<1> USE WorkerAssumption DEF WorkerAssumption
<1> USE DEF queueVars, storeVars, workVars
<1>1. CASE Publish
    BY <1>1, SendToTypes DEF Publish, TypeOK, Places
<1>2. ASSUME NEW c \in Copies, Reappear(c) PROVE TypeOK'
    BY <1>2 DEF Reappear, TypeOK, Places
<1>3. ASSUME NEW c \in Copies, DeadLetter(c) PROVE TypeOK'
    BY <1>3 DEF DeadLetter, TypeOK, Places
<1>4. ASSUME NEW c \in Copies, RedriveSend(c) PROVE TypeOK'
    BY <1>4, SendToTypes DEF RedriveSend, TypeOK, Places
<1>5. CASE RedriveDelete
    BY <1>5 DEF RedriveDelete, TypeOK, Places
<1>6. ASSUME NEW w \in Workers, Receive(w) PROVE TypeOK'
    <2> PICK B \in SUBSET Copies :
           /\ B # {}
           /\ \A c \in B : receives[c] < MaxReceives
           /\ where' = [c \in Copies |-> IF c \in B THEN "in_flight" ELSE where[c]]
           /\ receives' = [c \in Copies |-> receives[c] + (IF c \in B THEN 1 ELSE 0)]
           /\ batch' = [batch EXCEPT ![w] =
                          {[copy |-> c, receipt |-> receives[c] + 1] : c \in B}]
        BY <1>6 DEF Receive
    <2>1. where' \in [Copies -> Places]
        BY DEF TypeOK, Places
    <2>2. receives' \in [Copies -> 0..MaxReceives]
        BY DEF TypeOK
    <2>3. /\ {[copy |-> c, receipt |-> receives[c] + 1] : c \in B} \subseteq Deliveries
          /\ {[copy |-> c, receipt |-> receives[c] + 1] : c \in B} # {}
        <3>1. \A c \in B : receives[c] + 1 \in 1..MaxReceives
            BY DEF TypeOK
        <3>2. \A c \in B : [copy |-> c, receipt |-> receives[c] + 1] \in Deliveries
            BY <3>1 DEF Deliveries
        <3> DEFINE D == {[copy |-> c, receipt |-> receives[c] + 1] : c \in B}
        <3>3. PICK c \in B : TRUE
            OBVIOUS
        <3>4. [copy |-> c, receipt |-> receives[c] + 1] \in D
            OBVIOUS
        <3>5. D \subseteq Deliveries
            BY <3>2
        <3> QED
            BY <3>4, <3>5
    <2>4. batch' \in [Workers -> SUBSET Deliveries] /\ batch'[w] # {}
        BY <2>3 DEF TypeOK
    <2> QED
        BY <1>6, <2>1, <2>2, <2>4 DEF Receive, TypeOK, Processing
<1>7. ASSUME NEW w \in Workers, Claim(w) PROVE TypeOK'
    BY <1>7, OpenTypes DEF Claim, Open, TypeOK, Processing
<1>8. ASSUME NEW w \in Workers, Skip(w) PROVE TypeOK'
    BY <1>8, OpenTypes DEF Skip, Open, AfterMessage, TypeOK, Processing
<1>9. ASSUME NEW w \in Workers, OpenPoison(w) PROVE TypeOK'
    BY <1>9, OpenTypes DEF OpenPoison, Open, TypeOK, Processing
<1>10. ASSUME NEW w \in Workers, Park(w) PROVE TypeOK'
    BY <1>10, SendToTypes, GoToTypes DEF Park, GoTo, TypeOK, Places, Processing
<1>11. ASSUME NEW w \in Workers, LoadCached(w) PROVE TypeOK'
    BY <1>11, GoToTypes DEF LoadCached, GoTo, Remaining, TypeOK, Processing
<1>12. ASSUME NEW w \in Workers, LoadRows(w) PROVE TypeOK'
    BY <1>12, GoToTypes DEF LoadRows, AfterRows, GoTo, Remaining, TypeOK, Processing
<1>13. ASSUME NEW w \in Workers, Refresh(w) PROVE TypeOK'
    BY <1>13, GoToTypes DEF Refresh, GoTo, CacheSet, TypeOK, Processing
<1>14. ASSUME NEW w \in Workers, NEW h \in Handlers, HandlerSucceeds(w, h)
       PROVE TypeOK'
    <2>1. effects' \in [Handlers -> Nat]
        BY <1>14 DEF HandlerSucceeds, TypeOK
    <2>2. /\ todo' \in [Workers -> SUBSET Handlers]
          /\ current' \in [Workers -> Handlers \cup {None}]
          /\ current'[w] # None
        BY <1>14 DEF HandlerSucceeds, StillToDo, TypeOK
    <2> QED
        BY <1>14, <2>1, <2>2, GoToTypes
        DEF HandlerSucceeds, GoTo, TypeOK, Processing
<1>15. ASSUME NEW w \in Workers, NEW h \in Handlers, HandlerFails(w, h)
       PROVE TypeOK'
    BY <1>15 DEF HandlerFails, StillToDo, TypeOK, Processing
<1>16. ASSUME NEW w \in Workers, Record(w) PROVE TypeOK'
    BY <1>16, GoToTypes DEF Record, GoTo, TypeOK, Processing
<1>17. ASSUME NEW w \in Workers, Peek(w) PROVE TypeOK'
    BY <1>17, GoToTypes DEF Peek, GoTo, TypeOK, Processing
<1>18. ASSUME NEW w \in Workers, Store(w) PROVE TypeOK'
    <2>1. cached' = NoKey \/ cached' \in SUBSET Handlers
        BY <1>18 DEF Store, CacheSet, TypeOK
    <2> QED
        BY <1>18, <2>1, GoToTypes DEF Store, GoTo, TypeOK, Processing
<1>19. ASSUME NEW w \in Workers, Ack(w) PROVE TypeOK'
    BY <1>19, NextMessageTypes, DeleteTypes DEF Ack, TypeOK
<1>20. ASSUME NEW w \in Workers, GiveBack(w) PROVE TypeOK'
    BY <1>20, NextMessageTypes DEF GiveBack, TypeOK
<1>21. ASSUME NEW w \in Workers, Drop(w) PROVE TypeOK'
    BY <1>21, NextMessageTypes, DeleteTypes DEF Drop, TypeOK
<1>22. ASSUME NEW w \in Workers, Abandon(w) PROVE TypeOK'
    BY <1>22, NextMessageTypes DEF Abandon, TypeOK
<1>23. ASSUME NEW w \in Workers, CommitFails(w) PROVE TypeOK'
    BY <1>23, NextMessageTypes DEF CommitFails, TypeOK
<1>24. ASSUME NEW w \in Workers, Crash(w) PROVE TypeOK'
    BY <1>24 DEF Crash, TypeOK, Processing
<1>25. CASE LeaseExpires
    BY <1>25 DEF LeaseExpires, TypeOK
<1>26. CASE RedisFault
    <2>1. faults' \in 0..MaxFaults
        BY <1>26 DEF RedisFault, TypeOK
    <2>2. /\ redisUp' \in BOOLEAN
          /\ lease' \in Workers \cup {None}
          /\ cached' = NoKey \/ cached' \in SUBSET Handlers
        BY <1>26, Zenon DEF RedisFault, TypeOK
    <2> QED
        BY <1>26, <2>1, <2>2 DEF RedisFault, TypeOK
<1>27. CASE RedisRecovers
    BY <1>27 DEF RedisRecovers, TypeOK
<1>28. CASE UNCHANGED vars
    BY <1>28 DEF vars, TypeOK
<1>29. CASE KeyExpires
    <2>1. lapsed' \in BOOLEAN
        BY <1>29, Zenon DEF KeyExpires, TypeOK
    <2> QED
        BY <1>29, <2>1 DEF KeyExpires, TypeOK
<1> QED
    BY <1>1, <1>2, <1>3, <1>4, <1>5, <1>6, <1>7, <1>8, <1>9, <1>10, <1>11,
       <1>12, <1>13, <1>14, <1>15, <1>16, <1>17, <1>18, <1>19, <1>20, <1>21,
       <1>22, <1>23, <1>24, <1>25, <1>26, <1>27, <1>28, <1>29
    DEF Next, WorkerStep, ProcessStep, ReceiveNothing

(* The worker, the queue and the stores always hold what their code        *)
(* expects to find (TypeOK), for any number of workers and messages.       *)
THEOREM TypeCorrect == Spec => []TypeOK
BY InitTypes, StepTypes, PTL DEF Spec

-----------------------------------------------------------------------------
(* No event is lost.  The cache and every worker's reading of it only hold *)
(* handlers that are recorded, and what is recorded took effect, so a      *)
(* worker with nothing left to do knows that all handlers did.             *)
RecordedRan ==
    /\ \A h \in rows : effects[h] >= 1
    /\ cached # NoKey => cached \subseteq rows
    /\ \A w \in Workers :
         /\ seen[w] \subseteq rows
         /\ pc[w] = "record" => effects[current[w]] >= 1
         /\ pc[w] \in {"peek", "store"} => current[w] \in rows

Accounted ==
    \A w \in Workers :
      /\ pc[w] \in {"refresh", "run", "peek", "store"}
           => Handlers \subseteq todo[w] \cup failed[w] \cup rows
      /\ pc[w] = "record"
           => Handlers \subseteq todo[w] \cup failed[w] \cup rows \cup {current[w]}

(* Before the first delivery there is nothing to account for.              *)
LEMMA InitAccounted == Init => RecordedRan /\ Accounted
BY DEF Init, RecordedRan, Accounted

(* No step records or caches a handler that has not run, or drops one from *)
(* a worker's account.                                                     *)
LEMMA StepAccounted ==
    TypeOK /\ RecordedRan /\ Accounted /\ [Next]_vars => RecordedRan' /\ Accounted'
<1> SUFFICES ASSUME TypeOK, RecordedRan, Accounted, [Next]_vars
             PROVE  RecordedRan' /\ Accounted'
    OBVIOUS
<1> USE WorkerAssumption DEF WorkerAssumption
<1> USE DEF queueVars, storeVars, workVars
<1>1. ASSUME UNCHANGED <<storeVars, pc, workVars>>
      PROVE  RecordedRan' /\ Accounted'
    BY <1>1 DEF RecordedRan, Accounted
<1>2. ASSUME NEW w \in Workers, NextMessage(w), UNCHANGED <<rows, effects, cached>>
      PROVE  RecordedRan' /\ Accounted'
    BY <1>2 DEF NextMessage, AfterMessage, TypeOK, RecordedRan, Accounted
<1>3. ASSUME NEW w \in Workers, NEW step \in {"next", "load", "park", "drop", "polling"},
             pc' = [pc EXCEPT ![w] = step],
             UNCHANGED <<rows, effects, cached, todo, failed, current, seen>>
      PROVE  RecordedRan' /\ Accounted'
    BY <1>3 DEF TypeOK, RecordedRan, Accounted
<1>4. ASSUME NEW w \in Workers, LoadCached(w) PROVE RecordedRan' /\ Accounted'
    BY <1>4 DEF LoadCached, GoTo, Remaining, TypeOK, RecordedRan, Accounted
<1>5. ASSUME NEW w \in Workers, LoadRows(w) PROVE RecordedRan' /\ Accounted'
    BY <1>5 DEF LoadRows, AfterRows, GoTo, Remaining, TypeOK, RecordedRan, Accounted
<1>6. ASSUME NEW w \in Workers, Refresh(w) PROVE RecordedRan' /\ Accounted'
    BY <1>6 DEF Refresh, CacheSet, GoTo, TypeOK, RecordedRan, Accounted
<1>7. ASSUME NEW w \in Workers, NEW h \in Handlers, HandlerSucceeds(w, h)
      PROVE  RecordedRan' /\ Accounted'
    <2>1. RecordedRan'
        BY <1>7 DEF HandlerSucceeds, GoTo, TypeOK, RecordedRan
    <2>2. Accounted'
        BY <1>7 DEF HandlerSucceeds, StillToDo, GoTo, TypeOK, Accounted
    <2> QED
        BY <2>1, <2>2
<1>8. ASSUME NEW w \in Workers, NEW h \in Handlers, HandlerFails(w, h)
      PROVE  RecordedRan' /\ Accounted'
    BY <1>8 DEF HandlerFails, StillToDo, TypeOK, RecordedRan, Accounted
<1>9. ASSUME NEW w \in Workers, Record(w) PROVE RecordedRan' /\ Accounted'
    BY <1>9 DEF Record, GoTo, TypeOK, RecordedRan, Accounted
<1>10. ASSUME NEW w \in Workers, Peek(w) PROVE RecordedRan' /\ Accounted'
    BY <1>10 DEF Peek, GoTo, TypeOK, RecordedRan, Accounted
<1>11. ASSUME NEW w \in Workers, Store(w) PROVE RecordedRan' /\ Accounted'
    BY <1>11 DEF Store, CacheSet, GoTo, TypeOK, RecordedRan, Accounted
<1>12. ASSUME NEW w \in Workers, Crash(w) PROVE RecordedRan' /\ Accounted'
    BY <1>12 DEF Crash, TypeOK, RecordedRan, Accounted
<1>13. CASE RedisFault
    BY <1>13 DEF RedisFault, RecordedRan, Accounted
<1>14. CASE LeaseExpires \/ KeyExpires \/ RedisRecovers
    BY <1>14 DEF LeaseExpires, KeyExpires, RedisRecovers, RecordedRan, Accounted
<1>15. ASSUME NEW w \in Workers, Receive(w) \/ Claim(w) \/ Skip(w)
                                  \/ OpenPoison(w) \/ Park(w)
       PROVE  RecordedRan' /\ Accounted'
    BY <1>3, <1>15 DEF Receive, Claim, Skip, AfterMessage, OpenPoison, Park, GoTo
<1>16. ASSUME NEW w \in Workers, Ack(w) \/ GiveBack(w) \/ Drop(w) \/ Abandon(w)
                                  \/ CommitFails(w)
       PROVE  RecordedRan' /\ Accounted'
    BY <1>2, <1>16 DEF Ack, GiveBack, Drop, Abandon, CommitFails
<1>17. ASSUME Publish \/ RedriveDelete \/ (\E c \in Copies : Reappear(c)
                 \/ DeadLetter(c) \/ RedriveSend(c)) \/ UNCHANGED vars
       PROVE  RecordedRan' /\ Accounted'
    BY <1>1, <1>17
    DEF Publish, RedriveDelete, Reappear, DeadLetter, RedriveSend, vars
<1> QED
    BY <1>4, <1>5, <1>6, <1>7, <1>8, <1>9, <1>10, <1>11, <1>12, <1>13, <1>14,
       <1>15, <1>16, <1>17
    DEF Next, WorkerStep, ProcessStep, ReceiveNothing

(* Only a message that will not parse is parked; deliveries are of copies  *)
(* that were sent; and until every handler is recorded there is a copy     *)
(* that no worker is about to drop and redrive not about to delete.        *)
Sent(c) == where[c] # "unsent"

ParkingSeparate ==
    \A w \in Workers :
      /\ pc[w] \in {"park", "drop"} => poison
      /\ pc[w] \in Processing => ~poison

DeliveredSent ==
    /\ \A w \in Workers :
         /\ \A d \in batch[w] : Sent(d.copy)
         /\ job[w] # None => Sent(job[w].copy)
    /\ redriven # None => Sent(redriven)

BeingDropped(c) == \E w \in Workers : pc[w] = "drop" /\ job[w].copy = c

Kept(c) == Live(c) /\ c # redriven /\ ~BeingDropped(c)

SomeKept ==
    (\E c \in Copies : Sent(c))
      => (\E c \in Copies : Kept(c)) \/ (~poison /\ Handlers \subseteq rows)

LostInv == ParkingSeparate /\ DeliveredSent /\ SomeKept

(* Before the event is sent there is nothing to lose.                      *)
LEMMA InitLost == Init => LostInv
BY DEF Init, LostInv, ParkingSeparate, DeliveredSent, SomeKept, Sent, Processing

(* Whether the body parses does not change, so neither does the branch of  *)
(* _handle_message.                                                        *)
LEMMA StepParking == TypeOK /\ ParkingSeparate /\ [Next]_vars => ParkingSeparate'
<1> SUFFICES ASSUME TypeOK, ParkingSeparate, [Next]_vars PROVE ParkingSeparate'
    OBVIOUS
<1> USE DEF queueVars, storeVars, workVars
<1>1. ASSUME UNCHANGED <<poison, pc>> PROVE ParkingSeparate'
    BY <1>1 DEF ParkingSeparate
<1>2. ASSUME NEW w \in Workers, NextMessage(w), UNCHANGED poison
      PROVE  ParkingSeparate'
    BY <1>2 DEF NextMessage, AfterMessage, TypeOK, ParkingSeparate, Processing
<1>3. ASSUME NEW w \in Workers, NEW step, pc' = [pc EXCEPT ![w] = step],
             UNCHANGED poison,
             step \in {"park", "drop"} => poison,
             step \in Processing => ~poison
      PROVE  ParkingSeparate'
    BY <1>3 DEF TypeOK, ParkingSeparate
<1>4. ASSUME NEW w \in Workers, Receive(w) \/ Claim(w) \/ Skip(w)
                                 \/ OpenPoison(w) \/ Park(w) \/ Crash(w)
      PROVE  ParkingSeparate'
    BY <1>3, <1>4
    DEF Receive, Claim, Skip, AfterMessage, OpenPoison, Park, Crash, GoTo,
        ParkingSeparate, Processing
<1>5. ASSUME NEW w \in Workers, LoadCached(w) \/ LoadRows(w) \/ Refresh(w)
                                 \/ Record(w) \/ Peek(w) \/ Store(w)
      PROVE  ParkingSeparate'
    BY <1>3, <1>5
    DEF LoadCached, LoadRows, AfterRows, Refresh, Record, Peek, Store, GoTo,
        Processing, ParkingSeparate
<1>6. ASSUME NEW w \in Workers, NEW h \in Handlers,
             HandlerSucceeds(w, h) \/ HandlerFails(w, h)
      PROVE  ParkingSeparate'
    BY <1>1, <1>3, <1>6
    DEF HandlerSucceeds, HandlerFails, GoTo, Processing, ParkingSeparate
<1>7. ASSUME NEW w \in Workers, Ack(w) \/ GiveBack(w) \/ Drop(w) \/ Abandon(w)
                                 \/ CommitFails(w)
      PROVE  ParkingSeparate'
    BY <1>2, <1>7 DEF Ack, GiveBack, Drop, Abandon, CommitFails
<1>8. ASSUME Publish \/ RedriveDelete
             \/ (\E c \in Copies : Reappear(c) \/ DeadLetter(c) \/ RedriveSend(c))
             \/ LeaseExpires \/ KeyExpires \/ RedisFault \/ RedisRecovers
             \/ UNCHANGED vars
      PROVE  ParkingSeparate'
    BY <1>1, <1>8
    DEF Publish, RedriveDelete, Reappear, DeadLetter, RedriveSend, LeaseExpires,
        KeyExpires, RedisFault, RedisRecovers, vars
<1> QED
    BY <1>4, <1>5, <1>6, <1>7, <1>8
    DEF Next, WorkerStep, ProcessStep, ReceiveNothing

(* A copy once sent stays sent, and what SendTo sends was not sent before. *)
LEMMA SentStays ==
    TypeOK /\ [Next]_vars => \A c \in Copies : Sent(c) => Sent(c)'
<1> SUFFICES ASSUME TypeOK, [Next]_vars, NEW c \in Copies, Sent(c) PROVE Sent(c)'
    OBVIOUS
<1> USE DEF Sent, TypeOK
<1>1. ASSUME NEW place \in {"queued", "dlq"}, SendTo(place) PROVE Sent(c)'
    BY <1>1 DEF SendTo
<1>2. ASSUME NEW d, DeleteMessage(d) PROVE Sent(c)'
    BY <1>2 DEF DeleteMessage
<1>3. CASE Publish \/ RedriveDelete
    BY <1>1, <1>3 DEF Publish, RedriveDelete
<1>4. ASSUME NEW x \in Copies, Reappear(x) \/ DeadLetter(x) \/ RedriveSend(x)
      PROVE  Sent(c)'
    BY <1>1, <1>4 DEF Reappear, DeadLetter, RedriveSend
<1>5. ASSUME NEW w \in Workers, Receive(w) PROVE Sent(c)'
    BY <1>5 DEF Receive
<1>6. ASSUME NEW w \in Workers, Park(w) \/ Ack(w) \/ Drop(w) PROVE Sent(c)'
    BY <1>1, <1>2, <1>6 DEF Park, Ack, Drop
<1>7. CASE UNCHANGED where
    BY <1>7
<1> QED
    BY <1>3, <1>4, <1>5, <1>6, <1>7
    DEF Next, WorkerStep, ProcessStep, ReceiveNothing, Claim, Skip, OpenPoison,
        LoadCached, LoadRows, Refresh, HandlerSucceeds, HandlerFails, Record, Peek,
        Store, GiveBack, Abandon, CommitFails, Crash, LeaseExpires, KeyExpires,
        RedisFault, RedisRecovers, queueVars, storeVars, workVars, vars

(* What workers hold receipts of stays sent.                               *)
LEMMA StepDelivered == TypeOK /\ DeliveredSent /\ [Next]_vars => DeliveredSent'
<1> SUFFICES ASSUME TypeOK, DeliveredSent, [Next]_vars PROVE DeliveredSent'
    OBVIOUS
<1> USE WorkerAssumption DEF WorkerAssumption
<1> USE DEF queueVars, storeVars, workVars
<1>0. \A c \in Copies : Sent(c) => Sent(c)'
    BY SentStays
<1>1. ASSUME NEW w \in Workers, UNCHANGED redriven,
             \A v \in Workers : v # w => batch'[v] = batch[v] /\ job'[v] = job[v],
             batch'[w] \subseteq batch[w],
             job'[w] \in batch[w] \cup {job[w], None}
      PROVE  DeliveredSent'
    <2>1. \A v \in Workers : \A d \in batch[v] : d \in Deliveries /\ d.copy \in Copies
        BY DEF TypeOK, Deliveries
    <2>2. \A v \in Workers : job[v] # None => job[v].copy \in Copies
        BY DEF TypeOK, Deliveries
    <2>3. redriven # None => redriven \in Copies
        BY DEF TypeOK
    <2>4. \A v \in Workers : \A d \in batch'[v] : Sent(d.copy)'
        BY <1>0, <1>1, <2>1 DEF DeliveredSent
    <2>5. ASSUME NEW v \in Workers, job'[v] # None PROVE Sent(job[v].copy)'
        BY <1>0, <1>1, <2>1, <2>2, <2>5 DEF DeliveredSent, Sent
    <2> QED
        BY <1>0, <1>1, <2>3, <2>4, <2>5 DEF DeliveredSent, Sent
<1>2. ASSUME NEW w \in Workers, NextMessage(w), UNCHANGED redriven
      PROVE  DeliveredSent'
    BY <1>1, <1>2 DEF NextMessage, TypeOK
<1>3. ASSUME NEW w \in Workers,
             \E d \in batch[w] : Open(w, d) /\ job' = [job EXCEPT ![w] = d],
             UNCHANGED redriven
      PROVE  DeliveredSent'
    BY <1>1, <1>3 DEF Open, TypeOK
<1>4. ASSUME NEW w \in Workers, Skip(w) PROVE DeliveredSent'
    BY <1>1, <1>4 DEF Skip, Open, TypeOK
<1>5. ASSUME NEW w \in Workers, Crash(w) PROVE DeliveredSent'
    BY <1>1, <1>5 DEF Crash, TypeOK
<1>6. ASSUME UNCHANGED <<batch, job, redriven>> PROVE DeliveredSent'
    <2>1. CASE Workers = {}
        BY <1>0, <1>6, <2>1 DEF DeliveredSent, TypeOK, Sent
    <2>2. CASE Workers # {}
        BY <1>1, <1>6, <2>2 DEF TypeOK
    <2> QED
        BY <2>1, <2>2
<1>7. ASSUME NEW w \in Workers, Receive(w) PROVE DeliveredSent'
    <2>1. PICK B \in SUBSET {c \in Copies : where[c] = "queued"} :
            batch' = [batch EXCEPT ![w] =
                        {[copy |-> c, receipt |-> receives[c] + 1] : c \in B}]
        BY <1>7 DEF Receive
    <2>2. \A c \in B : c \in Copies /\ Sent(c)'
        BY <1>0, <2>1 DEF Sent
    <2>3. \A d \in batch'[w] : d.copy \in B
        BY <2>1 DEF TypeOK
    <2>4. \A v \in Workers : v # w => batch'[v] = batch[v]
        BY <2>1 DEF TypeOK
    <2>5. \A v \in Workers : \A d \in batch[v] : d.copy \in Copies
        BY DEF TypeOK, Deliveries
    <2>6. \A v \in Workers : job[v] # None => job[v].copy \in Copies
        BY DEF TypeOK, Deliveries
    <2>7. redriven # None => redriven \in Copies
        BY DEF TypeOK
    <2>8. UNCHANGED <<job, redriven>>
        BY <1>7 DEF Receive
    <2> QED
        BY <1>0, <2>2, <2>3, <2>4, <2>5, <2>6, <2>7, <2>8 DEF DeliveredSent, Sent
<1>8. ASSUME NEW c \in Copies, RedriveSend(c) PROVE DeliveredSent'
    <2>1. \A v \in Workers : \A d \in batch[v] : d.copy \in Copies
        BY DEF TypeOK, Deliveries
    <2>2. \A v \in Workers : job[v] # None => job[v].copy \in Copies
        BY DEF TypeOK, Deliveries
    <2>3. Sent(c)
        BY <1>8 DEF RedriveSend, Sent
    <2>4. redriven' = c /\ UNCHANGED <<batch, job>>
        BY <1>8 DEF RedriveSend
    <2> QED
        BY <1>0, <2>1, <2>2, <2>3, <2>4 DEF DeliveredSent, Sent
<1>9. CASE RedriveDelete
    <2>1. \A v \in Workers : \A d \in batch[v] : d.copy \in Copies
        BY DEF TypeOK, Deliveries
    <2>2. \A v \in Workers : job[v] # None => job[v].copy \in Copies
        BY DEF TypeOK, Deliveries
    <2>3. redriven' = None /\ UNCHANGED <<batch, job>>
        BY <1>9 DEF RedriveDelete
    <2> QED
        BY <1>0, <2>1, <2>2, <2>3 DEF DeliveredSent, Sent
<1>10. ASSUME NEW w \in Workers,
              \/ Claim(w) \/ OpenPoison(w)
              \/ Ack(w) \/ GiveBack(w) \/ Drop(w) \/ Abandon(w) \/ CommitFails(w)
       PROVE  DeliveredSent'
    BY <1>2, <1>3, <1>10
    DEF Claim, OpenPoison, Ack, GiveBack, Drop, Abandon, CommitFails
<1>11. ASSUME NEW w \in Workers,
              \/ Park(w) \/ LoadCached(w) \/ LoadRows(w) \/ Refresh(w)
              \/ \E h \in Handlers : HandlerSucceeds(w, h) \/ HandlerFails(w, h)
              \/ Record(w) \/ Peek(w) \/ Store(w)
       PROVE  DeliveredSent'
    BY <1>6, <1>11
    DEF Park, LoadCached, LoadRows, Refresh, HandlerSucceeds, HandlerFails,
        Record, Peek, Store, GoTo
<1>12. ASSUME \/ Publish \/ LeaseExpires \/ KeyExpires \/ RedisFault
              \/ RedisRecovers
              \/ \E c \in Copies : Reappear(c) \/ DeadLetter(c)
              \/ UNCHANGED vars
       PROVE  DeliveredSent'
    BY <1>6, <1>12
    DEF Publish, LeaseExpires, KeyExpires, RedisFault, RedisRecovers, Reappear,
        DeadLetter, vars
<1> QED
    BY <1>4, <1>5, <1>7, <1>8, <1>9, <1>10, <1>11, <1>12
    DEF Next, WorkerStep, ProcessStep, ReceiveNothing

(* What SendTo sends is in no worker's hands and not being redriven.       *)
LEMMA NewIsKept ==
    ASSUME TypeOK, DeliveredSent, NEW place \in {"queued", "dlq"}, SendTo(place),
           UNCHANGED job,
           \A v \in Workers : pc'[v] = "drop" => job[v] # None,
           redriven' = redriven \/ (redriven' \in Copies /\ Sent(redriven'))
    PROVE  \E c \in Copies : Kept(c)'
<1>1. PICK c \in Copies : where[c] = "unsent" /\ where' = [where EXCEPT ![c] = place]
    BY DEF SendTo
<1>2. Live(c)'
    BY <1>1 DEF Live, TypeOK
<1>3. c # redriven'
    BY <1>1, WorkerAssumption DEF WorkerAssumption, DeliveredSent, Sent
<1>4. \A v \in Workers : job[v] # None => job[v].copy # c
    BY <1>1 DEF DeliveredSent, Sent
<1> QED
    BY <1>2, <1>3, <1>4 DEF Kept, BeingDropped

(* Whatever drops a copy leaves another, or has seen all handlers          *)
(* recorded.                                                               *)
LEMMA StepSomeKept ==
    TypeOK /\ LostInv /\ Accounted /\ [Next]_vars => SomeKept'
<1> SUFFICES ASSUME TypeOK, LostInv, Accounted, [Next]_vars PROVE SomeKept'
    OBVIOUS
<1> USE WorkerAssumption DEF WorkerAssumption
<1> USE DEF queueVars, storeVars, workVars
<1>1. ASSUME \E c \in Copies : Kept(c)' PROVE SomeKept'
    BY <1>1 DEF SomeKept
<1>2. ASSUME \A c \in Copies : Kept(c) => Kept(c)',
             \A c \in Copies : Sent(c)' => Sent(c),
             rows \subseteq rows', UNCHANGED poison
      PROVE  SomeKept'
    BY <1>2 DEF LostInv, SomeKept
<1>3. ASSUME \A v \in Workers : pc'[v] = "drop" => pc[v] = "drop" /\ job'[v] = job[v],
             rows \subseteq rows', UNCHANGED <<poison, where, redriven>>
      PROVE  SomeKept'
    BY <1>2, <1>3 DEF Kept, Live, BeingDropped, Sent
<1>4. CASE Publish
    <2>1. \E c \in Copies : Kept(c)'
        BY <1>4, NewIsKept DEF Publish, LostInv, TypeOK, Processing
    <2> QED
        BY <1>1, <2>1
<1>5. ASSUME NEW c \in Copies, RedriveSend(c) PROVE SomeKept'
    <2>1. \E x \in Copies : Kept(x)'
        BY <1>5, NewIsKept DEF RedriveSend, LostInv, Sent, TypeOK, Processing
    <2> QED
        BY <1>1, <2>1
<1>6. ASSUME NEW w \in Workers, Park(w) PROVE SomeKept'
    <2>1. \A v \in Workers : pc'[v] = "drop" => job[v] # None
        BY <1>6 DEF Park, GoTo, TypeOK
    <2>2. \E c \in Copies : Kept(c)'
        BY <1>6, <2>1, NewIsKept DEF Park, LostInv
    <2> QED
        BY <1>1, <2>2
<1>7. ASSUME NEW x \in Copies, Reappear(x) \/ DeadLetter(x) PROVE SomeKept'
    <2>1. \A c \in Copies : /\ Live(c) => Live(c)'
                            /\ Sent(c)' => Sent(c)
        BY <1>7 DEF Reappear, DeadLetter, Live, Sent, TypeOK
    <2>2. UNCHANGED <<poison, redriven, rows, pc, job>>
        BY <1>7 DEF Reappear, DeadLetter
    <2> QED
        BY <1>2, <2>1, <2>2 DEF Kept, BeingDropped
<1>8. CASE RedriveDelete
    <2>1. \A c \in Copies : /\ Live(c) /\ c # redriven => Live(c)'
                            /\ Sent(c)' => Sent(c)
        <3>1. redriven \in Copies
            BY <1>8 DEF RedriveDelete, TypeOK
        <3>2. Sent(redriven)
            BY <1>8 DEF RedriveDelete, LostInv, DeliveredSent
        <3> QED
            BY <1>8, <3>1, <3>2 DEF RedriveDelete, Live, Sent, TypeOK
    <2>2. redriven' = None /\ UNCHANGED <<poison, rows, pc, job>>
        BY <1>8 DEF RedriveDelete
    <2> QED
        BY <1>2, <2>1, <2>2 DEF Kept, BeingDropped
<1>9. ASSUME NEW w \in Workers, Receive(w) PROVE SomeKept'
    <2>1. \A c \in Copies : /\ Live(c) => Live(c)'
                            /\ Sent(c)' => Sent(c)
        BY <1>9 DEF Receive, Live, Sent, TypeOK
    <2>2. /\ UNCHANGED <<poison, redriven, rows, job>>
          /\ \A v \in Workers : pc'[v] = "drop" => pc[v] = "drop"
        BY <1>9 DEF Receive, TypeOK
    <2> QED
        BY <1>2, <2>1, <2>2 DEF Kept, BeingDropped
<1>10. ASSUME NEW w \in Workers, Drop(w) PROVE SomeKept'
    <2>1. pc[w] = "drop" /\ job[w] \in Deliveries /\ job[w].copy \in Copies
        BY <1>10 DEF Drop, TypeOK, Deliveries
    <2>2. \A c \in Copies : /\ Live(c) /\ c # job[w].copy => Live(c)'
                            /\ Sent(c)' => Sent(c)
        BY <1>10, <2>1 DEF Drop, DeleteMessage, Live, Sent, TypeOK
    <2>3. \A v \in Workers : pc'[v] = "drop" => pc[v] = "drop" /\ job'[v] = job[v]
        BY <1>10 DEF Drop, NextMessage, AfterMessage, TypeOK
    <2>4. UNCHANGED <<poison, redriven, rows>>
        BY <1>10 DEF Drop
    <2> QED
        BY <1>2, <2>1, <2>2, <2>3, <2>4 DEF Kept, BeingDropped
<1>11. ASSUME NEW w \in Workers, Ack(w) PROVE SomeKept'
    <2>1. Handlers \subseteq rows
        BY <1>11 DEF Ack, Complete, Accounted
    <2>2. ~poison
        BY <1>11 DEF Ack, LostInv, ParkingSeparate, Processing
    <2>3. UNCHANGED <<poison, rows>>
        BY <1>11 DEF Ack
    <2> QED
        BY <2>1, <2>2, <2>3 DEF SomeKept
<1>12. ASSUME NEW w \in Workers, GiveBack(w) \/ Abandon(w) \/ CommitFails(w)
       PROVE  SomeKept'
    BY <1>3, <1>12
    DEF GiveBack, Abandon, CommitFails, NextMessage, AfterMessage, TypeOK
<1>13. ASSUME NEW w \in Workers,
              Claim(w) \/ Skip(w) \/ OpenPoison(w) \/ Crash(w)
       PROVE  SomeKept'
    <2>1. \A v \in Workers : pc'[v] = "drop" => pc[v] = "drop" /\ job'[v] = job[v]
        BY <1>13 DEF Claim, Skip, AfterMessage, OpenPoison, Crash, TypeOK
    <2>2. UNCHANGED <<poison, where, redriven, rows>>
        BY <1>13 DEF Claim, Skip, OpenPoison, Crash
    <2> QED
        BY <1>3, <2>1, <2>2
<1>14. ASSUME NEW w \in Workers,
              LoadCached(w) \/ LoadRows(w) \/ Refresh(w) \/ Record(w) \/ Peek(w)
                \/ Store(w)
       PROVE  SomeKept'
    <2>1. \A v \in Workers : pc'[v] = "drop" => pc[v] = "drop" /\ job'[v] = job[v]
        BY <1>14
        DEF LoadCached, LoadRows, AfterRows, Refresh, Record, Peek, Store, GoTo,
            TypeOK
    <2>2. rows \subseteq rows' /\ UNCHANGED <<poison, where, redriven>>
        BY <1>14 DEF LoadCached, LoadRows, Refresh, Record, Peek, Store
    <2> QED
        BY <1>3, <2>1, <2>2
<1>15. ASSUME NEW w \in Workers, NEW h \in Handlers,
              HandlerSucceeds(w, h) \/ HandlerFails(w, h)
       PROVE  SomeKept'
    <2>1. \A v \in Workers : pc'[v] = "drop" => pc[v] = "drop" /\ job'[v] = job[v]
        BY <1>15 DEF HandlerSucceeds, HandlerFails, GoTo, TypeOK
    <2>2. UNCHANGED <<poison, where, redriven, rows>>
        BY <1>15 DEF HandlerSucceeds, HandlerFails
    <2> QED
        BY <1>3, <2>1, <2>2
<1>16. ASSUME \/ LeaseExpires \/ KeyExpires \/ RedisFault \/ RedisRecovers
              \/ UNCHANGED vars
       PROVE  SomeKept'
    BY <1>3, <1>16 DEF LeaseExpires, KeyExpires, RedisFault, RedisRecovers, vars
<1> QED
    BY <1>4, <1>5, <1>6, <1>7, <1>8, <1>9, <1>10, <1>11, <1>12, <1>13, <1>14,
       <1>15, <1>16
    DEF Next, WorkerStep, ProcessStep, ReceiveNothing

(* The three together, with what is accounted for, hold at all times.      *)
LEMMA LostInvHolds == Spec => [](TypeOK /\ RecordedRan /\ Accounted /\ LostInv)
<1>1. TypeOK /\ RecordedRan /\ Accounted /\ LostInv /\ [Next]_vars => LostInv'
    BY StepParking, StepDelivered, StepSomeKept DEF LostInv
<1> QED
    BY <1>1, InitTypes, StepTypes, InitAccounted, StepAccounted, InitLost, PTL
    DEF Spec

(* An event once sent is never lost (NoEventLost), however many workers,   *)
(* copies, receives and faults there are.                                  *)
THEOREM EventKept == Spec => []NoEventLost
<1>1. RecordedRan /\ LostInv => NoEventLost
    BY DEF RecordedRan, LostInv, SomeKept, Kept, NoEventLost, Sent
<1> QED
    BY <1>1, LostInvHolds, PTL

-----------------------------------------------------------------------------
(* Effects happen once.  The lease keeps the workers apart, and what has   *)
(* run is in the table but for the handler being recorded.  The cached set *)
(* may be gone, but as long as the history is clean one that is there has  *)
(* every row but the one being added to it; so has what a worker relies on *)
(* of it, and what a worker is about to write of it.                       *)
CachedSet == IF cached = NoKey THEN {} ELSE cached

Exclusive ==
    /\ redisUp
    /\ \A w \in Workers : pc[w] \in Processing => lease = w

RanIsRecorded ==
    \A h \in Handlers :
      /\ effects[h] \in {0, 1}
      /\ effects[h] = 1 /\ h \notin rows
           => \E w \in Workers : pc[w] = "record" /\ current[w] = h

CacheKnows ==
    cached # NoKey
      => \A h \in rows \ cached :
           \E w \in Workers : pc[w] \in {"peek", "store"} /\ current[w] = h

WorkersKnow ==
    \A w \in Workers :
      /\ pc[w] = "refresh" => seen[w] = rows
      /\ pc[w] = "run" /\ todo[w] # {} => rows \subseteq CachedSet
      /\ pc[w] = "record" => rows \subseteq CachedSet
      /\ pc[w] = "peek" => rows \subseteq CachedSet \cup {current[w]}
      /\ pc[w] = "store" => rows \subseteq seen[w] \cup {current[w]}

TodoNotRun ==
    \A w \in Workers : pc[w] \in {"refresh", "run", "record", "peek", "store"}
                         => \A h \in todo[w] : effects[h] = 0

Once == Exclusive /\ RanIsRecorded /\ CacheKnows /\ WorkersKnow /\ TodoNotRun

OnceInv == Clean => Once

(* No worker has started and no handler has run.                           *)
LEMMA InitOnce == Init => OnceInv
BY DEF Init, OnceInv, Once, Exclusive, RanIsRecorded, CacheKnows, WorkersKnow,
       TodoNotRun, CachedSet, Processing

(* Under the lease there is one worker at most in process_event.           *)
LEMMA OneProcesses ==
    ASSUME Exclusive, NEW v \in Workers, NEW w \in Workers,
           pc[v] \in Processing, pc[w] \in Processing
    PROVE  v = w
BY DEF Exclusive

(* Faults are counted and what lapsed stays so: a history that is clean    *)
(* has always been.                                                        *)
LEMMA CleanBefore == TypeOK /\ [Next]_vars /\ Clean' => Clean
<1> SUFFICES ASSUME TypeOK, [Next]_vars
             PROVE  /\ faults' = faults \/ faults' = faults + 1
                    /\ lapsed => lapsed'
    BY DEF TypeOK, Clean
<1> USE DEF storeVars
<1>1. CASE Publish \/ RedriveDelete \/ LeaseExpires \/ RedisFault \/ RedisRecovers
           \/ UNCHANGED vars
    BY <1>1
    DEF Publish, RedriveDelete, LeaseExpires, RedisFault, RedisRecovers, vars
<1>2. ASSUME NEW c \in Copies, Reappear(c) \/ DeadLetter(c) \/ RedriveSend(c)
      PROVE  UNCHANGED <<faults, lapsed>>
    BY <1>2 DEF Reappear, DeadLetter, RedriveSend
<1>3. ASSUME NEW w \in Workers,
             Receive(w) \/ Claim(w) \/ Skip(w) \/ OpenPoison(w) \/ Park(w) \/ Drop(w)
      PROVE  UNCHANGED <<faults, lapsed>>
    BY <1>3 DEF Receive, Claim, Skip, OpenPoison, Park, Drop
<1>4. ASSUME NEW w \in Workers, ProcessStep(w) \/ Abandon(w)
      PROVE  UNCHANGED <<faults, lapsed>>
    BY <1>4
    DEF ProcessStep, LoadCached, LoadRows, Refresh, HandlerSucceeds, HandlerFails,
        Record, Peek, Store, Ack, GiveBack, Abandon
<1>5. ASSUME NEW w \in Workers, CommitFails(w) \/ Crash(w)
      PROVE  faults' = faults + 1 /\ UNCHANGED lapsed
    BY <1>5 DEF CommitFails, Crash
<1>6. ASSUME KeyExpires PROVE UNCHANGED faults /\ (lapsed => lapsed')
    BY <1>6, Zenon DEF KeyExpires
<1> QED
    BY <1>1, <1>2, <1>3, <1>4, <1>5, <1>6 DEF Next, WorkerStep, ReceiveNothing

(* As long as the history is clean no step lets a second worker in, runs a *)
(* handler ahead of its record or writes a cached set that lacks a row.    *)
LEMMA StepOnce == TypeOK /\ OnceInv /\ [Next]_vars => OnceInv'
<1> SUFFICES ASSUME TypeOK, Once, Clean, [Next]_vars, Clean'
             PROVE  Once'
    BY CleanBefore DEF OnceInv
<1> USE WorkerAssumption DEF WorkerAssumption
<1> USE DEF queueVars, storeVars, workVars, Once
<1>1. ASSUME UNCHANGED <<rows, effects, lease, cached, redisUp, pc, todo, current,
                         seen>>
      PROVE  Once'
    BY <1>1
    DEF Exclusive, RanIsRecorded, CacheKnows, WorkersKnow, TodoNotRun, CachedSet
(* A worker that is not recording stays or ends outside process_event.     *)
<1>2. ASSUME NEW w \in Workers, pc[w] \notin {"record", "peek", "store"},
             pc'[w] \notin Processing,
             \A v \in Workers \ {w} :
               /\ pc'[v] = pc[v] /\ todo'[v] = todo[v]
               /\ current'[v] = current[v] /\ seen'[v] = seen[v],
             UNCHANGED <<rows, effects, cached, redisUp>>,
             lease' = lease \/ pc[w] \in Processing
      PROVE  Once'
    <2>1. Exclusive'
        BY <1>2, OneProcesses DEF Exclusive
    <2>2. RanIsRecorded' /\ CacheKnows'
        BY <1>2 DEF RanIsRecorded, CacheKnows
    <2>3. WorkersKnow'
        BY <1>2 DEF WorkersKnow, CachedSet, Processing
    <2>4. TodoNotRun'
        BY <1>2 DEF TodoNotRun, Processing
    <2> QED
        BY <2>1, <2>2, <2>3, <2>4
<1>3. ASSUME NEW w \in Workers,
             \/ Receive(w) \/ Skip(w) \/ OpenPoison(w) \/ Park(w) \/ Drop(w)
             \/ Ack(w) \/ GiveBack(w) \/ Abandon(w)
      PROVE  Once'
    <2>1. CASE Receive(w) \/ Skip(w) \/ OpenPoison(w) \/ Park(w)
        BY <1>2, <2>1
        DEF Receive, Skip, AfterMessage, OpenPoison, Park, GoTo, TypeOK, Processing
    <2>2. CASE Drop(w) \/ Ack(w) \/ GiveBack(w) \/ Abandon(w)
        <3>1. /\ pc[w] \notin {"record", "peek", "store"}
              /\ NextMessage(w)
              /\ UNCHANGED <<rows, effects, cached, redisUp>>
              /\ lease' = lease \/ pc[w] \in Processing
            BY <2>2 DEF Drop, Ack, GiveBack, Abandon, Processing
        <3> QED
            BY <1>2, <3>1 DEF NextMessage, AfterMessage, TypeOK, Processing
    <2> QED
        BY <1>3, <2>1, <2>2
<1>4. ASSUME NEW w \in Workers, Claim(w) PROVE Once'
    <2>1. lease = None /\ \A v \in Workers : pc[v] \notin Processing
        BY <1>4 DEF Claim, LeaseFree, Exclusive
    <2>2. Exclusive'
        BY <1>4, <2>1 DEF Claim, Exclusive, TypeOK, Processing
    <2>3. RanIsRecorded' /\ CacheKnows'
        BY <1>4, <2>1 DEF Claim, RanIsRecorded, CacheKnows, TypeOK, Processing
    <2>4. WorkersKnow' /\ TodoNotRun'
        BY <1>4, <2>1 DEF Claim, WorkersKnow, TodoNotRun, TypeOK, Processing
    <2> QED
        BY <2>2, <2>3, <2>4
(* While a worker looks up or runs handlers, what ran is in the table, and *)
(* a cached set has all of it.                                             *)
<1>5. ASSUME NEW w \in Workers, pc[w] \in {"load", "refresh", "run"}
      PROVE  /\ \A v \in Workers : pc[v] \notin {"record", "peek", "store"}
             /\ \A h \in Handlers : effects[h] = 1 => h \in rows
             /\ cached # NoKey => rows \subseteq cached
    <2>1. \A v \in Workers : pc[v] \notin {"record", "peek", "store"}
        BY <1>5, OneProcesses DEF Processing
    <2> QED
        BY <2>1 DEF RanIsRecorded, CacheKnows
<1>6. ASSUME NEW w \in Workers, LoadCached(w) PROVE Once'
    <2>1. Exclusive'
        BY <1>6 DEF LoadCached, GoTo, Exclusive, TypeOK, Processing
    <2>2. RanIsRecorded' /\ CacheKnows'
        BY <1>6 DEF LoadCached, GoTo, RanIsRecorded, CacheKnows, TypeOK
    <2>3. rows \subseteq CachedSet
        BY <1>5, <1>6 DEF LoadCached, CachedSet
    <2>4. WorkersKnow'
        BY <1>6, <2>3 DEF LoadCached, GoTo, WorkersKnow, CachedSet, TypeOK
    <2>5. \A h \in todo'[w] : effects'[h] = 0
        BY <1>5, <1>6, <2>3
        DEF LoadCached, Remaining, RanIsRecorded, CachedSet, TypeOK
    <2>6. TodoNotRun'
        BY <1>6, <2>5 DEF LoadCached, GoTo, TodoNotRun, TypeOK
    <2> QED
        BY <2>1, <2>2, <2>4, <2>6
<1>7. ASSUME NEW w \in Workers, LoadRows(w) PROVE Once'
    <2>1. /\ pc[w] = "load" /\ cached = NoKey
          /\ pc' = [pc EXCEPT ![w] = AfterRows(rows)]
          /\ todo' = [todo EXCEPT ![w] = Handlers \ rows]
          /\ seen' = [seen EXCEPT ![w] = rows]
          /\ UNCHANGED <<rows, effects, lease, cached, redisUp, current>>
        BY <1>7 DEF LoadRows, GoTo, Remaining, Exclusive
    <2>2. Exclusive'
        BY <2>1 DEF AfterRows, Exclusive, TypeOK, Processing
    <2>3. RanIsRecorded' /\ CacheKnows'
        BY <2>1 DEF AfterRows, RanIsRecorded, CacheKnows, TypeOK
    <2>4. WorkersKnow'
        BY <2>1 DEF AfterRows, WorkersKnow, CachedSet, TypeOK
    <2>5. \A h \in todo'[w] : effects'[h] = 0
        BY <1>5, <2>1 DEF RanIsRecorded, TypeOK
    <2>6. TodoNotRun'
        BY <2>1, <2>5 DEF AfterRows, TodoNotRun, TypeOK
    <2> QED
        BY <2>2, <2>3, <2>4, <2>6
<1>8. ASSUME NEW w \in Workers, Refresh(w) PROVE Once'
    <2>1. /\ pc[w] = "refresh" /\ pc' = [pc EXCEPT ![w] = "run"]
          /\ cached' = rows /\ cached' # NoKey
          /\ seen' = [seen EXCEPT ![w] = {}]
          /\ UNCHANGED <<rows, effects, lease, redisUp, todo, current>>
        BY <1>8 DEF Refresh, GoTo, CacheSet, Exclusive, WorkersKnow, TypeOK
    <2>2. Exclusive'
        BY <2>1 DEF Exclusive, TypeOK, Processing
    <2>3. RanIsRecorded' /\ CacheKnows'
        BY <2>1 DEF RanIsRecorded, CacheKnows, TypeOK
    <2>4. WorkersKnow'
        BY <1>5, <2>1, OneProcesses DEF WorkersKnow, CachedSet, TypeOK, Processing
    <2>5. TodoNotRun'
        BY <2>1 DEF TodoNotRun, TypeOK
    <2> QED
        BY <2>2, <2>3, <2>4, <2>5
<1>9. ASSUME NEW w \in Workers, NEW h \in Handlers, HandlerSucceeds(w, h)
      PROVE  Once'
    <2>1. /\ pc[w] = "run" /\ h \in todo[w]
          /\ pc' = [pc EXCEPT ![w] = "record"]
          /\ current' = [current EXCEPT ![w] = h]
          /\ todo' = [todo EXCEPT ![w] = @ \ {h}]
          /\ UNCHANGED <<rows, cached, lease, redisUp, seen>>
        BY <1>9 DEF HandlerSucceeds, StillToDo, GoTo
    <2>2. effects[h] = 0 /\ effects' = [effects EXCEPT ![h] = 1]
        <3>1. effects[h] = 0
            BY <2>1 DEF TodoNotRun
        <3> QED
            BY <1>9, <3>1 DEF HandlerSucceeds
    <2>3. Exclusive'
        BY <2>1 DEF Exclusive, TypeOK, Processing
    <2>4. RanIsRecorded'
        <3>1. /\ effects'[h] = 1
              /\ \A x \in Handlers \ {h} : effects'[x] = effects[x]
              /\ pc'[w] = "record" /\ current'[w] = h
            BY <2>1, <2>2 DEF TypeOK
        <3>2. \A x \in Handlers : effects[x] = 1 => x \in rows
            BY <1>5, <2>1
        <3> QED
            BY <2>1, <3>1, <3>2 DEF RanIsRecorded
    <2>5. CacheKnows'
        BY <1>5, <2>1 DEF CacheKnows
    <2>6. WorkersKnow'
        BY <2>1 DEF WorkersKnow, CachedSet, TypeOK
    <2>7. TodoNotRun'
        <3>1. \A v \in Workers : pc[v] \in Processing => v = w
            BY <2>1, OneProcesses DEF Processing
        <3> QED
            BY <2>1, <2>2, <3>1 DEF TodoNotRun, TypeOK, Processing
    <2> QED
        BY <2>3, <2>4, <2>5, <2>6, <2>7
<1>10. ASSUME NEW w \in Workers, NEW h \in Handlers, HandlerFails(w, h)
       PROVE  Once'
    <2>1. /\ h \in todo[w] /\ todo' = [todo EXCEPT ![w] = @ \ {h}]
          /\ UNCHANGED <<rows, effects, lease, cached, redisUp, pc, current, seen>>
        BY <1>10 DEF HandlerFails, StillToDo
    <2> QED
        BY <2>1 DEF Exclusive, RanIsRecorded, CacheKnows, WorkersKnow, TodoNotRun,
                    CachedSet, TypeOK
<1>11. ASSUME NEW w \in Workers, Record(w) PROVE Once'
    <2>1. /\ pc[w] = "record" /\ pc' = [pc EXCEPT ![w] = "peek"]
          /\ current[w] \in Handlers
          /\ rows' = rows \cup {current[w]}
          /\ UNCHANGED <<effects, cached, lease, redisUp, todo, current, seen>>
        BY <1>11 DEF Record, GoTo, TypeOK
    <2>2. \A v \in Workers : pc[v] \in Processing => v = w
        BY <2>1, OneProcesses DEF Processing
    <2>3. Exclusive'
        BY <2>1 DEF Exclusive, TypeOK, Processing
    <2>4. RanIsRecorded'
        BY <2>1, <2>2 DEF RanIsRecorded, Processing
    <2>5. CacheKnows'
        <3>1. cached # NoKey => rows \subseteq cached
            BY <2>1 DEF WorkersKnow, CachedSet
        <3>2. pc'[w] = "peek"
            BY <2>1 DEF TypeOK
        <3> QED
            BY <2>1, <3>1, <3>2 DEF CacheKnows
    <2>6. WorkersKnow'
        BY <2>1, <2>2 DEF WorkersKnow, CachedSet, TypeOK, Processing
    <2>7. TodoNotRun'
        BY <2>1 DEF TodoNotRun, TypeOK
    <2> QED
        BY <2>3, <2>4, <2>5, <2>6, <2>7
<1>12. ASSUME NEW w \in Workers, Peek(w) PROVE Once'
    <2>1. /\ pc[w] = "peek" /\ pc' = [pc EXCEPT ![w] = "store"]
          /\ seen' = [seen EXCEPT ![w] = CachedSet]
          /\ UNCHANGED <<rows, effects, lease, cached, redisUp, todo, current>>
        BY <1>12 DEF Peek, GoTo, CachedSet, Exclusive
    <2>2. Exclusive' /\ TodoNotRun'
        BY <2>1 DEF Exclusive, TodoNotRun, TypeOK, Processing
    <2>3. RanIsRecorded' /\ CacheKnows'
        BY <2>1 DEF RanIsRecorded, CacheKnows, TypeOK
    <2>4. WorkersKnow'
        BY <2>1 DEF WorkersKnow, CachedSet, TypeOK
    <2> QED
        BY <2>2, <2>3, <2>4
<1>13. ASSUME NEW w \in Workers, Store(w) PROVE Once'
    <2>1. /\ pc[w] = "store" /\ pc' = [pc EXCEPT ![w] = "run"]
          /\ cached' = seen[w] \cup {current[w]} /\ cached' # NoKey
          /\ \A v \in Workers \ {w} : current'[v] = current[v] /\ seen'[v] = seen[v]
          /\ UNCHANGED <<rows, effects, lease, redisUp, todo>>
        BY <1>13 DEF Store, GoTo, CacheSet, Exclusive, TypeOK
    <2>2. \A v \in Workers : pc[v] \in Processing => v = w
        BY <2>1, OneProcesses DEF Processing
    <2>3. rows \subseteq cached'
        BY <2>1 DEF WorkersKnow
    <2>4. Exclusive' /\ TodoNotRun'
        BY <2>1 DEF Exclusive, TodoNotRun, TypeOK, Processing
    <2>5. RanIsRecorded' /\ CacheKnows'
        BY <2>1, <2>2, <2>3 DEF RanIsRecorded, CacheKnows, TypeOK, Processing
    <2>6. WorkersKnow'
        BY <2>1, <2>2, <2>3 DEF WorkersKnow, CachedSet, TypeOK, Processing
    <2> QED
        BY <2>4, <2>5, <2>6
<1>14. CASE LeaseExpires
    <2>1. \A v \in Workers : pc[v] \notin Processing
        <3>1. pc[lease] \notin Processing
            BY <1>14 DEF LeaseExpires, Clean, TypeOK
        <3> QED
            BY <3>1 DEF Exclusive
    <2> QED
        BY <1>14, <2>1
        DEF LeaseExpires, Exclusive, RanIsRecorded, CacheKnows, WorkersKnow,
            TodoNotRun, CachedSet, Processing
(* The cached set runs out: nobody relies on it.                           *)
<1>15. CASE KeyExpires
    <2>1. \A w \in Workers : ~Relies(w)
        BY <1>15 DEF KeyExpires, Clean
    <2>2. /\ cached' = NoKey
          /\ UNCHANGED <<rows, effects, lease, redisUp, pc, todo, current, seen>>
        BY <1>15 DEF KeyExpires
    <2>3. Exclusive' /\ RanIsRecorded' /\ CacheKnows' /\ TodoNotRun'
        BY <2>2 DEF Exclusive, RanIsRecorded, CacheKnows, TodoNotRun
    <2>4. WorkersKnow'
        BY <2>1, <2>2 DEF WorkersKnow, Relies
    <2> QED
        BY <2>3, <2>4
<1>16. CASE RedisRecovers
    BY <1>16
    DEF RedisRecovers, Exclusive, RanIsRecorded, CacheKnows, WorkersKnow,
        TodoNotRun, CachedSet
<1>17. ASSUME \/ Publish \/ RedriveDelete
              \/ \E c \in Copies : Reappear(c) \/ DeadLetter(c) \/ RedriveSend(c)
              \/ UNCHANGED vars
       PROVE  Once'
    BY <1>1, <1>17
    DEF Publish, RedriveDelete, Reappear, DeadLetter, RedriveSend, vars
<1>18. ASSUME RedisFault \/ \E w \in Workers : CommitFails(w) \/ Crash(w)
       PROVE  FALSE
    BY <1>18 DEF RedisFault, CommitFails, Crash, Clean
<1> QED
    BY <1>3, <1>4, <1>6, <1>7, <1>8, <1>9, <1>10, <1>11, <1>12, <1>13, <1>14,
       <1>15, <1>16, <1>17, <1>18
    DEF Next, WorkerStep, ProcessStep, ReceiveNothing

(* In a clean history no handler takes effect twice (EffectsOnce), however *)
(* many workers share the queue, however often the event is delivered and  *)
(* however often the cached set runs out between deliveries.               *)
THEOREM EffectsHappenOnce == Spec => []EffectsOnce
<1>1. OnceInv => EffectsOnce
    BY DEF OnceInv, Once, RanIsRecorded, EffectsOnce
<1> QED
    BY <1>1, InitTypes, StepTypes, InitOnce, StepOnce, PTL DEF Spec
-----------------------------------------------------------------------------
(* The refinement.  A step that neither runs a handler nor breaks anything *)
(* only moves copies, and the safety invariants tell which step of the     *)
(* abstract queue that is: the event is first sent to where it can be      *)
(* received, and the last copy goes only when every handler has run.       *)
Known == \E c \in Copies : where[c] # "unsent"
Waiting == \E c \in Copies : Live(c)

(* The first copy to be sent is where it can be received or redriven.      *)
LEMMA FirstIsLive ==
    TypeOK /\ DeliveredSent /\ [Next]_vars
      => \A c \in Copies : Sent(c)' => Sent(c) \/ Live(c)'
<1> SUFFICES ASSUME TypeOK, DeliveredSent, [Next]_vars,
                    NEW c \in Copies, Sent(c)', ~Sent(c)
             PROVE  Live(c)'
    OBVIOUS
<1> USE DEF Sent, Live, TypeOK
<1>1. ASSUME NEW place \in {"queued", "dlq"}, SendTo(place) PROVE Live(c)'
    BY <1>1 DEF SendTo
<1>2. ASSUME NEW d, DeleteMessage(d) PROVE FALSE
    BY <1>2 DEF DeleteMessage
<1>3. CASE Publish
    BY <1>1, <1>3 DEF Publish
<1>4. CASE RedriveDelete
    BY <1>4 DEF RedriveDelete, DeliveredSent
<1>5. ASSUME NEW x \in Copies, Reappear(x) \/ DeadLetter(x) \/ RedriveSend(x)
      PROVE  Live(c)'
    BY <1>1, <1>5 DEF Reappear, DeadLetter, RedriveSend
<1>6. ASSUME NEW w \in Workers, Receive(w) PROVE Live(c)'
    BY <1>6 DEF Receive
<1>7. ASSUME NEW w \in Workers, Park(w) \/ Ack(w) \/ Drop(w) PROVE Live(c)'
    BY <1>1, <1>2, <1>7 DEF Park, Ack, Drop
<1>8. CASE UNCHANGED where
    BY <1>8
<1> QED
    BY <1>3, <1>4, <1>5, <1>6, <1>7, <1>8
    DEF Next, WorkerStep, ProcessStep, ReceiveNothing, Claim, Skip, OpenPoison,
        LoadCached, LoadRows, Refresh, HandlerSucceeds, HandlerFails, Record, Peek,
        Store, GiveBack, Abandon, CommitFails, Crash, LeaseExpires, KeyExpires,
        RedisFault, RedisRecovers, queueVars, storeVars, workVars, vars

(* A step that only moves copies sends the event, settles it or leaves it  *)
(* where it is.                                                            *)
LEMMA QuietStep ==
    ASSUME TypeOK, DeliveredSent, NoEventLost', [Next]_vars,
           UNCHANGED <<poison, effects, faults, lapsed>>
    PROVE  [Delivery!Next]_(Delivery!vars)
<1> USE DEF Delivery!vars, Delivery!Next, Clean
<1>1. Known => Known'
    BY SentStays DEF Known, Sent
<1>2. Known' => Known \/ Waiting'
    BY FirstIsLive DEF Known, Waiting, Sent
<1>3. Waiting => Known
    BY DEF Waiting, Known, Live
<1>4. Waiting' => Known'
    BY DEF Waiting, Known, Live
<1>5. CASE Waiting'
    BY <1>4, <1>5 DEF Delivery!Send, Known, Waiting
<1>6. CASE ~Waiting' /\ Waiting
    <2>1. Known /\ Known'
        BY <1>1, <1>3, <1>6
    <2>2. ~poison /\ \A h \in Handlers : effects[h] >= 1
        BY <1>6, <2>1 DEF NoEventLost, Known, Waiting
    <2> QED
        BY <1>6, <2>1, <2>2 DEF Delivery!Settle, Known, Waiting
<1>7. CASE ~Waiting' /\ ~Waiting
    BY <1>1, <1>2, <1>7 DEF Known, Waiting
<1> QED
    BY <1>5, <1>6, <1>7

(* A handler that succeeds takes effect on a known event, for the first    *)
(* time in a clean history, and the event is then still there to come      *)
(* back.                                                                   *)
LEMMA RunStep ==
    ASSUME TypeOK, ParkingSeparate, DeliveredSent, NoEventLost, OnceInv,
           NEW w \in Workers, NEW h \in Handlers, HandlerSucceeds(w, h)
    PROVE  Delivery!Run(h)
<1>1. pc[w] = "run" /\ h \in todo[w]
    BY DEF HandlerSucceeds
<1>2. Known /\ ~poison
    <2>1. job[w] \in Deliveries /\ Sent(job[w].copy)
        BY <1>1 DEF TypeOK, DeliveredSent, Processing
    <2> QED
        BY <1>1, <2>1 DEF Known, Sent, Deliveries, ParkingSeparate, Processing
<1>3. Clean => effects[h] = 0
    BY <1>1 DEF OnceInv, Once, TodoNotRun
<1>4. Clean => Waiting
    BY <1>2, <1>3 DEF NoEventLost, Known, Waiting
<1>5. /\ UNCHANGED <<poison, where, faults, lapsed>>
      /\ effects' = [effects EXCEPT ![h] = @ + 1]
    BY DEF HandlerSucceeds, queueVars
<1> QED
    BY <1>2, <1>3, <1>4, <1>5 DEF Delivery!Run, Known, Waiting, Live, Clean

(* A fault or a lapse is a fault of the abstract delivery, or none when it *)
(* was not clean before.                                                   *)
LEMMA FaultStep ==
    ASSUME TypeOK, [Next]_vars, UNCHANGED <<poison, where, effects>>
    PROVE  [Delivery!Next]_(Delivery!vars)
<1>1. Clean' => Clean
    BY CleanBefore
<1>2. Known' = Known /\ Waiting' = Waiting
    BY DEF Known, Waiting, Live
<1>3. CASE Clean' = Clean
    BY <1>2, <1>3 DEF Delivery!vars, Known, Waiting
<1>4. CASE ~Clean'
    BY <1>2, <1>4 DEF Delivery!Next, Delivery!Fault, Known, Waiting
<1>5. Clean \in BOOLEAN /\ Clean' \in BOOLEAN
    BY DEF Clean
<1> QED
    BY <1>1, <1>3, <1>4, <1>5

(* Every step is one of EventDelivery's or leaves the event alone.         *)
LEMMA DeliveryStep ==
    TypeOK /\ ParkingSeparate /\ DeliveredSent /\ OnceInv
    /\ NoEventLost /\ NoEventLost' /\ [Next]_vars
      => [Delivery!Next]_(Delivery!vars)
<1> SUFFICES ASSUME TypeOK, ParkingSeparate, DeliveredSent, OnceInv,
                    NoEventLost, NoEventLost', [Next]_vars
             PROVE  [Delivery!Next]_(Delivery!vars)
    OBVIOUS
<1> USE DEF queueVars, storeVars
<1>1. ASSUME NEW w \in Workers, NEW h \in Handlers, HandlerSucceeds(w, h)
      PROVE  [Delivery!Next]_(Delivery!vars)
    BY <1>1, RunStep DEF Delivery!Next
<1>2. ASSUME \/ LeaseExpires \/ KeyExpires \/ RedisFault \/ RedisRecovers
             \/ \E w \in Workers : CommitFails(w) \/ Crash(w)
      PROVE  [Delivery!Next]_(Delivery!vars)
    <2>1. UNCHANGED <<poison, where, effects>>
        BY <1>2
        DEF LeaseExpires, KeyExpires, RedisFault, RedisRecovers, CommitFails, Crash
    <2> QED
        BY <2>1, FaultStep
<1>3. ASSUME \/ Publish \/ RedriveDelete
             \/ \E c \in Copies : Reappear(c) \/ DeadLetter(c) \/ RedriveSend(c)
             \/ UNCHANGED vars
      PROVE  UNCHANGED <<poison, effects, faults, lapsed>>
    BY <1>3
    DEF Publish, RedriveDelete, Reappear, DeadLetter, RedriveSend, vars
<1>4. ASSUME NEW w \in Workers,
             \/ Receive(w) \/ Claim(w) \/ Skip(w) \/ OpenPoison(w) \/ Park(w)
             \/ Drop(w) \/ LoadCached(w) \/ LoadRows(w) \/ Refresh(w)
             \/ \E h \in Handlers : HandlerFails(w, h)
             \/ Record(w) \/ Peek(w) \/ Store(w) \/ Ack(w) \/ GiveBack(w)
             \/ Abandon(w)
      PROVE  UNCHANGED <<poison, effects, faults, lapsed>>
    BY <1>4
    DEF Receive, Claim, Skip, OpenPoison, Park, Drop, LoadCached, LoadRows,
        Refresh, HandlerFails, Record, Peek, Store, Ack, GiveBack, Abandon
<1>5. CASE UNCHANGED <<poison, effects, faults, lapsed>>
    BY <1>5, QuietStep
<1> QED
    BY <1>1, <1>2, <1>3, <1>4, <1>5
    DEF Next, WorkerStep, ProcessStep, ReceiveNothing

(* An event not yet sent is EventDelivery's initial state.                 *)
LEMMA DeliveryInit == Init => Delivery!Init
BY DEF Init, Delivery!Init, Live, Clean

(* The queue, the workers, Redis and the table do together what            *)
(* EventDelivery promises of the event (ImplementsDelivery), for any       *)
(* number of them and any number of faults.                                *)
THEOREM Refinement == Spec => ImplementsDelivery
<1>1. Spec => [](TypeOK /\ OnceInv)
    BY InitTypes, StepTypes, InitOnce, StepOnce, PTL DEF Spec
<1>2. LostInv => ParkingSeparate /\ DeliveredSent
    BY DEF LostInv
<1> QED
    BY <1>1, <1>2, LostInvHolds, EventKept, DeliveryInit, DeliveryStep, PTL
    DEF Spec, ImplementsDelivery, Delivery!Spec

(* What is promised is enough for the event's consumers, whatever          *)
(* implements it: an event that is let go of has had every effect, exactly *)
(* once if the history is clean, and one that cannot be parsed has had     *)
(* none.                                                                   *)
HandledOnce ==
    /\ Known /\ ~Waiting
         => /\ ~poison
            /\ \A h \in Handlers : effects[h] >= 1
            /\ Clean => \A h \in Handlers : effects[h] = 1
    /\ poison => \A h \in Handlers : effects[h] = 0

(* EventDelivery implies HandledOnce, and with it the two invariants that  *)
(* were checked of the worker itself.                                      *)
THEOREM DeliverySuffices ==
    ImplementsDelivery => [](HandledOnce /\ NoEventLost /\ EffectsOnce)
<1> DEFINE Inv ==
        /\ effects \in [Handlers -> Nat]
        /\ HandledOnce
        /\ \A h \in Handlers : Clean => effects[h] <= 1
<1>1. Delivery!Init => Inv
    BY DEF Delivery!Init, HandledOnce, Known, Waiting
<1>2. Inv /\ [Delivery!Next]_(Delivery!vars) => Inv'
    <2> SUFFICES ASSUME Inv, [Delivery!Next]_(Delivery!vars) PROVE Inv'
        OBVIOUS
    <2>1. CASE Delivery!Send
        BY <2>1 DEF Delivery!Send, HandledOnce, Known, Waiting
    <2>2. CASE Delivery!Settle
        BY <2>2 DEF Delivery!Settle, HandledOnce, Known, Waiting
    <2>3. CASE Delivery!Fault
        BY <2>3 DEF Delivery!Fault, HandledOnce, Known, Waiting
    <2>4. ASSUME NEW h \in Handlers, Delivery!Run(h) PROVE Inv'
        BY <2>4 DEF Delivery!Run, HandledOnce, Known, Waiting
    <2>5. CASE UNCHANGED Delivery!vars
        BY <2>5 DEF Delivery!vars, HandledOnce, Known, Waiting
    <2> QED
        BY <2>1, <2>2, <2>3, <2>4, <2>5 DEF Delivery!Next
<1>3. Inv => HandledOnce /\ NoEventLost /\ EffectsOnce
    BY DEF HandledOnce, NoEventLost, EffectsOnce, Known, Waiting
<1> QED
    BY <1>1, <1>2, <1>3, PTL DEF ImplementsDelivery, Delivery!Spec
=============================================================================
