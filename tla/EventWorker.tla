----------------------------- MODULE EventWorker -----------------------------
(***************************************************************************)
(* The order-events consumer: app/worker.py, with the idempotency layer it *)
(* relies on (app/core/idempotency.py over app/core/cache.py and the       *)
(* processed_events table), the dead-letter queue tool app/dlq.py, and the *)
(* SQS queue, its redrive policy and Redis as far as that code uses them.  *)
(*                                                                         *)
(* One business event, whose message exists in several copies: what        *)
(* publish_event sends (a retry after an ambiguous failure sends it again),*)
(* what a worker parks in the dead-letter queue and what redrive puts back.*)
(* Everything but the message is keyed by event_id, so events only meet in *)
(* a worker's batch, where they wait for one another as these copies do.   *)
(*                                                                         *)
(* Visibility timeouts, the TTLs of the two Redis keys and the time a      *)
(* handler takes are not compared: a timeout may fire at any moment, also  *)
(* while a worker is still busy.                                           *)
(***************************************************************************)
EXTENDS Integers, FiniteSets

CONSTANTS
    Workers,     \* worker processes
    Handlers,    \* HANDLERS
    Copies,      \* bound: the messages ever sent for the event
    MaxReceives, \* maxReceiveCount of the queue's redrive policy
    BatchSize,   \* max_messages
    MaxFaults,   \* bound: faults
    None, NoKey  \* no worker or copy; a Redis key that is not set

(* What receive_message returns: a message and the receipt to delete it by.*)
Deliveries == [copy : Copies, receipt : 1..MaxReceives]

ASSUME WorkerAssumption ==
    /\ MaxReceives \in Nat \ {0}
    /\ BatchSize \in Nat \ {0}
    /\ MaxFaults \in Nat
    /\ None \notin Workers \cup Copies \cup Handlers
    /\ \A d \in Deliveries : d # None
    /\ \A S \in SUBSET Handlers : S # NoKey

VARIABLES
    poison,    \* does the event's body fail to parse?
    where,     \* where each copy is
    receives,  \* how often a copy was received, which also names its receipt
    redriven,  \* the copy dlq redrive has sent on and not yet deleted
    rows,      \* processed_events: the handlers recorded for the event
    effects,   \* history: how often each handler ran to success
    lease,     \* event_lease key: the worker that set it (the code stores "1")
    cached,    \* event_handlers_done key
    lapsed,    \* history: did it run out under a worker relying on it?
    redisUp,
    faults,    \* crashes, failed commits, Redis faults and overrun leases
    pc, batch, \* of each worker: its step and the deliveries it has left
    job,       \* the delivery it handles
    todo,      \* handlers it has still to run for it
    failed,    \* outstanding: handlers that failed
    current,   \* the handler whose success it is recording
    seen       \* what it last read, from the cache or the table

queueVars == <<poison, where, receives, redriven>>
storeVars == <<rows, effects, lease, cached, lapsed, redisUp, faults>>
workVars == <<job, todo, failed, current, seen>>
vars == <<queueVars, storeVars, pc, batch, workVars>>

Places == {"unsent", "queued", "in_flight", "dlq", "gone"}

(* The steps of process_event, entered holding the lease or believing so.  *)
Processing == {"load", "refresh", "run", "record", "peek", "store"}

(* Definitions named Something_Fault are faulty variants of Something: what *)
(* the property they belong to would catch.  No action uses them.          *)

Init ==
    /\ poison \in BOOLEAN
    /\ where = [c \in Copies |-> "unsent"]
    /\ receives = [c \in Copies |-> 0]
    /\ redriven = None
    /\ rows = {}
    /\ effects = [h \in Handlers |-> 0]
    /\ lease = None
    /\ cached = NoKey
    /\ lapsed = FALSE
    /\ redisUp = TRUE
    /\ faults = 0
    /\ pc = [w \in Workers |-> "polling"]
    /\ batch = [w \in Workers |-> {}]
    /\ job = [w \in Workers |-> None]
    /\ todo = [w \in Workers |-> {}]
    /\ failed = [w \in Workers |-> {}]
    /\ current = [w \in Workers |-> None]
    /\ seen = [w \in Workers |-> {}]

-----------------------------------------------------------------------------
(* The queue.  SendTo is a send_message: a copy of the event appears.      *)
SendTo(place) ==
    \E c \in Copies :
      /\ where[c] = "unsent"
      /\ where' = [where EXCEPT ![c] = place]

Publish ==
    /\ SendTo("queued")
    /\ UNCHANGED <<poison, receives, redriven, storeVars, pc, batch, workVars>>

(* The visibility timeout of a received copy runs out.                     *)
Reappear(c) ==
    /\ where[c] = "in_flight"
    /\ where' = [where EXCEPT ![c] = "queued"]
    /\ UNCHANGED <<poison, receives, redriven, storeVars, pc, batch, workVars>>

(* The redrive policy takes a copy that was received often enough.         *)
DeadLetter(c) ==
    /\ where[c] = "queued"
    /\ receives[c] = MaxReceives
    /\ where' = [where EXCEPT ![c] = "dlq"]
    /\ UNCHANGED <<poison, receives, redriven, storeVars, pc, batch, workVars>>

(* dlq.redrive: send to the main queue first, then delete from the DLQ.    *)
RedriveSend(c) ==
    /\ where[c] = "dlq"
    /\ redriven = None
    /\ SendTo("queued")
    /\ redriven' = c
    /\ UNCHANGED <<poison, receives, storeVars, pc, batch, workVars>>

(* The delete, unless the tool dies or the delete fails: the copy is then  *)
(* in both queues.                                                         *)
RedriveDelete ==
    /\ redriven # None
    /\ \/ where' = [where EXCEPT ![redriven] = "gone"]
       \/ UNCHANGED where
    /\ redriven' = None
    /\ UNCHANGED <<poison, receives, storeVars, pc, batch, workVars>>

-----------------------------------------------------------------------------
(* poll_once: a batch is received, and handled one message after another.  *)
Receive(w) ==
    /\ pc[w] = "polling"
    /\ \E B \in SUBSET {c \in Copies : /\ where[c] = "queued"
                                       /\ receives[c] < MaxReceives} :
         /\ B # {} /\ Cardinality(B) <= BatchSize
         /\ where' = [c \in Copies |-> IF c \in B THEN "in_flight" ELSE where[c]]
         /\ receives' = [c \in Copies |-> receives[c] + (IF c \in B THEN 1 ELSE 0)]
         /\ batch' = [batch EXCEPT ![w] =
                        {[copy |-> c, receipt |-> receives[c] + 1] : c \in B}]
    /\ pc' = [pc EXCEPT ![w] = "next"]
    /\ UNCHANGED <<poison, redriven, storeVars, workVars>>

ReceiveNothing(w) == pc[w] = "polling" /\ UNCHANGED vars

(* The worker is done with its delivery, however that ended.               *)
AfterMessage_NeverPolls(left) == "next"

AfterMessage(left) == IF left = {} THEN "polling" ELSE "next"

NextMessage(w) ==
    /\ pc' = [pc EXCEPT ![w] = AfterMessage(batch[w])]
    /\ job' = [job EXCEPT ![w] = None]
    /\ todo' = [todo EXCEPT ![w] = {}]
    /\ failed' = [failed EXCEPT ![w] = {}]
    /\ current' = [current EXCEPT ![w] = None]
    /\ seen' = [seen EXCEPT ![w] = {}]
    /\ UNCHANGED batch

GoTo(w, step) == pc' = [pc EXCEPT ![w] = step] /\ UNCHANGED batch

(* _handle_message up to acquire_lease.  SET NX, and failing open: a dead  *)
(* Redis grants every claim.                                               *)
LeaseFree_Unchecked == TRUE

LeaseFree == lease = None

Open(w, d) ==
    /\ d \in batch[w]
    /\ batch' = [batch EXCEPT ![w] = @ \ {d}]

Claim(w) ==
    /\ pc[w] = "next"
    /\ ~poison
    /\ ~redisUp \/ LeaseFree
    /\ \E d \in batch[w] : Open(w, d) /\ job' = [job EXCEPT ![w] = d]
    /\ lease' = IF redisUp THEN w ELSE lease
    /\ pc' = [pc EXCEPT ![w] = "load"]
    /\ UNCHANGED <<queueVars, rows, effects, cached, lapsed, redisUp, faults,
                   todo, failed, current, seen>>

(* Somebody holds the claim: the message is left to its timeout.           *)
Skip(w) ==
    /\ pc[w] = "next"
    /\ ~poison
    /\ redisUp /\ ~LeaseFree
    /\ \E d \in batch[w] :
         /\ Open(w, d)
         /\ pc' = [pc EXCEPT ![w] = AfterMessage(batch[w] \ {d})]
    /\ UNCHANGED <<queueVars, storeVars, workVars>>

OpenPoison(w) ==
    /\ pc[w] = "next"
    /\ poison
    /\ \E d \in batch[w] : Open(w, d) /\ job' = [job EXCEPT ![w] = d]
    /\ pc' = [pc EXCEPT ![w] = "park"]
    /\ UNCHANGED <<queueVars, storeVars, todo, failed, current, seen>>

(* _send_to_dlq, then delete_message.                                      *)
Park(w) ==
    /\ pc[w] = "park"
    /\ SendTo("dlq")
    /\ GoTo(w, "drop")
    /\ UNCHANGED <<poison, receives, redriven, storeVars, workVars>>

-----------------------------------------------------------------------------
(* process_event.  completed_handlers: the cache if it has the key ...     *)
Remaining(done) == Handlers \ done

LoadCached(w) ==
    /\ pc[w] = "load"
    /\ redisUp /\ cached # NoKey
    /\ todo' = [todo EXCEPT ![w] = Remaining(cached)]
    /\ GoTo(w, "run")
    /\ UNCHANGED <<queueVars, storeVars, job, failed, current, seen>>

(* ... else the table, which then refreshes the cache.                     *)
AfterRows_Unrefreshed(done) == "run"

AfterRows(done) == IF done = {} THEN "run" ELSE "refresh"

LoadRows(w) ==
    /\ pc[w] = "load"
    /\ ~redisUp \/ cached = NoKey
    /\ todo' = [todo EXCEPT ![w] = Remaining(rows)]
    /\ seen' = [seen EXCEPT ![w] = rows]   \* {} unless it goes to refresh
    /\ GoTo(w, AfterRows(rows))
    /\ UNCHANGED <<queueVars, storeVars, job, failed, current>>

(* cache_set_json, which a dead Redis ignores.                             *)
CacheSet(S) == cached' = IF redisUp THEN S ELSE cached

Refresh(w) ==
    /\ pc[w] = "refresh"
    /\ CacheSet(seen[w])
    /\ seen' = [seen EXCEPT ![w] = {}]
    /\ GoTo(w, "run")
    /\ UNCHANGED <<queueVars, rows, effects, lease, lapsed, redisUp, faults, job,
                   todo, failed, current>>

(* One handler, with its in-process retries: done, or left outstanding.    *)
StillToDo(S, h) == S \ {h}

HandlerSucceeds(w, h) ==
    /\ pc[w] = "run"
    /\ h \in todo[w]
    /\ effects' = [effects EXCEPT ![h] = @ + 1]
    /\ todo' = [todo EXCEPT ![w] = StillToDo(@, h)]
    /\ current' = [current EXCEPT ![w] = h]
    /\ GoTo(w, "record")
    /\ UNCHANGED <<queueVars, rows, lease, cached, lapsed, redisUp, faults, job,
                   failed, seen>>

HandlerFails(w, h) ==
    /\ pc[w] = "run"
    /\ h \in todo[w]
    /\ todo' = [todo EXCEPT ![w] = StillToDo(@, h)]
    /\ failed' = [failed EXCEPT ![w] = @ \cup {h}]
    /\ UNCHANGED <<queueVars, storeVars, pc, batch, job, current, seen>>

(* record_handler_done: the insert, a unique violation being as good ...   *)
Record(w) ==
    /\ pc[w] = "record"
    /\ rows' = rows \cup {current[w]}
    /\ GoTo(w, "peek")
    /\ UNCHANGED <<queueVars, effects, lease, cached, lapsed, redisUp, faults,
                   workVars>>

(* ... then the cached set is read, extended and written back, all of it   *)
(* unguarded.                                                              *)
Peek(w) ==
    /\ pc[w] = "peek"
    /\ seen' = [seen EXCEPT ![w] =
                  IF redisUp /\ cached # NoKey THEN cached ELSE {}]
    /\ GoTo(w, "store")
    /\ UNCHANGED <<queueVars, storeVars, job, todo, failed, current>>

Store(w) ==
    /\ pc[w] = "store"
    /\ CacheSet(seen[w] \cup {current[w]})
    /\ current' = [current EXCEPT ![w] = None]
    /\ seen' = [seen EXCEPT ![w] = {}]
    /\ GoTo(w, "run")
    /\ UNCHANGED <<queueVars, rows, effects, lease, lapsed, redisUp, faults, job,
                   todo, failed>>

-----------------------------------------------------------------------------
(* The end of _handle_message.  delete_message with the latest receipt     *)
(* deletes; with an older one, or once the copy has moved, it may do       *)
(* nothing.                                                                *)
DeleteMessage(d) ==
    \/ /\ where[d.copy] \in {"queued", "in_flight"}
       /\ where' = [where EXCEPT ![d.copy] = "gone"]
    \/ /\ \/ where[d.copy] \notin {"queued", "in_flight"}
          \/ receives[d.copy] # d.receipt
       /\ UNCHANGED where

Complete_Anyway(w) == TRUE

Complete(w) == failed[w] = {}

Ack(w) ==
    /\ pc[w] = "run" /\ todo[w] = {}
    /\ Complete(w)
    /\ DeleteMessage(job[w])
    /\ NextMessage(w)
    /\ UNCHANGED <<poison, receives, redriven, storeVars>>

(* Handlers are outstanding: the lease is released, whoever holds it.      *)
GiveBack(w) ==
    /\ pc[w] = "run" /\ todo[w] = {}
    /\ ~Complete(w)
    /\ lease' = IF redisUp THEN None ELSE lease
    /\ NextMessage(w)
    /\ UNCHANGED <<queueVars, rows, effects, cached, lapsed, redisUp, faults>>

Drop(w) ==
    /\ pc[w] = "drop"
    /\ DeleteMessage(job[w])
    /\ NextMessage(w)
    /\ UNCHANGED <<poison, receives, redriven, storeVars>>

(* A database or SQS call raises, and poll_once goes on to the next        *)
(* message; the lease is kept.                                             *)
Abandon(w) ==
    /\ \/ pc[w] \in {"load", "park", "drop"}
       \/ pc[w] = "run" /\ todo[w] = {} /\ Complete(w)
    /\ NextMessage(w)
    /\ UNCHANGED <<queueVars, storeVars>>

(* The commit of the processed_events row fails, its handler having run.   *)
CommitFails(w) ==
    /\ faults < MaxFaults
    /\ pc[w] = "record"
    /\ faults' = faults + 1
    /\ NextMessage(w)
    /\ UNCHANGED <<queueVars, rows, effects, lease, cached, lapsed, redisUp>>

Crash(w) ==
    /\ faults < MaxFaults
    /\ pc[w] # "polling"
    /\ faults' = faults + 1
    /\ pc' = [pc EXCEPT ![w] = "polling"]
    /\ batch' = [batch EXCEPT ![w] = {}]
    /\ job' = [job EXCEPT ![w] = None]
    /\ todo' = [todo EXCEPT ![w] = {}]
    /\ failed' = [failed EXCEPT ![w] = {}]
    /\ current' = [current EXCEPT ![w] = None]
    /\ seen' = [seen EXCEPT ![w] = {}]
    /\ UNCHANGED <<queueVars, rows, effects, lease, cached, lapsed, redisUp>>

-----------------------------------------------------------------------------
(* Redis.  The lease's TTL is a fault only under a worker still at work.   *)
LeaseExpires ==
    /\ lease # None
    /\ IF pc[lease] \in Processing
       THEN faults < MaxFaults /\ faults' = faults + 1
       ELSE UNCHANGED faults
    /\ lease' = None
    /\ UNCHANGED <<queueVars, rows, effects, cached, lapsed, redisUp, pc, batch,
                   workVars>>

(* A worker that has looked its delivery up and relies on the cached set   *)
(* until it has read it back for its last handler.                         *)
Relies(w) ==
    \/ pc[w] = "run" /\ todo[w] # {}
    \/ pc[w] \in {"record", "peek"}

(* The TTL of the cached set runs out: nothing is broken by it.            *)
KeyExpires ==
    /\ cached # NoKey
    /\ cached' = NoKey
    /\ lapsed' = (lapsed \/ \E w \in Workers : Relies(w))
    /\ UNCHANGED <<queueVars, rows, effects, lease, redisUp, faults, pc, batch,
                   workVars>>

RedisFault ==
    /\ faults < MaxFaults
    /\ faults' = faults + 1
    /\ \/ redisUp' = FALSE /\ UNCHANGED <<lease, cached>>  \* unreachable
       \/ /\ lease' \in {lease, None}                      \* restart, eviction
          /\ cached' = NoKey
          /\ UNCHANGED redisUp
    /\ UNCHANGED <<queueVars, rows, effects, lapsed, pc, batch, workVars>>

RedisRecovers ==
    /\ redisUp' = TRUE
    /\ UNCHANGED <<queueVars, rows, effects, lease, cached, lapsed, faults, pc,
                   batch, workVars>>

-----------------------------------------------------------------------------
ProcessStep(w) ==
    \/ LoadCached(w) \/ LoadRows(w) \/ Refresh(w)
    \/ \E h \in Handlers : HandlerSucceeds(w, h) \/ HandlerFails(w, h)
    \/ Record(w) \/ Peek(w) \/ Store(w)
    \/ Ack(w) \/ GiveBack(w)

WorkerStep(w) ==
    \/ Receive(w) \/ Claim(w) \/ Skip(w)
    \/ OpenPoison(w) \/ Park(w) \/ Drop(w)
    \/ ProcessStep(w)
    \/ Abandon(w)

Next ==
    \/ Publish
    \/ \E c \in Copies : Reappear(c) \/ DeadLetter(c) \/ RedriveSend(c)
    \/ RedriveDelete
    \/ \E w \in Workers :
         WorkerStep(w) \/ ReceiveNothing(w) \/ CommitFails(w) \/ Crash(w)
    \/ LeaseExpires \/ KeyExpires \/ RedisFault \/ RedisRecovers

(* Workers are scheduled, handlers return, and a visibility timeout once   *)
(* started runs out; SQS applies its redrive policy.                       *)
Fairness ==
    /\ \A w \in Workers : WF_vars(WorkerStep(w))
    /\ \A c \in Copies : WF_vars(Reappear(c)) /\ WF_vars(DeadLetter(c))

Spec == Init /\ [][Next]_vars /\ Fairness

-----------------------------------------------------------------------------
(* The types of the queue, the stores and the workers' locals.  A worker   *)
(* polls exactly when its batch is used up, and has the delivery and the   *)
(* handler its step is about.                                              *)
TypeOK ==
    /\ poison \in BOOLEAN
    /\ where \in [Copies -> Places]
    /\ receives \in [Copies -> 0..MaxReceives]
    /\ redriven \in Copies \cup {None}
    /\ rows \subseteq Handlers
    /\ effects \in [Handlers -> Nat]
    /\ lease \in Workers \cup {None}
    /\ cached = NoKey \/ cached \in SUBSET Handlers
    /\ lapsed \in BOOLEAN
    /\ redisUp \in BOOLEAN
    /\ faults \in 0..MaxFaults
    /\ pc \in [Workers -> Processing \cup {"polling", "next", "park", "drop"}]
    /\ batch \in [Workers -> SUBSET Deliveries]
    /\ job \in [Workers -> Deliveries \cup {None}]
    /\ todo \in [Workers -> SUBSET Handlers]
    /\ failed \in [Workers -> SUBSET Handlers]
    /\ current \in [Workers -> Handlers \cup {None}]
    /\ seen \in [Workers -> SUBSET Handlers]
    /\ \A w \in Workers :
         /\ pc[w] = "polling" => batch[w] = {}
         /\ pc[w] = "next" => batch[w] # {}
         /\ pc[w] \in Processing \cup {"park", "drop"} => job[w] # None
         /\ pc[w] \in {"record", "peek", "store"} => current[w] # None

Live(c) == where[c] \in {"queued", "in_flight", "dlq"}

(* An event once sent is not lost: until every handler has run to success  *)
(* (and, for a body that will not parse, for ever) a copy of its message   *)
(* is in the queue or the dead-letter queue.  No crash, failed handler,    *)
(* stale cache or receipt, lost lease or redrive may delete the last one.  *)
NoEventLost ==
    (\E c \in Copies : where[c] # "unsent")
      => \/ \E c \in Copies : Live(c)
         \/ ~poison /\ \A h \in Handlers : effects[h] >= 1

(* Nothing has broken, and the cached set has not run out under a worker.  *)
Clean == faults = 0 /\ ~lapsed

(* How the copies of its message carry the event: it is pending while any  *)
(* of them can still be received or redriven.                              *)
Delivery == INSTANCE EventDelivery WITH
    sent <- \E c \in Copies : where[c] # "unsent",
    pending <- \E c \in Copies : Live(c),
    clean <- Clean

(* What the queue, the workers, Redis and the table do together is what    *)
(* EventDelivery promises of the event: a handler takes effect only on one *)
(* that was sent and parses, for the first time as long as the history is  *)
(* clean; and it is let go of only when all have had theirs.               *)
ImplementsDelivery == Delivery!Spec

(* Without a fault each handler takes effect at most once, however often   *)
(* the message is duplicated, redelivered, skipped or redriven, and        *)
(* whichever handlers fail: the lease, the table and the cache agree.  The *)
(* cached set may run out between two deliveries, and the table then       *)
(* decides; what record_handler_done writes is wrong only if it ran out    *)
(* under the worker (idempotency.py:149-152), which this excepts.          *)
EffectsOnce == Clean => \A h \in Handlers : effects[h] <= 1

(* A queued copy does not circulate for ever: it is deleted or             *)
(* dead-lettered, also if every handler, claim or delete keeps failing.    *)
Settles ==
    \A c \in Copies : where[c] = "queued" ~> where[c] \in {"gone", "dlq"}

(* app/core/idempotency.py, completed_handlers: Redis optimizes, Postgres  *)
(* decides, and a dead Redis makes this slower, never wrong.  A single     *)
(* worker with nothing broken does not run a handler again whose row is in *)
(* processed_events.  The code does: when the TTL of the cached set runs   *)
(* out under a worker, the next record makes a new set of its handler.     *)
RecordedNotRerun ==
    [][\A h \in rows : effects'[h] = effects[h]]_vars
=============================================================================
