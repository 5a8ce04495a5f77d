# CommerceOps in TLA+

A verification development kept beside the CommerceOps code: TLA+ modules
translated from `app/` and `fake_gateway/`, TLC configurations that check them on
small instances, and TLAPS proofs that carry most of those results to every
size. Paths below are relative to the repository.

- [The system](#the-system): components, state, operations, hard behaviour
- [Modules](#modules): what models what, and how
- [Runs](#runs): what each checks, its bounds, the fairness assumed
- [Where the code and its documents disagree](#where-the-code-and-its-documents-disagree)
- [Proofs](#proofs): what holds for every value of the constants, and why
- [Plan](#plan) and [what is not modelled](#not-modelled)

`tlc -config X.cfg M` checks a run, `tlapm M.tla` a proof module; `PROJECT.json`
lists runs, the lines each definition stands for, the hazards, and for each
property a mutated definition that breaks it. Those mutants stand in the modules
as definitions named `Something_Fault`; no action uses them.

## The system

An order is placed at the **Order service**, which reserves stock at the
**Product service**, inserts the order, has the **Payment service** charge it
through the **payment gateway**, and publishes events to an SQS queue that a
**worker** consumes. Every service has its own Postgres database; calls are HTTP
with timeouts, bounded retries, a circuit breaker and a bulkhead.

| Component | State | Operations | What makes it correct |
|---|---|---|---|
| Circuit breaker (`core/reliability.py`) | state, failure streak, opening time, trial slot, all under one lock; shared by the process's threads | admit or reject, record success or failure, read (resolves an elapsed window), reset | state and streak never contradict each other; one trial at a time and a slot that always comes back; no probe before a quiet window; recovers |
| Retry and bulkhead (same file), around the three HTTP clients' calls | attempts made; a semaphore and a counter shared by the process's threads | take a permit or be shed; attempt, sleep, give up; return the permit | permits all come back; an OPEN breaker shields the dependency; sleeps keep to the ladder; calls end, the breaker closes again |
| Order service (`order/service.py`) | the order row | `create_order`: reserve, insert, publish, charge, compensate, commit, publish; `cancel_order`: load, check, release, commit, publish | the order agrees with its payment; goods of a possibly paid order stay reserved; a cancelled order's goods are back; requests end |
| Product stock (`product/service.py`) | stock per product | `reserve_stock`, `release_stock`, `update_product` | never negative; calls are atomic and do not block each other in a circle |
| Catalogue cache and replica | `product:*` keys; a lagging replica | cache-aside read, fall-back to the primary, delete on write | stale copies do not last |
| Payment service and gateway client | payments rows, unique by order | look up, call the gateway (attempts, late arrivals), insert | one decision per order, one answer for all; SUCCESS only if charged; FAILED only if declined |
| Gateway (`fake_gateway/main.py`) | first response per idempotency key, in memory | look up, hang or fail, charge, store; reset | a retry is replayed |
| Publisher (`core/queue.py`) | — | send with retries, never raises | the event is sent, or lost, or sent twice |
| Worker, idempotency layer, cache helpers | `processed_events`; Redis lease and cached set; per worker a batch and its place in `process_event` | poll, claim or skip, load, run a handler, record, refresh the cache, acknowledge or give back, park poison messages | no event is lost; effects happen once while nothing breaks and the cached set does not run out under a worker; messages settle |
| DLQ tool (`dlq.py`) | — | inspect, redrive (send, then delete), purge | redrive duplicates rather than loses |
| Customer, notification, analytics, search | rows; logs | insert and read; log | — |

What is hard here: results of concurrent calls reach the breaker in any order; an
HTTP request its client gave up on may still be executed, after the retry that
replaced it; two requests work on one order with a status read long before it is
written; the gateway's look-up and its store are two steps; SQS delivers more than
once, also while another worker is busy; Redis keys run out, also under a worker, and
Redis may lose them or vanish; processes die between any two of these steps.

## Modules

Each method that runs under one lock or in one database transaction is one
action, and so is each step between two network calls, commits or Redis
commands; everything else may interleave. Message contents, amounts, wording and
logging are left out.

**`CircuitBreaker`** — the class of that name. `Admit`/`Reject` are
`_before_call`, `OnSuccess` and `OnFailure` the results, `ReadState` the property
that resolves an elapsed window, `Reset` the chaos harness. `openedFor` is
`clock() - _opened_at`, capped where the comparison stops caring, and `failures`
likewise. History the code does not keep — how a call was admitted (`running`),
time since the last failure — serves the properties only. `Tick` and `Toggle` are
the clock and the dependency.

**`GuardedCall`** — the nesting all three clients use: bulkhead around breaker
around retries (`gateway_client.charge`, `product_client.reserve` and `release`,
`payment_client.charge`). It instantiates `CircuitBreaker` on its own variables, so
a call the breaker admits is a whole retry ladder here. `Acquire`, `Shed`, `Enter`,
`Leave` and `Release` are `Bulkhead.call` with its semaphore and its counter, which
have separate locks; `Finally` is the clause every exit goes through; `Admit`,
`Reject` and `Report` are `CircuitBreaker.call`; `Try`, `Exhaust`, `Answered`,
`Refused` (an exception outside `retry_on`: a 4xx, an unreadable body) and
`Unavailable` (inside it) are `retry_with_backoff` around one attempt; `Delays` is
`backoff_delays`, and jitter sleeps at most that long. `Probe` is the readiness
probe, which resolves an elapsed window. `slept` and `load` are history. `reset`
is left to `CircuitBreaker`: the running system never calls it. `Power`, `Ladder`
and `Patience` are the documented ladder, `base_delay * multiplier^k` cut at
`max_delay`, against which the loop of `backoff_delays` is measured.
`TrialEnds` is checked again here, where a trial may last a whole ladder and only
`OutOfLadder`, which every exit from a ladder takes, makes sure that it is reported.

**`OrderSaga`** — `create_order` and `cancel_order` against the Product and
Payment databases. A request is in `net` from sending to execution; the client
may give up at any moment (`GiveUp`), retry (`Send`), or be stopped by breaker or
bulkhead (`ShortCircuit`); a lost reply is giving up before the execution. `taken`
and `given` record what reserves and releases did for an order. The row written
by a commit is the one the session changed, whatever was committed meanwhile —
the code has no version check. One product and one unit per order.

**`OrderBook`** — the abstract promise of the Order service: a creation is
concluded once and by what the payment came to, goods come back only for a decline
or an accepted cancel, and CANCELLED is written only when they are back. Handlers,
attempts, messages and stock counts are not in it. `ImplementsBook` maps rows to
`status`, the targets of cancel handlers to `cancelling`, `given[o] > 0` to `restocked`.
A create that comes to an end after a cancel overwrites CANCELLED in the book as
well, as it does in the code (finding 1 below).

**`PaymentLedger`** — the abstract promise: an order's outcome is decided once,
told unchanged to everyone, and SUCCESS only after a charge.

**`PaymentService`** — `charge` of the service and of the gateway client, and the
gateway. Several requests for one order, several attempts of each. The gateway
looks for a stored response (`Replay`, `Miss`), then works for any length of time
(`processing`), then charges or declines and stores (`Charge`), overwriting an earlier
stored response. `Forget` is its in-memory store lost. `ImplementsLedger` is the
refinement of `PaymentLedger`: rows map to rows, `told` to the 200 responses. The
ledger permits UNKNOWN for an order that was charged, as the code does when the
budget runs out first: that row is then never corrected (`docs/api.md` leaves such
orders to a reconciliation that is not in this code), and no property here forbids it.

**`EventWorker`** — one event and the `Copies` of its message in the queue and the
DLQ. `Receive` takes a batch; `Claim`, `Skip` and `OpenPoison` are the branches of
`_handle_message`; `LoadCached`/`LoadRows`/`Refresh` are `completed_handlers`;
`HandlerSucceeds`, `Record`, `Peek` and `Store` are a handler's success and the
separate statements of `record_handler_done`; `Ack`, `GiveBack`, `Drop` and
`Abandon` end a message. The lease value names its holder, which the code's `"1"`
does not; only the properties look at it (and `LeaseExpires`, to tell an overrun
from a leftover). `KeyExpires` is the time to live of the cached set (a day, 10 % either
way), an ordinary event that is no fault, not bounded, and may come at any moment.
`lapsed` remembers whether it ever came under a worker that had looked its delivery
up and not yet read the set back for its last handler (`Relies`); a history without
that and without faults is `Clean`. `RedisFault` is an outage, or a restart or eviction
that takes the keys. Handlers run in the order of a dictionary; the model lets them
run in any order, which includes that one. `Reappear`, `DeadLetter`,
`DeleteMessage`, `RedisFault` and `RedisRecovers` are SQS and Redis as far as the
code uses them. `EventWorker` speaks of one event because lease, rows and cached
set are keyed by `event_id`. **`MCEventWorker`** adds the symmetry set for TLC:
workers, handlers and copies are each interchangeable, and the run's one temporal
property, the refinement, has no fairness and is symmetric as well.

**`EventDelivery`** — the abstract promise of the worker: an event that was sent stays
pending until every handler has taken effect, and as long as its history is clean (nothing
broken, and the cached set not run out under a worker using it) no handler does twice. `ImplementsDelivery` maps the copies in the queue, in flight or
in the DLQ to `pending`.

**`StockLedger`** — the abstract promise of the Product service: a reservation
takes all its items or none, a release gives all back, an update sets one stock, always of
products there are; a refusal has a reason; each at one instant.

**`ProductStock`** — the Product service's calls and reads. `TakeItem` is one turn
of the loops of `reserve_stock` and `release_stock`: the row lock of `SELECT ... FOR
UPDATE`, the check, the change in the session and the deletion of the cached copy;
`RefuseItem`, `CommitStock` and `Fail` end the transaction. `Load`, `Write` and
`Invalidate` are `update_product`, whose read takes no lock, whose flush writes only
what differs from the value read, and whose UPDATE waits for the row. `Miss`,
`Read` and `Store` are `get_product` on a cache miss; `Replay` is the replica
applying the primary's commits in order (`lag`), `Expire` the time to live. Of a
product only the stock is kept, since it is what concurrent requests change.
`ImplementsLedger` maps rows to stock and `pc` to a call's outcome. `None` is a constant
that is no number, so that a missing product is never taken for an oversold one.

`CircuitBreakerProofs`, `GuardedCallProofs`, `OrderSagaProofs`, `PaymentServiceProofs`,
`EventWorkerProofs` and `ProductStockProofs` hold the theorems, and **`Recursion`** two
lemmas on induction and recursive functions they need. No module declares a
RECURSIVE operator.

How the abstract modules fit together: `OrderSaga` does not instantiate
`PaymentLedger` and `StockLedger` but takes charge, reserve and release as single
steps; the theorems `LedgerSuffices` say that this much follows from the
ledgers, and the two `Refinement` theorems that the services keep them.

## Runs

| Run | Instance | Shows |
|---|---|---|
| `breaker` | 4 threads, threshold 3, window 2 ticks | `StreakDecidesState`, `TrialSlotExact`, `WindowCountsFromLastFailure`; `TrialAfterQuietWindow`; `TrialEnds`, `Recovers` |
| `guarded_call` | 3 threads, 2 permits, threshold 2, window 1 tick, 3 attempts, delays 2 then 3 (capped from 4) | `PermitsExact`, `GuardedIsRunning`, `OpenBoundsLoad`, `SleepsWithinLadder`; `TrialEnds`, `EveryCallEnds`, `Recovers` |
| `order_saga` | 1 order, 1 cancel, 2 attempts per call, 1 crash, stock 0 to 2 | `AgreesWithPayments`, `GoodsHeld`, `CancelledIsRestocked`, `AnnouncedIsShown`, `GivenBackBounded`; `SettledForGood`; `ImplementsBook`; `EveryRequestEnds` |
| `payment_service` | 2 requests for 1 order, 2 attempts each, 1 crash, 1 lost store | `ChargedAgainOnlyByOverlap`, `FailedMeansDeclined`; `ImplementsLedger`; `EveryRequestAnswered` |
| `event_worker` | 2 workers, 2 handlers, 2 copies, 2 receives, batches of 2, 1 fault, the cached set running out any number of times | `NoEventLost`, `EffectsOnce`; `ImplementsDelivery` |
| `event_worker_settles` | the same with 1 handler, batches of 1 | `Settles` |
| `product_stock` | 2 products, a reservation, a release and an update, quantities to 2, 1 failure | `NoCircularWait`; `ImplementsLedger`; `EveryCallEnds` |
| `product_cache` | 1 product, 2 reservations, an update, 2 readers, a replica, Redis failing at any call | `ImplementsLedger`; `CacheConverges` |
| `order_saga_pending`, `payment_twice`, `event_worker_cache`, `product_fresh` | the smallest that show it | [below](#where-the-code-and-its-documents-disagree) |

Each passing safety run also has its module's `TypeOK`.

**Why the bounds are enough.** With four threads and threshold three the breaker
opens while a call is still running, whose result then arrives OPEN, HALF_OPEN or
CLOSED again, beside a trial. Under the bulkhead two calls hold its permits, one in
an old ladder and one the trial, while a third waits or is shed; three attempts
make one delay below the cap and one cut by it. In the saga the orders share nothing but the stock,
so one order with a cancel racing it has every race between requests for an
order; two attempts per call let one be late while the other is served, and each
of a reservation, charge and release may be. In the payment run attempts overlap
within a request and across requests; one crash falls between any two steps. In
the worker run a copy can be a duplicate, a redelivery or redriven; with two
receives it is dead-lettered while in work; one fault is a crash, a failed commit,
a Redis loss or outage, or an overrun lease at any step, while the cached set's key
may expire any number of times, with and without a fault before or after. Two products are what a
circle of row locks and a half-done reservation need; a stale copy needs one product
and two readers, one of which stores over the other. Whatever of this is
proved (below) does not depend on the bounds. Bounds on the environment (copies,
faults, crashes, lost stores) are constants in the guards; `taken`, `given`,
`charged` and `effects` are bounded through them and the attempts.

**Fairness.** Liveness rests on: threads being scheduled and each attempt ending,
by an answer or by its timeout (`OnSuccess`/`OnFailure`, the steps of handlers and
workers); the clock moving (`Tick`); SQS applying visibility timeouts and its
redrive policy (`Reappear`, `DeadLetter`); Postgres granting a free row lock and
replaying commits to the replica, and Redis expiring keys. The two `Recovers` also assume that requests
keep arriving, since nothing but a request moves the breaker, and mean by a
dependency that stays up one that answers every attempt: refusals count as failures.
In `GuardedCall` each thread's next step is fair, the wait for a permit because it
has a timeout; which thread gets a permit is not assumed. Nothing is assumed
of the network, the servers, the gateway, the success of handlers, the release
of a lease or the expiry of the cached set. `event_worker_settles` therefore includes the runs in which every
handler, claim and delete fails.

Deadlock is checked in every run but `product_stock`, whose calls all end, after
which nothing is left to do (`EveryCallEnds` and `NoCircularWait` are about its
deadlocks); where another system only waits for more requests, it says so by an
action (`Quiescent`, `ReceiveNothing`).

## Where the code and its documents disagree

Four runs check one sentence of the documents each, and TLC refutes it.

1. `order_saga_pending`: `docs/api.md` says a PAYMENT_PENDING order's stock is held
   and it cannot be cancelled, and that PENDING is never observed by clients.
   `cancel_order` accepts PENDING; arriving during the charge it releases the
   stock, and `create_order` then writes PAYMENT_PENDING over CANCELLED.
2. `payment_twice`: `docs/api.md` says a retried charge is never a second charge.
   The gateway stand-in looks for a stored response and stores one in two
   critical sections; the retry of an attempt that hangs in between is charged
   too. `ChargedAgainOnlyByOverlap` shows this is the only way, short of losing
   the store.
3. `event_worker_cache`: `completed_handlers` says that Postgres is the authority
   and a dead Redis "makes this slower, never wrong". `record_handler_done`, when it
   cannot read the cached set, writes one with the newest handler alone, and the
   next delivery believes it over the table: handlers with a row run again. The run
   has one worker and no fault: `h1` is recorded and cached, the key's time to live
   (`idempotency.py:114-119`, `cache.py:71`) ends while `h2` runs, `h2` is recorded and the set
   written is `{h2}`, the message is delivered once more (the delete was not made, or
   handlers are outstanding), and `h1` runs again. An eviction or a short outage does
   the same. `EffectsOnce` shows that it takes this: a key that runs out between two
   deliveries, or before one is looked up, only sends the worker to Postgres.
4. `product_fresh`: the comment in `update_product` says that after its
   `cache_delete` "the next read is guaranteed fresh". A `get_product` that missed
   before the update and stores after it caches the old product again, and the next
   reads are answered from that copy until it expires. `CacheConverges` shows that
   it does not last longer.

Three more were met while modelling and have no run:

- The docstring of `CircuitBreaker` draws one edge out of OPEN, to HALF_OPEN;
  `_on_success` closes the breaker from any state, so a call admitted before it
  opened does so, inside the recovery window and without a trial. `TrialSlotExact`
  and `StreakDecidesState` show that nothing else suffers.
- A comment in `gateway_client._post_charge` says that the breaker should not count a
  4xx against the dependency. `GatewayDeclined` leaves `breaker.call` as an exception
  and is counted, as are 404 and 409 from the Product service: a few orders for
  missing products open its breaker for everybody.
- `gateway_client.charge` "never raises"; a 200 answer whose body is not JSON does
  raise, outside `retry_on` and through both guards (`Refused`).

## Proofs

All theorems are of the form `Spec => []Inv`, an action or stuttering-insensitive
property, or a refinement, for any sets of orders, requests, workers, handlers and
copies, any finite sets of threads under a bulkhead and of cancels (they are
counted), and any bounds satisfying the module's named assumption (positive budgets,
distinct null values, disjoint kinds of calls). Every leaf is checked; nothing is
assumed besides those assumptions and the library's theorems. Every safety
invariant, action property and refinement of the passing runs is a theorem.

- **Breaker.** `StreakDecidesState` is inductive. For `TrialSlotExact` the
  invariant adds that a call still counted as the trial means HALF_OPEN, so each
  such period starts without one (`TrialInv`); for `ProbesWait`, that a HALF_OPEN breaker without a
  trial in flight has seen a quiet window (`QuietHalfOpen`). All of it is proved from
  `Safety`, the specification without fairness, so that it can be reused below.
- **Guarded calls.** `PermitsCounted` counts: each step that takes or returns a permit
  or moves the counter moves exactly one thread into or out of the set counted, and
  every exit goes through `Finally`. `NoCallForgotten` ties the breaker's bookkeeping
  to the threads under it; with it, a call that opens the breaker is not in its
  ladder any more but still has its permit, so fewer than `MaxConcurrency` others can
  be (`OpenShields`).
- **Sleeps.** `SleepsBounded`: a thread in its ladder has slept no more than the sum of the
  delays before its attempt (`SleepInv`), and there is no delay after the last
  (`PatienceBounded`: so at most `(Attempts - 1) * MaxDelay`). This needs what functions
  defined by recursion compute. `Recursion` proves from the order on Nat being well
  founded that a set with 0 and all successors is all of Nat (`SetInduction`) and
  that a first value and a rule, given as a function, make one on Nat
  (`RecursiveFunction`). So the CHOOSEs that `Grown`, `Power` and `Ladder` stand for
  choose what their equations say, the multiplying loop of `backoff_delays` is
  the documented power (`GrownIsDocumented`), and the ladder only grows (`LadderGrows`).
- **The breaker under its guards.** Each step of a guarded call is one of the breaker's
  or leaves it alone, by the way `GuardedCall` is written (lemma
  `BreakerStep`; the dependency is taken as one that may fail any call, since a ladder
  may report its failure when it is up again); the theorems of `CircuitBreakerProofs`,
  instantiated, then hold of the breaker that threads share under a bulkhead
  and across whole ladders (`SharedBreakerSound`, `LaddersWait`).
- **Saga.** `TypeInv` strengthens `TypeOK` by what a handler's place says of its
  order and target, `NetInv` says that a request in flight names the order of the
  handler that sent it, `PayInv` that what a handler heard of a payment is its row,
  `StockInv` that only a heard decline or a loaded cancel leads to a release, and
  `RestockInv` that a confirmed release has been executed. From them follow
  `AgreesWithPayments`, `GoodsHeld`, `CancelledIsRestocked` and `SettledForGood`.
  `AnnounceInv` ties each event to what its handler heard and where it is
  (`AnnouncedShown`). `GivenBack` counts: units given back and releases under way
  together are never more than the attempts made by handlers with a reason
  (`GivenInv`), an attempt being counted when it is sent and staying counted.
  `Refinement` maps every step to `OrderBook`: serving a charge is `Pay`, for an order
  whose row exists (`PlacedInv`); serving a release is `Restock`, for a reason
  (`StockInv`); a commit is `Conclude`, saying what the handler heard and the row
  has (`PayInv`); a cancel's commit is `Cancel`, the goods being back (`RestockInv`).
  `BookSuffices` shows the book's promise to be worth something: from it alone, rows
  and returned goods never contradict payments and cancels.
- **Payments.** `DeclineInv` traces FAILED back to the gateway through attempts,
  outcomes and stored responses; `OverlapInv` counts: an order charged and not
  overlapped has a stored response, or the gateway forgot it; `ChargeInv` does the
  same for SUCCESS and a charge. With them every step of the service maps to
  `Charge`, `Decide`, `Answer` or a stutter of the ledger (`Refinement`), and the ledger
  gives what `ServeCharge` in `OrderSaga` takes for granted (`LedgerSuffices`): one
  answer for every caller, decided once, and SUCCESS only if charged.
- **Worker.** `EventKept`: the cache, and every worker's reading of it, holds only
  recorded handlers, and recorded handlers ran (`RecordedRan`); a worker in
  `process_event` has each handler to do, failed, or recorded (`Accounted`), so an
  acknowledgement means all are recorded; deliveries are of copies that were sent
  (`DeliveredSent`); and until then a copy exists that no worker is about to drop
  and redrive is not about to delete (`SomeKept`) — which is inductive because
  both send the new copy before they delete the old. `EffectsHappenOnce`: in a
  clean history the lease keeps workers apart (`Exclusive`); a handler that ran has a row
  unless its worker is about to insert it (`RanIsRecorded`); the cached set, if there
  is one, has every row but that of the handler being recorded (`CacheKnows`); so has what
  a worker read to write back (`WorkersKnow`); and no handler still to do has run
  (`TodoNotRun`). The Postgres fallback is part of it: after `KeyExpires`, `LoadRows` finds
  rows and `Refresh` restores the set. Only a worker that `Relies` on the set could
  then write a poorer one, and that is a lapse. `Refinement` to `EventDelivery`
  puts them together: a step that runs no handler moves copies only, and is `Send`,
  `Settle` or a stutter by `NoEventLost` after it (`QuietStep`); one that runs a handler
  is `Run`, the handler's first as long as the history is clean (`RunStep`); a fault or lapse is `Fault`.
  Conversely `EventDelivery` implies both invariants (`DeliverySuffices`).
- **Stock.** `StockInv`: what a stock call asked for is what it has locked and what
  it has to do, the locked ids before the others (`ItemsInv`); a lock has one holder,
  whose session holds the committed stock changed by exactly the quantity asked for
  (`LockInv`), because nothing else writes a locked row. So the one of any set of
  waiting calls that wants the greatest id waits for none of them (`NoDeadlock`),
  and a commit, whatever happened since its locks were taken one by one, is the
  ledger's atomic `Reserve` or `Release` (`Refinement`). `FoundInv`: an update past its
  look-up has one product, whose row is there to stay, so it is a `Set` or `Keep`.
  `LedgerSuffices`: in the ledger, and so in the service, stock is never oversold and
  only moves when a call is done, by the whole of what it asked for, which is how
  `ServeReserve` and `ServeRelease` of `OrderSaga` move it.

**Only model-checked:** liveness (`TrialEnds` and `Recovers` of the breaker and under its
guards, `EveryRequestEnds`, `EveryRequestAnswered`, `Settles`, `EveryCallEnds` of guarded
and of stock calls, `CacheConverges`), since TLAPS does not reason about fairness and
`ENABLED`; and the four refuted sentences, which are counterexamples.

## Plan

Done, in this order: `CircuitBreaker`, `OrderSaga`, `PaymentLedger` and
`PaymentService`, `EventWorker`, `StockLedger` and `ProductStock`, `GuardedCall`, and
the proofs of each; then `OrderBook` and `EventDelivery` with their refinements, the
breaker's theorems carried into `GuardedCall`, its ladder, and what the ledgers are
enough for. Next to prove: what single calls of the cache do to stale copies, short
of liveness, and bounds on second charges by the attempts under way. What could follow: `OrderSaga` with several cancels and several
products per order (its state space is what stands against it; `StockLedger` and
the theorems stand in), a listing cache beside `ProductStock`'s product keys, and the
`GuardedCall` of one service under the calls of another, to compare their budgets.

## Not modelled

Customer, notification, analytics and search have no interaction beyond an
existence check or a logged line. Configuration, health endpoints, start-up,
Terraform, Docker and load tests keep no state of the running system.
`dlq.purge` destroys messages on purpose. Message retention in SQS, partial
effects of a handler that then fails, and time-outs compared with one another
(visibility against lease and cached set against handler time) are abstracted: any of them may
fire at any moment. `OrderSaga` and `PaymentService` take what `GuardedCall` does to a call
as a choice (`ShortCircuit`, `GiveUp`). Of the cache helpers the jitter of times to live,
of the publisher the resolution of queue URLs, and of the DLQ tool `inspect` are left
out: they change nothing that others read. Of the catalogue, product listings are left out — the same read
under keys no writer deletes, which go stale by design — and so are a product's other columns. In `OrderSaga`
an order has one product; `StockLedger` is why its reservation may be one step.
