---------------------------- MODULE ProductStock ----------------------------
(***************************************************************************)
(* The Product service, app/product/service.py: stock taken and given back *)
(* under row locks, updates that read without one, and the cache-aside     *)
(* reads of app/core/cache.py that go to an asynchronous replica.          *)
(*                                                                         *)
(* Of a product the model keeps the stock: it is what concurrent requests  *)
(* change.  A call is one HTTP request in one database session.  The rows  *)
(* a stock call has locked are those its session holds a value of: the one *)
(* it will write, which nobody else sees before the commit.  Taking a lock *)
(* and deleting the cached copy, which follows it, are one step: a reader  *)
(* between the two finds what one after both finds, the committed row.     *)
(* Two items for the same product stand as one with the sum of them.       *)
(*                                                                         *)
(* The branch of release_stock for a missing product cannot be reached:    *)
(* nothing deletes products, and what is released was reserved.  List keys *)
(* are left out: they are read alike and never deleted.                    *)
(***************************************************************************)
EXTENDS Integers, Sequences

CONSTANTS
    NumProducts,  \* ids handed out by products.id, from 1
    Reserves,     \* calls of reserve_stock
    Releases,     \* calls of release_stock
    Updates,      \* calls of update_product that set the stock
    Readers,      \* requests handling get_product, one at a time each
    ReadReplica,  \* read_replica_enabled
    RedisMayFail, \* whether Redis may be out of reach
    MaxStock,     \* bound: stock of a new product and stock set by an update
    MaxQuantity,  \* bound: quantity of an item
    MaxFaults,    \* bound: sessions that fail
    None          \* no row, quantity, cached copy or product

Products == 1..NumProducts
StockCalls == Reserves \cup Releases
Calls == StockCalls \cup Updates

ASSUME ProductAssumption ==
    /\ NumProducts \in Nat
    /\ StockCalls \cap Updates = {}
    /\ Reserves \cap Releases = {}
    /\ ReadReplica \in BOOLEAN /\ RedisMayFail \in BOOLEAN
    /\ MaxStock \in Nat /\ MaxQuantity \in Nat /\ MaxFaults \in Nat
    /\ None \notin Int

VARIABLES
    row,      \* committed stock of each product, None when there is no row
    pc,       \* where each call is
    want,     \* its items: a quantity, or the stock to set, by product
    todo,     \* the products a stock call has yet to lock
    session,  \* values by product: to write (stock calls) or read (updates)
    lag,      \* committed states the replica has yet to replay
    replica,  \* the rows as the replica has them
    cache,    \* product:{id} in Redis: a stock or None
    reading,  \* the product each reader missed in the cache, or None
    got,      \* what it read from a database, or None
    faults

callVars == <<pc, want, todo, session>>
storeVars == <<row, lag>>
readerVars == <<reading, got>>
vars == <<storeVars, callVars, replica, cache, readerVars, faults>>

Amounts == [Products -> Nat \cup {None}]
Nothing == [p \in Products |-> None]

(* The products of a request; those a session holds a value of.            *)
Asked(c) == {p \in Products : want[c][p] # None}
Held(c) == {p \in Products : session[c][p] # None}

(* Definitions named Something_Fault are faulty variants of Something: what *)
(* the property they belong to would catch.  No action uses them.          *)

Init ==
    /\ row \in [Products -> 0..MaxStock \cup {None}]
    /\ pc = [c \in Calls |-> "idle"]
    /\ want = [c \in Calls |-> Nothing]
    /\ todo = [c \in Calls |-> {}]
    /\ session = [c \in Calls |-> Nothing]
    /\ lag = <<>>
    /\ replica = row
    /\ cache = [p \in Products |-> None]
    /\ reading = [r \in Readers |-> None]
    /\ got = [r \in Readers |-> None]
    /\ faults = 0

(* The row lock of SELECT ... FOR UPDATE, held until the session ends.     *)
Locked_Ignored(p) == FALSE
Locked(p) == \E c \in StockCalls : p \in Held(c)

(* The loop goes through sorted(items, key=product_id).                    *)
NextItem_Unsorted(c) ==
    CHOOSE p \in todo[c] : \A q \in todo[c] : IF c \in Reserves THEN p <= q ELSE q <= p
NextItem(c) == CHOOSE p \in todo[c] : \A q \in todo[c] : p <= q

(* cache_delete: a failure is swallowed, and the entry stays.              *)
DeleteKey(p) ==
    \/ cache' = [cache EXCEPT ![p] = None]
    \/ RedisMayFail /\ UNCHANGED cache

Commit(newRow) ==
    /\ row' = newRow
    /\ lag' = IF ReadReplica THEN Append(lag, newRow) ELSE lag

(* The session ends; its locks are released.                               *)
End(c, how) ==
    /\ pc' = [pc EXCEPT ![c] = how]
    /\ todo' = [todo EXCEPT ![c] = {}]
    /\ session' = [session EXCEPT ![c] = Nothing]
    /\ UNCHANGED want

-----------------------------------------------------------------------------
(* POST /products.  A 404 is never cached, so there is nothing to delete.  *)
Create(p) ==
    /\ row[p] = None
    /\ \E n \in 0..MaxStock : Commit([row EXCEPT ![p] = n])
    /\ UNCHANGED <<callVars, replica, cache, readerVars, faults>>

(* A stock request arrives; what is released was reserved earlier, so its  *)
(* rows exist.                                                             *)
BeginStock(c) ==
    /\ c \in StockCalls
    /\ pc[c] = "idle"
    /\ \E S \in (SUBSET Products) \ {{}} :
         /\ c \in Releases => \A p \in S : row[p] # None
         /\ \E w \in [S -> 1..MaxQuantity] : want' = [want EXCEPT ![c] =
              [p \in Products |-> IF p \in S THEN w[p] ELSE None]]
         /\ todo' = [todo EXCEPT ![c] = S]
    /\ pc' = [pc EXCEPT ![c] = "items"]
    /\ UNCHANGED <<storeVars, session, replica, cache, readerVars, faults>>

HasNext(c) == pc[c] = "items" /\ todo[c] # {}

(* What an item of a reservation runs into: no row, or, once the row lock  *)
(* is granted, too little stock.                                           *)
Insufficient_Unchecked(c, p) == c \in Reserves /\ row[p] < 0
Insufficient(c, p) == c \in Reserves /\ row[p] < want[c][p]

(* One turn of the loop: lock the row, check, change it in the session,    *)
(* delete the cached copy.                                                 *)
TakeItem(c) ==
    /\ HasNext(c)
    /\ LET p == NextItem(c)
           n == IF c \in Reserves THEN row[p] - want[c][p] ELSE row[p] + want[c][p]
       IN  /\ ~Locked(p)
           /\ row[p] # None
           /\ ~Insufficient(c, p)
           /\ todo' = [todo EXCEPT ![c] = @ \ {p}]
           /\ session' = [session EXCEPT ![c][p] = n]
           /\ DeleteKey(p)
    /\ UNCHANGED <<storeVars, pc, want, replica, readerVars, faults>>

(* HTTPException 404 or 409: the session is closed, which rolls it back.   *)
RefuseItem(c) ==
    /\ HasNext(c)
    /\ c \in Reserves
    /\ LET p == NextItem(c)
       IN  row[p] # None => ~Locked(p) /\ Insufficient(c, p)
    /\ End(c, "refused")
    /\ UNCHANGED <<storeVars, replica, cache, readerVars, faults>>

CommitStock(c) ==
    /\ pc[c] = "items"
    /\ todo[c] = {}
    /\ Commit([p \in Products |->
         IF p \in Held(c) THEN session[c][p] ELSE row[p]])
    /\ End(c, "done")
    /\ UNCHANGED <<replica, cache, readerVars, faults>>

(* PUT /products/{id}: the row is read without a lock; 404 without a row.  *)
BeginUpdate(c) ==
    /\ c \in Updates
    /\ pc[c] = "idle"
    /\ \E p \in Products : \E n \in 0..MaxStock : want' = [want EXCEPT ![c][p] = n]
    /\ pc' = [pc EXCEPT ![c] = "load"]
    /\ UNCHANGED <<storeVars, todo, session, replica, cache, readerVars, faults>>

Load(c) ==
    /\ pc[c] = "load"
    /\ \E p \in Asked(c) :
         IF row[p] = None
         THEN End(c, "refused")
         ELSE /\ session' = [session EXCEPT ![c][p] = row[p]]
              /\ pc' = [pc EXCEPT ![c] = "write"]
              /\ UNCHANGED <<want, todo>>
    /\ UNCHANGED <<storeVars, replica, cache, readerVars, faults>>

(* The flush writes only attributes whose value differs from the one read; *)
(* its UPDATE waits for the row lock.                                      *)
Write(c) ==
    /\ pc[c] = "write"
    /\ \E p \in Asked(c) :
         IF session[c][p] = want[c][p]
         THEN UNCHANGED storeVars
         ELSE ~Locked(p) /\ Commit([row EXCEPT ![p] = want[c][p]])
    /\ End(c, "delete")
    /\ UNCHANGED <<replica, cache, readerVars, faults>>

(* After the commit; a process that dies here has the effect of a failed   *)
(* deletion.                                                               *)
Invalidate(c) ==
    /\ pc[c] = "delete"
    /\ \E p \in Asked(c) : DeleteKey(p)
    /\ End(c, "done")
    /\ UNCHANGED <<storeVars, replica, readerVars, faults>>

(* The process dies, the connection breaks or the commit fails: rollback.  *)
Fail(c) ==
    /\ pc[c] \in {"items", "load", "write"}
    /\ faults < MaxFaults
    /\ faults' = faults + 1
    /\ End(c, "lost")
    /\ UNCHANGED <<storeVars, replica, cache, readerVars>>

-----------------------------------------------------------------------------
(* get_product.  A hit is answered from the cache and changes nothing.     *)
Miss(r, p) ==
    /\ reading[r] = None
    /\ cache[p] = None \/ RedisMayFail
    /\ reading' = [reading EXCEPT ![r] = p]
    /\ UNCHANGED <<storeVars, callVars, replica, cache, got, faults>>

ReaderDone(r) ==
    /\ reading' = [reading EXCEPT ![r] = None]
    /\ got' = [got EXCEPT ![r] = None]

(* The session reads the replica where there is one; a connection that     *)
(* breaks is retried there, and after the last attempt the read falls back *)
(* to the primary.  So it returns either copy, as of the attempt that      *)
(* succeeds; attempts that do not leave nothing behind.                    *)
Copies(p) == {row[p]} \cup (IF ReadReplica THEN {replica[p]} ELSE {})

(* A missing row (404) and any other error end the request, and nothing is *)
(* cached.                                                                 *)
Read(r) ==
    /\ reading[r] # None
    /\ got[r] = None
    /\ \/ ReaderDone(r)
       \/ \E n \in Copies(reading[r]) \ {None} :
            got' = [got EXCEPT ![r] = n] /\ UNCHANGED reading
    /\ UNCHANGED <<storeVars, callVars, replica, cache, faults>>

(* cache_set_json: a failure is swallowed.                                 *)
Store(r) ==
    /\ got[r] # None
    /\ \/ cache' = [cache EXCEPT ![reading[r]] = got[r]]
       \/ RedisMayFail /\ UNCHANGED cache
    /\ ReaderDone(r)
    /\ UNCHANGED <<storeVars, callVars, replica, faults>>

(* Every entry is stored with a time to live.                              *)
Expire_Never(p) == FALSE /\ UNCHANGED vars
Expire(p) ==
    /\ cache[p] # None
    /\ cache' = [cache EXCEPT ![p] = None]
    /\ UNCHANGED <<storeVars, callVars, replica, readerVars, faults>>

(* The replica replays the primary's commits in their order.               *)
Replay ==
    /\ lag # <<>>
    /\ replica' = Head(lag)
    /\ lag' = Tail(lag)
    /\ UNCHANGED <<row, callVars, cache, readerVars, faults>>

-----------------------------------------------------------------------------
CallStep(c) ==
    \/ TakeItem(c) \/ RefuseItem(c) \/ CommitStock(c)
    \/ Load(c) \/ Write(c) \/ Invalidate(c)

Next ==
    \/ \E p \in Products : Create(p) \/ Expire(p)
    \/ \E c \in Calls : BeginStock(c) \/ BeginUpdate(c) \/ CallStep(c) \/ Fail(c)
    \/ \E r \in Readers : Read(r) \/ Store(r) \/ \E p \in Products : Miss(r, p)
    \/ Replay

(* Threads are scheduled, Postgres grants a free lock, entries expire, the *)
(* replica catches up.                                                     *)
Fairness ==
    /\ \A c \in Calls : WF_vars(CallStep(c))
    /\ \A r \in Readers : WF_vars(Read(r)) /\ WF_vars(Store(r))
    /\ \A p \in Products : WF_vars(Expire(p))
    /\ WF_vars(Replay)

Spec == Init /\ [][Next]_vars
FairSpec == Spec /\ Fairness

-----------------------------------------------------------------------------
Ended == {"done", "refused", "lost"}

(* Types.  Stock is never negative, neither committed nor in a session.    *)
TypeOK ==
    /\ row \in Amounts /\ replica \in Amounts /\ cache \in Amounts
    /\ lag \in Seq(Amounts)
    /\ pc \in [Calls -> {"idle", "items", "load", "write", "delete"} \cup Ended]
    /\ want \in [Calls -> Amounts]
    /\ todo \in [Calls -> SUBSET Products]
    /\ session \in [Calls -> Amounts]
    /\ reading \in [Readers -> Products \cup {None}]
    /\ got \in [Readers -> Nat \cup {None}]
    /\ faults \in 0..MaxFaults

(* c is blocked by d: the next row of c is locked by d.                    *)
WaitsFor(c, d) == HasNext(c) /\ NextItem(c) \in Held(d)

(* "Lock rows in id order to avoid deadlocks between concurrent reserves"  *)
(* (service.py:178), releases included: no set of stock calls waits only   *)
(* for each other.                                                         *)
NoCircularWait ==
    \A S \in (SUBSET StockCalls) \ {{}} :
      \E c \in S : \A d \in S : ~WaitsFor(c, d)

(* What the caller of the Product service will come to know of a call.     *)
Status(at) ==
    CASE at = "idle" -> "none"
      [] at \in {"items", "load", "write"} -> "asked"
      [] at = "delete" -> "done"
      [] OTHER -> at
Outcome == [c \in Calls |-> Status(pc[c])]
Ledger == INSTANCE StockLedger WITH stock <- row, outcome <- Outcome
(* The calls of the Product service are atomic: they implement StockLedger.*)
(* Taken and given quantities are neither lost to a concurrent call nor    *)
(* counted by halves when an item is refused or the session fails.         *)
ImplementsLedger == Ledger!Spec

(* Every call that begins comes to an end: none waits forever for a lock.  *)
EveryCallEnds == \A c \in Calls : pc[c] # "idle" ~> pc[c] \in Ended

(* Once stock stops changing, the cached copies become and stay current,   *)
(* whatever a slow reader, a lagging replica or a failed deletion stored.  *)
CacheConverges == <>[](\A p \in Products : cache[p] \in {None, row[p]})

(* "The next read is guaranteed fresh" (service.py:163) after an update:   *)
(* when no call and no read is under way and the replica has caught up,    *)
(* what is cached is the row.                                              *)
NextReadIsFresh ==
    (/\ \A c \in Calls : pc[c] \in {"idle"} \cup Ended
     /\ \A r \in Readers : reading[r] = None
     /\ lag = <<>>)
    => \A p \in Products : cache[p] \in {None, row[p]}
=============================================================================
