------------------------- MODULE ProductStockProofs -------------------------
(***************************************************************************)
(* What ProductStock promises for any number of products, calls, readers   *)
(* and failures: stock is typed and never negative, stock calls cannot     *)
(* block each other in a circle, and every call is atomic (StockLedger).   *)
(***************************************************************************)
EXTENDS ProductStock, SequenceTheorems, WellFoundedInduction, TLAPS

(* The products of a stock call are those it has locked, in its session,   *)
(* and those to do, which come later in the order of ids.                  *)
ItemsInv ==
    \A c \in StockCalls :
      /\ pc[c] \in {"idle", "items"} \cup Ended
      /\ pc[c] # "items" => todo[c] = {} /\ session[c] = Nothing
      /\ pc[c] = "items" =>
           \A p \in Products :
             /\ want[c][p] # None <=> (p \in todo[c] \/ session[c][p] # None)
             /\ session[c][p] # None => \A q \in todo[c] : p < q

(* A row is locked by one call at most, and what its session holds is the  *)
(* committed stock changed by the quantity asked for.                      *)
LockInv ==
    \A c \in StockCalls : \A p \in Products :
      session[c][p] # None =>
        /\ row[p] # None
        /\ session[c][p] = IF c \in Reserves THEN row[p] - want[c][p]
                                             ELSE row[p] + want[c][p]
        /\ \A d \in StockCalls : session[d][p] # None => d = c

(* An update takes no locks, and ends.                                     *)
UpdateInv ==
    \A c \in Updates : pc[c] \in {"idle", "load", "write", "delete"} \cup Ended

StockInv == TypeOK /\ ItemsInv /\ LockInv /\ UpdateInv

-----------------------------------------------------------------------------
(* Every non-empty set of natural numbers has a least element.             *)
LEMMA LeastNumber ==
    ASSUME NEW T \in SUBSET Nat, T # {}
    PROVE  \E x \in T : \A y \in T : x <= y
<1>1. PICK x \in T : \A y \in T : ~(<<y, x>> \in OpToRel(<, Nat))
  BY NatLessThanWellFounded, WFMin
<1>2. ASSUME NEW y \in T PROVE x <= y
  <2>1. ~(y < x)
    BY <1>1, <1>2 DEF OpToRel
  <2> QED
    BY <2>1
<1> QED
  BY <1>2

(* The least product to do is one of them.                                 *)
LEMMA NextItemIsLeast ==
    ASSUME NEW c \in Calls, todo[c] \in SUBSET Products, todo[c] # {}
    PROVE  /\ NextItem(c) \in todo[c]
           /\ \A q \in todo[c] : NextItem(c) <= q
<1>1. todo[c] \in SUBSET Nat
  BY ProductAssumption DEF ProductAssumption, Products
<1>2. \E p \in todo[c] : \A q \in todo[c] : p <= q
  BY <1>1, LeastNumber
<1> QED
  BY <1>2 DEF NextItem

(* A commit of rows of the right type keeps the replication log typed.     *)
LEMMA CommitTyped ==
    ASSUME NEW newRow \in Amounts, lag \in Seq(Amounts), Commit(newRow)
    PROVE  row' = newRow /\ lag' \in Seq(Amounts)
<1>1. Append(lag, newRow) \in Seq(Amounts)
  BY AppendProperties
<1>2. row' = newRow /\ (lag' = Append(lag, newRow) \/ lag' = lag)
  BY DEF Commit
<1> QED
  BY <1>1, <1>2

(* No call has started, no row is locked.                                  *)
LEMMA InitInv == Init => StockInv
  BY ProductAssumption
  DEF Init, StockInv, TypeOK, ItemsInv, LockInv, UpdateInv, Amounts, Nothing,
      Ended, Calls, StockCalls, ProductAssumption

(* One turn of the loop locks one more row and changes it in the session.  *)
LEMMA TakeItemInv ==
    ASSUME StockInv, NEW c \in Calls, TakeItem(c)
    PROVE  StockInv'
<1> USE ProductAssumption DEF ProductAssumption
<1> DEFINE p == NextItem(c)
           n == IF c \in Reserves THEN row[p] - want[c][p] ELSE row[p] + want[c][p]
<1>1. c \in StockCalls /\ pc[c] = "items" /\ todo[c] # {}
  BY DEF TakeItem, HasNext, StockInv, UpdateInv, Calls, Ended
<1>2. p \in todo[c] /\ p \in Products /\ \A q \in todo[c] : p <= q
  BY <1>1, NextItemIsLeast DEF StockInv, TypeOK
<1>3. want[c][p] \in Nat /\ row[p] \in Nat
  BY <1>1, <1>2 DEF StockInv, TypeOK, ItemsInv, Amounts, TakeItem
<1>4. n \in Nat
  BY <1>1, <1>2, <1>3 DEF TakeItem, Insufficient
<1>5. /\ todo' = [todo EXCEPT ![c] = @ \ {p}]
      /\ session' = [session EXCEPT ![c][p] = n]
      /\ UNCHANGED <<row, lag, pc, want, replica, reading, got, faults>>
      /\ cache' = [cache EXCEPT ![p] = None] \/ cache' = cache
      /\ \A d \in StockCalls : session[d][p] = None
  BY <1>2 DEF TakeItem, storeVars, readerVars, DeleteKey, Locked, Held
<1> HIDE DEF p, n
<1>6. TypeOK'
  BY <1>2, <1>4, <1>5 DEF StockInv, TypeOK, Amounts, Calls
<1>7. ItemsInv'
  <2> SUFFICES ASSUME NEW d \in StockCalls
               PROVE  /\ pc[d] \in {"idle", "items"} \cup Ended
                      /\ pc[d] # "items" => todo'[d] = {} /\ session'[d] = Nothing
                      /\ pc[d] = "items" =>
                         \A q \in Products :
                           /\ want[d][q] # None <=> (q \in todo'[d] \/ session'[d][q] # None)
                           /\ session'[d][q] # None => \A o \in todo'[d] : q < o
    BY <1>5 DEF ItemsInv, Nothing
  <2>1. CASE d # c
    BY <2>1, <1>5 DEF StockInv, ItemsInv, TypeOK
  <2>2. CASE d = c
    <3>1. todo'[c] = todo[c] \ {p} /\ session'[c] = [session[c] EXCEPT ![p] = n]
      BY <1>5, <1>1 DEF StockInv, TypeOK, Calls, StockCalls
    <3>2. session[c] \in Amounts /\ todo[c] \in SUBSET Products
      BY DEF StockInv, TypeOK
    <3>3. \A o \in todo'[c] : p < o
      BY <1>2, <3>1, <3>2 DEF Products
    <3> QED
      BY <2>2, <1>1, <1>2, <1>4, <3>1, <3>2, <3>3 DEF StockInv, ItemsInv, Amounts
  <2> QED
    BY <2>1, <2>2
<1>8. LockInv'
  BY <1>1, <1>2, <1>3, <1>4, <1>5 DEF StockInv, LockInv, TypeOK, Amounts, n, Calls, StockCalls
<1>9. UpdateInv'
  BY <1>5 DEF StockInv, UpdateInv
<1> QED
  BY <1>6, <1>7, <1>8, <1>9 DEF StockInv

(* A commit publishes the session and frees its rows.                      *)
LEMMA CommitStockInv ==
    ASSUME StockInv, NEW c \in Calls, CommitStock(c)
    PROVE  StockInv'
<1> USE ProductAssumption DEF ProductAssumption
<1>1. c \in StockCalls /\ pc[c] = "items" /\ todo[c] = {}
  BY DEF CommitStock, StockInv, UpdateInv, Calls, Ended
<1> DEFINE newRow == [p \in Products |->
                        IF session[c][p] # None THEN session[c][p] ELSE row[p]]
<1>2. /\ Commit(newRow)
      /\ pc' = [pc EXCEPT ![c] = "done"]
      /\ todo' = [todo EXCEPT ![c] = {}]
      /\ session' = [session EXCEPT ![c] = Nothing]
      /\ UNCHANGED <<want, replica, cache, reading, got, faults>>
  BY DEF CommitStock, End, Held, readerVars
<1>3. newRow \in Amounts
  BY DEF StockInv, TypeOK, Amounts
<1>4. row' = newRow /\ lag' \in Seq(Amounts)
  BY <1>2, <1>3, CommitTyped DEF StockInv, TypeOK
<1>5. TypeOK'
  BY <1>2, <1>3, <1>4 DEF StockInv, TypeOK, Nothing, Amounts, Ended
<1>6. ItemsInv'
  BY <1>1, <1>2 DEF StockInv, TypeOK, ItemsInv, Ended, Calls, StockCalls
<1>7. LockInv'
  BY <1>1, <1>2, <1>4 DEF StockInv, TypeOK, LockInv, Nothing, Calls, StockCalls
<1>8. UpdateInv'
  BY <1>1, <1>2 DEF StockInv, TypeOK, UpdateInv, Calls
<1> QED
  BY <1>5, <1>6, <1>7, <1>8 DEF StockInv

(* Ending a session without a commit, whatever else changes.               *)
LEMMA EndInv ==
    ASSUME StockInv, NEW c \in Calls, NEW how \in Ended, End(c, how),
           UNCHANGED storeVars, UNCHANGED <<replica, cache, readerVars>>,
           faults' \in 0..MaxFaults
    PROVE  StockInv'
<1> USE ProductAssumption DEF ProductAssumption
<1>1. /\ pc' = [pc EXCEPT ![c] = how]
      /\ todo' = [todo EXCEPT ![c] = {}]
      /\ session' = [session EXCEPT ![c] = Nothing]
      /\ UNCHANGED <<row, lag, want, replica, cache, reading, got>>
  BY DEF End, storeVars, readerVars
<1>2. TypeOK'
  BY <1>1 DEF StockInv, TypeOK, Nothing, Amounts, Ended
<1>3. ItemsInv'
  BY <1>1 DEF StockInv, TypeOK, ItemsInv, Ended, Calls, StockCalls
<1>4. LockInv'
  BY <1>1 DEF StockInv, TypeOK, LockInv, Nothing, Calls, StockCalls
<1>5. UpdateInv'
  BY <1>1 DEF StockInv, TypeOK, UpdateInv, Calls
<1> QED
  BY <1>2, <1>3, <1>4, <1>5 DEF StockInv

(* The request of a call arrives.                                          *)
LEMMA BeginInv ==
    ASSUME StockInv, NEW c \in Calls, BeginStock(c) \/ BeginUpdate(c)
    PROVE  StockInv'
<1> USE ProductAssumption DEF ProductAssumption
<1>1. CASE BeginStock(c)
  <2>1. PICK S \in (SUBSET Products) \ {{}} : \E w \in [S -> 1..MaxQuantity] :
          /\ want' = [want EXCEPT ![c] = [p \in Products |-> IF p \in S THEN w[p] ELSE None]]
          /\ todo' = [todo EXCEPT ![c] = S]
    BY <1>1 DEF BeginStock
  <2>2. /\ c \in StockCalls /\ pc[c] = "idle"
        /\ pc' = [pc EXCEPT ![c] = "items"]
        /\ UNCHANGED <<row, lag, session, replica, cache, reading, got, faults>>
    BY <1>1 DEF BeginStock, storeVars, readerVars
  <2>3. TypeOK'
    BY <2>1, <2>2 DEF StockInv, TypeOK, Amounts
  <2>4. ItemsInv'
    BY <2>1, <2>2 DEF StockInv, TypeOK, ItemsInv, Nothing, Calls, Ended
  <2>5. LockInv'
    <3>1. session[c] = Nothing
      BY <2>2 DEF StockInv, ItemsInv
    <3> QED
      BY <2>1, <2>2, <3>1 DEF StockInv, TypeOK, LockInv, Nothing, Calls
  <2>6. UpdateInv'
    BY <2>2 DEF StockInv, TypeOK, UpdateInv, Calls
  <2> QED
    BY <2>3, <2>4, <2>5, <2>6 DEF StockInv
<1>2. CASE BeginUpdate(c)
  <2>1. PICK p \in Products, n \in 0..MaxStock : want' = [want EXCEPT ![c][p] = n]
    BY <1>2 DEF BeginUpdate
  <2>2. /\ c \in Updates
        /\ pc' = [pc EXCEPT ![c] = "load"]
        /\ UNCHANGED <<row, lag, todo, session, replica, cache, reading, got, faults>>
    BY <1>2 DEF BeginUpdate, storeVars, readerVars
  <2>3. TypeOK'
    BY <2>1, <2>2 DEF StockInv, TypeOK, Amounts
  <2>4. ItemsInv' /\ LockInv'
    BY <2>1, <2>2 DEF StockInv, TypeOK, ItemsInv, LockInv, Calls
  <2>5. UpdateInv'
    BY <2>2 DEF StockInv, TypeOK, UpdateInv, Calls
  <2> QED
    BY <2>3, <2>4, <2>5 DEF StockInv
<1> QED
  BY <1>1, <1>2

(* An update reads, writes only an unlocked row, and drops the cached copy. *)
LEMMA UpdateStepInv ==
    ASSUME StockInv, NEW c \in Calls, Load(c) \/ Write(c) \/ Invalidate(c)
    PROVE  StockInv'
<1> USE ProductAssumption DEF ProductAssumption
<1>1. c \in Updates /\ c \notin StockCalls
  BY DEF Load, Write, Invalidate, StockInv, ItemsInv, Calls, Ended
<1>2. CASE Load(c)
  <2>1. PICK p \in Asked(c) :
          IF row[p] = None
          THEN End(c, "refused")
          ELSE /\ session' = [session EXCEPT ![c][p] = row[p]]
               /\ pc' = [pc EXCEPT ![c] = "write"]
               /\ UNCHANGED <<want, todo>>
    BY <1>2 DEF Load
  <2>2. UNCHANGED <<storeVars, replica, cache, readerVars, faults>>
    BY <1>2 DEF Load
  <2>3. CASE row[p] = None
    BY <2>1, <2>2, <2>3, EndInv DEF Ended, StockInv, TypeOK
  <2>4. CASE row[p] # None
    <3>1. UNCHANGED <<row, lag, replica, cache, reading, got, faults>>
      BY <2>2 DEF storeVars, readerVars
    <3>2. TypeOK'
      <4>1. [session[c] EXCEPT ![p] = row[p]] \in Amounts
        BY DEF StockInv, TypeOK, Amounts, Asked
      <4>2. session' \in [Calls -> Amounts]
        BY <2>1, <2>4, <4>1 DEF StockInv, TypeOK
      <4> QED
        BY <2>1, <2>4, <3>1, <4>2 DEF StockInv, TypeOK
    <3>3. ItemsInv' /\ LockInv'
      BY <1>1, <2>1, <2>4, <3>1 DEF StockInv, TypeOK, ItemsInv, LockInv, Calls
    <3>4. UpdateInv'
      BY <1>1, <2>1, <2>4 DEF StockInv, TypeOK, UpdateInv, Calls
    <3> QED
      BY <3>2, <3>3, <3>4 DEF StockInv
  <2> QED
    BY <2>3, <2>4
<1>3. CASE Write(c)
  <2>1. PICK p \in Asked(c) :
          \/ UNCHANGED storeVars
          \/ ~Locked(p) /\ Commit([row EXCEPT ![p] = want[c][p]])
    BY <1>3 DEF Write
  <2>2. /\ pc' = [pc EXCEPT ![c] = "delete"]
        /\ todo' = [todo EXCEPT ![c] = {}]
        /\ session' = [session EXCEPT ![c] = Nothing]
        /\ UNCHANGED <<want, replica, cache, reading, got, faults>>
    BY <1>3 DEF Write, End, readerVars
  <2>3. [row EXCEPT ![p] = want[c][p]] \in Amounts
    BY DEF StockInv, TypeOK, Amounts, Asked
  <2>4. /\ lag' \in Seq(Amounts)
        /\ \/ row' = row
           \/ ~Locked(p) /\ row' = [row EXCEPT ![p] = want[c][p]]
    BY <2>1, <2>3, CommitTyped DEF StockInv, TypeOK, storeVars
  <2>5. TypeOK'
    BY <2>2, <2>3, <2>4 DEF StockInv, TypeOK, Amounts, Nothing
  <2>6. ItemsInv'
    BY <1>1, <2>2 DEF StockInv, TypeOK, ItemsInv, Calls
  <2>7. LockInv'
    <3> SUFFICES ASSUME NEW d \in StockCalls, NEW q \in Products, session'[d][q] # None
                 PROVE  /\ row'[q] # None
                        /\ session'[d][q] = IF d \in Reserves THEN row'[q] - want'[d][q]
                                                              ELSE row'[q] + want'[d][q]
                        /\ \A e \in StockCalls : session'[e][q] # None => e = d
      BY DEF LockInv
    <3>1. want' = want /\ \A e \in StockCalls : session'[e] = session[e]
      BY <1>1, <2>2 DEF StockInv, TypeOK, Calls
    <3>2. row'[q] = row[q]
      BY <2>4, <3>1 DEF StockInv, TypeOK, Amounts, Locked, Held
    <3> QED
      BY <3>1, <3>2 DEF StockInv, LockInv
  <2>8. UpdateInv'
    BY <1>1, <2>2 DEF StockInv, TypeOK, UpdateInv, Calls
  <2> QED
    BY <2>5, <2>6, <2>7, <2>8 DEF StockInv
<1>4. CASE Invalidate(c)
  <2>1. /\ pc' = [pc EXCEPT ![c] = "done"]
        /\ todo' = [todo EXCEPT ![c] = {}]
        /\ session' = [session EXCEPT ![c] = Nothing]
        /\ UNCHANGED <<row, lag, want, replica, reading, got, faults>>
    BY <1>4 DEF Invalidate, End, storeVars, readerVars
  <2>2. cache' \in Amounts
    BY <1>4 DEF Invalidate, DeleteKey, StockInv, TypeOK, Amounts
  <2>3. TypeOK'
    BY <2>1, <2>2 DEF StockInv, TypeOK, Amounts, Nothing, Ended
  <2>4. ItemsInv' /\ LockInv'
    BY <1>1, <2>1 DEF StockInv, TypeOK, ItemsInv, LockInv, Calls
  <2>5. UpdateInv'
    BY <1>1, <2>1 DEF StockInv, TypeOK, UpdateInv, Calls, Ended
  <2> QED
    BY <2>3, <2>4, <2>5 DEF StockInv
<1> QED
  BY <1>2, <1>3, <1>4

(* Readers, the replica and Redis touch neither calls nor rows; a new      *)
(* product had no row anyone could lock.                                   *)
LEMMA UntouchedInv ==
    ASSUME StockInv, UNCHANGED <<row, callVars, faults>>, lag' \in Seq(Amounts),
           replica' \in Amounts, cache' \in Amounts,
           reading' \in [Readers -> Products \cup {None}],
           got' \in [Readers -> Nat \cup {None}]
    PROVE  StockInv'
BY DEF StockInv, TypeOK, ItemsInv, LockInv, UpdateInv, callVars

(* Readers and the cache do not touch rows, locks or sessions.             *)
LEMMA ReaderInv ==
    ASSUME StockInv, NEW r \in Readers,
           Read(r) \/ Store(r) \/ \E p \in Products : Miss(r, p)
    PROVE  StockInv'
<1> USE ProductAssumption DEF ProductAssumption
<1>1. ASSUME NEW p \in Products, Miss(r, p) PROVE StockInv'
  BY <1>1, UntouchedInv DEF Miss, StockInv, TypeOK, storeVars
<1>2. CASE Read(r)
  <2>1. \/ reading' = [reading EXCEPT ![r] = None] /\ got' = [got EXCEPT ![r] = None]
        \/ \E n \in Nat : got' = [got EXCEPT ![r] = n] /\ reading' = reading
    BY <1>2 DEF Read, Copies, ReaderDone, StockInv, TypeOK, Amounts
  <2> QED
    BY <1>2, <2>1, UntouchedInv DEF Read, StockInv, TypeOK, storeVars
<1>3. CASE Store(r)
  BY <1>3, UntouchedInv DEF Store, ReaderDone, StockInv, TypeOK, Amounts, storeVars
<1> QED
  BY <1>1, <1>2, <1>3

(* Nor do new products, the replica or the expiry of a key touch rows that *)
(* others hold.                                                            *)
LEMMA EnvironmentInv ==
    ASSUME StockInv, Replay \/ \E p \in Products : Create(p) \/ Expire(p)
    PROVE  StockInv'
<1> USE ProductAssumption DEF ProductAssumption
<1>1. ASSUME NEW p \in Products, Create(p) PROVE StockInv'
  <2>1. PICK n \in 0..MaxStock : Commit([row EXCEPT ![p] = n])
    BY <1>1 DEF Create
  <2>2. row[p] = None /\ UNCHANGED <<pc, want, todo, session, replica, cache, reading, got, faults>>
    BY <1>1 DEF Create, callVars, readerVars
  <2>3. [row EXCEPT ![p] = n] \in Amounts
    BY DEF StockInv, TypeOK, Amounts
  <2>4. row' = [row EXCEPT ![p] = n] /\ lag' \in Seq(Amounts)
    BY <2>1, <2>3, CommitTyped DEF StockInv, TypeOK
  <2> QED
    BY <2>2, <2>3, <2>4 DEF StockInv, TypeOK, ItemsInv, LockInv, UpdateInv, Amounts
<1>2. ASSUME NEW p \in Products, Expire(p) PROVE StockInv'
  BY <1>2, UntouchedInv DEF Expire, StockInv, TypeOK, Amounts, storeVars, readerVars
<1>3. CASE Replay
  <2>1. Head(lag) \in Amounts /\ Tail(lag) \in Seq(Amounts)
    BY <1>3, HeadTailProperties DEF Replay, StockInv, TypeOK
  <2> QED
    BY <1>3, <2>1, UntouchedInv DEF Replay, StockInv, TypeOK, readerVars
<1> QED
  BY <1>1, <1>2, <1>3

(* Every reachable state keeps the inventory typed and the locks exact.    *)
THEOREM StockInvariant == Spec => []StockInv
<1>1. Init => StockInv
  BY InitInv
<1>2. StockInv /\ [Next]_vars => StockInv'
  <2> SUFFICES ASSUME StockInv, [Next]_vars PROVE StockInv'
    OBVIOUS
  <2>1. ASSUME NEW p \in Products, Create(p) \/ Expire(p) PROVE StockInv'
    BY <2>1, EnvironmentInv
  <2>2. ASSUME NEW r \in Readers,
               Read(r) \/ Store(r) \/ \E p \in Products : Miss(r, p)
        PROVE  StockInv'
    BY <2>2, ReaderInv
  <2>3. ASSUME NEW c \in Calls, BeginStock(c) \/ BeginUpdate(c) PROVE StockInv'
    BY <2>3, BeginInv
  <2>4. ASSUME NEW c \in Calls, CallStep(c) PROVE StockInv'
    <3>1. CASE TakeItem(c)
      BY <3>1, TakeItemInv
    <3>2. CASE RefuseItem(c)
      BY <3>2, EndInv DEF RefuseItem, Ended, StockInv, TypeOK
    <3>3. CASE CommitStock(c)
      BY <3>3, CommitStockInv
    <3>4. CASE Load(c) \/ Write(c) \/ Invalidate(c)
      BY <3>4, UpdateStepInv
    <3> QED
      BY <2>4, <3>1, <3>2, <3>3, <3>4 DEF CallStep
  <2>5. ASSUME NEW c \in Calls, Fail(c) PROVE StockInv'
    <3>1. faults' \in 0..MaxFaults
      BY <2>5, ProductAssumption DEF Fail, StockInv, TypeOK, ProductAssumption
    <3> QED
      BY <2>5, <3>1, EndInv DEF Fail, Ended
  <2>6. CASE Replay
    BY <2>6, EnvironmentInv
  <2>7. CASE UNCHANGED vars
    BY <2>7 DEF vars, storeVars, callVars, readerVars, StockInv, TypeOK, ItemsInv,
                LockInv, UpdateInv
  <2> QED
    BY <2>1, <2>2, <2>3, <2>4, <2>5, <2>6, <2>7 DEF Next
<1> QED
  BY <1>1, <1>2, PTL DEF Spec

(* The tables, sessions, copies and readers keep their types: no stock is  *)
(* ever negative, in a committed row or in a session about to commit.      *)
THEOREM TypeCorrect == Spec => []TypeOK
<1>1. StockInv => TypeOK
  BY DEF StockInv
<1> QED
  BY <1>1, StockInvariant, PTL

(* "Lock rows in id order to avoid deadlocks": in every set of stock calls *)
(* one that waits for the greatest id is not kept waiting by the others.   *)
LEMMA LockOrder ==
    ASSUME StockInv, NEW c \in StockCalls, NEW d \in StockCalls, WaitsFor(c, d), HasNext(d)
    PROVE  NextItem(c) < NextItem(d)
<1>1. todo[c] \in SUBSET Products /\ todo[c] # {} /\ todo[d] \in SUBSET Products /\ todo[d] # {}
  BY DEF StockInv, TypeOK, WaitsFor, HasNext, Calls
<1>2. NextItem(c) \in Products /\ NextItem(d) \in todo[d]
  BY <1>1, NextItemIsLeast DEF Calls
<1> QED
  BY <1>2 DEF StockInv, ItemsInv, WaitsFor, HasNext, Held

(* No stock calls wait only for each other, however many there are.        *)
THEOREM NoDeadlock == Spec => []NoCircularWait
<1>1. StockInv => NoCircularWait
  <2> SUFFICES ASSUME StockInv, NEW S \in (SUBSET StockCalls) \ {{}},
                      \A c \in S : \E d \in S : WaitsFor(c, d)
               PROVE  FALSE
    BY DEF NoCircularWait
  <2>1. \A c \in S : NextItem(c) \in 1..NumProducts
    <3> SUFFICES ASSUME NEW c \in S PROVE NextItem(c) \in 1..NumProducts
      OBVIOUS
    <3>1. c \in Calls /\ todo[c] \in SUBSET Products /\ todo[c] # {}
      BY DEF StockInv, TypeOK, WaitsFor, HasNext, Calls
    <3> QED
      BY <3>1, NextItemIsLeast DEF Products
  <2> DEFINE room == {NumProducts - NextItem(c) : c \in S}
  <2>2. room \in SUBSET Nat /\ room # {}
    BY <2>1, ProductAssumption DEF ProductAssumption
  <2>3. PICK n \in room : \A m \in room : n <= m
    BY <2>2, LeastNumber
  <2>4. PICK c \in S : n = NumProducts - NextItem(c)
    BY <2>3
  <2>5. PICK d \in S : WaitsFor(c, d)
    OBVIOUS
  <2>6. NextItem(c) < NextItem(d)
    BY <2>5, LockOrder DEF WaitsFor
  <2>7. n <= NumProducts - NextItem(d)
    BY <2>3
  <2> QED
    BY <2>1, <2>4, <2>6, <2>7, ProductAssumption DEF ProductAssumption
<1> QED
  BY <1>1, StockInvariant, PTL
-----------------------------------------------------------------------------
(* How the calls' outcomes follow their places.                            *)
LEMMA OutcomeStep ==
    ASSUME StockInv, NEW c \in Calls, NEW how, pc' = [pc EXCEPT ![c] = how]
    PROVE  Outcome' = [Outcome EXCEPT ![c] = Status(how)]
BY DEF Outcome, StockInv, TypeOK

(* A step that leaves rows, requests and places alone is a stutter.        *)
LEMMA LedgerUnchanged ==
    ASSUME UNCHANGED <<row, want, pc>>
    PROVE  UNCHANGED Ledger!vars
BY DEF Ledger!vars, Outcome

(* Arrivals, failures and refusals of a call.                              *)
LEMMA LedgerAsks ==
    ASSUME StockInv, StockInv', NEW c \in Calls, BeginStock(c) \/ BeginUpdate(c)
    PROVE  Ledger!Ask(c)
<1>1. /\ pc[c] = "idle" /\ row' = row
      /\ pc' = [pc EXCEPT ![c] = "items"] \/ pc' = [pc EXCEPT ![c] = "load"]
      /\ \E w : want' = [want EXCEPT ![c] = w]
  BY DEF BeginStock, BeginUpdate, storeVars
<1>2. Outcome[c] = "none" /\ Outcome' = [Outcome EXCEPT ![c] = "asked"]
  BY <1>1, OutcomeStep DEF Outcome, Status
<1>3. want'[c] \in Amounts /\ want' = [want EXCEPT ![c] = want'[c]]
  BY <1>1 DEF StockInv, TypeOK
<1> QED
  BY <1>1, <1>2, <1>3 DEF Ledger!Ask, Ledger!Amounts, Amounts

(* A call that ends refused has met a missing row or too little stock.     *)
LEMMA LedgerRefuses ==
    ASSUME StockInv, NEW c \in Calls, RefuseItem(c)
    PROVE  Ledger!Refuse(c)
<1> DEFINE p == NextItem(c)
<1>1. /\ pc[c] = "items" /\ todo[c] # {} /\ c \in Reserves
      /\ row[p] = None \/ row[p] < want[c][p]
      /\ pc' = [pc EXCEPT ![c] = "refused"]
      /\ UNCHANGED <<row, want>>
  BY DEF RefuseItem, HasNext, Insufficient, End, storeVars
<1>2. p \in Products /\ want[c][p] # None
  <2>1. p \in todo[c] /\ todo[c] \subseteq Products
    BY <1>1, NextItemIsLeast DEF StockInv, TypeOK
  <2> QED
    BY <1>1, <2>1 DEF StockInv, ItemsInv, StockCalls
<1>3. Outcome[c] = "asked" /\ Outcome' = [Outcome EXCEPT ![c] = "refused"]
  BY <1>1, OutcomeStep DEF Outcome, Status
<1> QED
  BY <1>1, <1>2, <1>3 DEF Ledger!Refuse, Ledger!Ends, Ledger!Asked

(* A session that fails before its commit leaves the stock as it was.      *)
LEMMA LedgerLoses ==
    ASSUME StockInv, NEW c \in Calls, Fail(c)
    PROVE  Ledger!Lose(c)
<1>1. /\ pc[c] \in {"items", "load", "write"}
      /\ pc' = [pc EXCEPT ![c] = "lost"]
      /\ UNCHANGED <<row, want>>
  BY DEF Fail, End, storeVars
<1>2. Outcome[c] = "asked" /\ Outcome' = [Outcome EXCEPT ![c] = "lost"]
  BY <1>1, OutcomeStep DEF Outcome, Status
<1> QED
  BY <1>1, <1>2 DEF Ledger!Lose, Ledger!Ends

(* A commit takes or gives all that was asked for, from what is there now. *)
LEMMA LedgerCommits ==
    ASSUME StockInv, NEW c \in Calls, CommitStock(c)
    PROVE  (c \in Reserves /\ Ledger!Reserve(c)) \/ (c \in Releases /\ Ledger!Release(c))
<1> USE ProductAssumption DEF ProductAssumption
<1>1. /\ c \in StockCalls /\ pc[c] = "items" /\ todo[c] = {}
      /\ row' = [p \in Products |-> IF session[c][p] # None THEN session[c][p] ELSE row[p]]
      /\ pc' = [pc EXCEPT ![c] = "done"]
      /\ want' = want
  BY DEF CommitStock, Commit, End, Held, StockInv, UpdateInv, Calls, Ended
<1>2. ASSUME NEW p \in Products PROVE session[c][p] # None <=> want[c][p] # None
  BY <1>1 DEF StockInv, ItemsInv
<1>3. ASSUME NEW p \in Products, want[c][p] # None
      PROVE  /\ row[p] \in Nat /\ session[c][p] \in Nat /\ want[c][p] \in Nat
             /\ session[c][p] = IF c \in Reserves THEN row[p] - want[c][p]
                                                   ELSE row[p] + want[c][p]
  BY <1>1, <1>2, <1>3 DEF StockInv, TypeOK, LockInv, Amounts
<1>4. Outcome[c] = "asked" /\ Outcome' = [Outcome EXCEPT ![c] = "done"]
  BY <1>1, OutcomeStep DEF Outcome, Status
<1>5. Ledger!Ends(c, "done")
  BY <1>1, <1>4 DEF Ledger!Ends
<1>6. Ledger!Asked(c) = {p \in Products : want[c][p] # None}
  BY DEF Ledger!Asked
<1>7. CASE c \in Reserves
  <2>1. \A p \in Ledger!Asked(c) : row[p] # None /\ row[p] >= want[c][p]
    BY <1>3, <1>6, <1>7
  <2>2. row' = [p \in Products |->
                  IF p \in Ledger!Asked(c) THEN row[p] - want[c][p] ELSE row[p]]
    BY <1>1, <1>2, <1>3, <1>6, <1>7
  <2> QED
    BY <1>5, <1>7, <2>1, <2>2 DEF Ledger!Reserve
<1>8. CASE c \notin Reserves
  <2>1. row' = [p \in Products |->
                  IF p \in Ledger!Asked(c) THEN row[p] + want[c][p] ELSE row[p]]
    BY <1>1, <1>2, <1>3, <1>6, <1>8
  <2>2. \A p \in Ledger!Asked(c) : row[p] # None
    BY <1>3, <1>6
  <2> QED
    BY <1>1, <1>5, <1>8, <2>1, <2>2 DEF Ledger!Release, StockCalls
<1> QED
  BY <1>7, <1>8

(* An update asks for one product, whose row it found before it writes,    *)
(* and rows once there stay.                                               *)
Found(c) ==
    /\ pc[c] = "idle" => Asked(c) = {}
    /\ \A p, q \in Asked(c) : p = q
    /\ pc[c] = "write" => \A p \in Asked(c) : row[p] # None

FoundInv == \A c \in Updates : Found(c)

(* No step deletes a product.                                              *)
LEMMA RowsStay ==
    StockInv /\ [Next]_vars => \A p \in Products : row[p] # None => row'[p] # None
<1> SUFFICES ASSUME StockInv, [Next]_vars, NEW p \in Products, row[p] # None
             PROVE  row'[p] # None
  OBVIOUS
<1> USE ProductAssumption DEF ProductAssumption
<1>1. ASSUME NEW q \in Products, Create(q) PROVE row'[p] # None
  BY <1>1 DEF Create, Commit, StockInv, TypeOK, Amounts
<1>2. ASSUME NEW c \in Calls, CommitStock(c) PROVE row'[p] # None
  BY <1>2 DEF CommitStock, Commit, Held
<1>3. ASSUME NEW c \in Calls, Write(c) PROVE row'[p] # None
  BY <1>3 DEF Write, Commit, storeVars, Asked, StockInv, TypeOK, Amounts
<1>4. CASE UNCHANGED storeVars
  BY <1>4 DEF storeVars
<1> QED
  BY <1>1, <1>2, <1>3, <1>4
     DEF Next, CallStep, Expire, BeginStock, BeginUpdate, Fail, TakeItem, RefuseItem,
         Load, Invalidate, Read, Store, Miss, Replay, vars, storeVars, callVars

(* An update that goes on has read its product's row.                      *)
LEMMA FoundInvariant == Spec => []FoundInv
<1> USE ProductAssumption DEF ProductAssumption
<1>1. Init => FoundInv
  BY DEF Init, FoundInv, Found, Asked, Nothing, Calls
<1>2. StockInv /\ FoundInv /\ [Next]_vars => FoundInv'
  <2> SUFFICES ASSUME StockInv, FoundInv, [Next]_vars, NEW c \in Updates
               PROVE  Found(c)'
    BY DEF FoundInv
  <2>1. c \in Calls /\ c \notin StockCalls /\ Found(c)
    BY ProductAssumption DEF ProductAssumption, Calls, FoundInv
  <2>2. pc \in [Calls -> {"idle", "items", "load", "write", "delete"} \cup Ended]
    BY DEF StockInv, TypeOK
  <2>3. \A p \in Products : row[p] # None => row'[p] # None
    BY RowsStay
  <2>4. ASSUME pc'[c] = pc[c], want'[c] = want[c] PROVE Found(c)'
    BY <2>1, <2>3, <2>4 DEF Found, Asked
  <2>5. ASSUME pc'[c] \notin {"idle", "write"}, want' = want PROVE Found(c)'
    BY <2>1, <2>5 DEF Found, Asked
  <2>6. CASE BeginUpdate(c)
    <3>1. PICK p \in Products, n \in 0..MaxStock : want' = [want EXCEPT ![c][p] = n]
      BY <2>6 DEF BeginUpdate
    <3>2. Asked(c) = {} /\ pc'[c] = "load"
      BY <2>1, <2>2, <2>6 DEF BeginUpdate, Found
    <3>3. Asked(c)' \subseteq {p}
      BY <2>1, <3>1, <3>2 DEF Asked, StockInv, TypeOK, Amounts
    <3> QED
      BY <3>2, <3>3 DEF Found
  <2>7. CASE Load(c)
    <3>1. want' = want /\ row' = row
      BY <2>7 DEF Load, End, storeVars
    <3>2. \/ pc'[c] = "refused"
          \/ pc'[c] = "write" /\ \E p \in Asked(c) : row[p] # None
      BY <2>1, <2>2, <2>7 DEF Load, End
    <3> QED
      BY <2>1, <3>1, <3>2 DEF Found, Asked
  <2>8. CASE Write(c) \/ Invalidate(c) \/ Fail(c)
    BY <2>1, <2>2, <2>5, <2>8 DEF Write, Invalidate, Fail, End
  <2>9. ASSUME NEW d \in Calls, BeginStock(d) \/ TakeItem(d) \/ RefuseItem(d)
                                  \/ CommitStock(d)
        PROVE  pc'[c] = pc[c] /\ want'[c] = want[c]
    <3>1. d # c
      BY <2>1, <2>9
         DEF BeginStock, TakeItem, RefuseItem, CommitStock, HasNext, StockInv,
             UpdateInv, Ended
    <3>2. CASE BeginStock(d)
      <4>1. /\ pc' = [pc EXCEPT ![d] = "items"]
            /\ \E w : want' = [want EXCEPT ![d] = w]
        BY <3>2 DEF BeginStock
      <4> QED
        BY <2>1, <2>2, <3>1, <4>1 DEF StockInv, TypeOK
    <3>3. CASE TakeItem(d)
      BY <3>3 DEF TakeItem
    <3>4. CASE RefuseItem(d) \/ CommitStock(d)
      BY <2>1, <2>2, <3>1, <3>4 DEF RefuseItem, CommitStock, End
    <3> QED
      BY <2>9, <3>2, <3>3, <3>4
  <2>10. ASSUME NEW d \in Calls \ {c}, BeginUpdate(d) \/ Load(d) \/ Write(d)
                                         \/ Invalidate(d) \/ Fail(d)
         PROVE  pc'[c] = pc[c] /\ want'[c] = want[c]
    BY <2>1, <2>2, <2>10
       DEF BeginUpdate, Load, Write, Invalidate, Fail, End, StockInv, TypeOK
  <2>11. CASE UNCHANGED <<pc, want>>
    BY <2>4, <2>11
  <2> QED
    BY <2>4, <2>6, <2>7, <2>8, <2>9, <2>10, <2>11
       DEF Next, CallStep, Create, Expire, Read, Store, Miss, Replay, vars, callVars
<1> QED
  BY <1>1, <1>2, StockInvariant, PTL DEF Spec

(* An update's steps: refused without a row, set or kept at the write.     *)
LEMMA LedgerUpdates ==
    ASSUME StockInv, FoundInv, NEW c \in Calls, Load(c) \/ Write(c) \/ Invalidate(c)
    PROVE  \/ Ledger!Refuse(c)
           \/ c \in Updates /\ (Ledger!Set(c) \/ Ledger!Keep(c))
           \/ UNCHANGED Ledger!vars
<1> USE ProductAssumption DEF ProductAssumption
<1>1. c \in Updates
  BY DEF Load, Write, Invalidate, StockInv, ItemsInv, Calls, Ended
<1>2. Ledger!Asked(c) = Asked(c)
  BY DEF Ledger!Asked, Asked
<1>3. CASE Load(c)
  <2>1. /\ pc[c] = "load" /\ row' = row /\ want' = want
        /\ \/ pc' = [pc EXCEPT ![c] = "refused"] /\ \E p \in Asked(c) : row[p] = None
           \/ pc' = [pc EXCEPT ![c] = "write"]
    BY <1>3 DEF Load, End, storeVars
  <2>2. Outcome[c] = "asked"
    BY <2>1 DEF Outcome, Status
  <2>3. CASE pc' = [pc EXCEPT ![c] = "refused"] /\ \E p \in Asked(c) : row[p] = None
    <3>1. Outcome' = [Outcome EXCEPT ![c] = "refused"]
      BY <2>3, OutcomeStep DEF Status
    <3> QED
      BY <1>2, <2>1, <2>2, <2>3, <3>1 DEF Ledger!Refuse, Ledger!Ends
  <2>4. CASE pc' = [pc EXCEPT ![c] = "write"]
    <3>1. Outcome' = [Outcome EXCEPT ![c] = "asked"]
      BY <2>4, OutcomeStep DEF Status
    <3> QED
      BY <2>1, <2>2, <3>1 DEF Ledger!vars, Outcome
  <2> QED
    BY <2>1, <2>3, <2>4
<1>4. CASE Write(c)
  <2>1. /\ pc[c] = "write" /\ want' = want
        /\ pc' = [pc EXCEPT ![c] = "delete"]
        /\ \/ row' = row
           \/ \E p \in Asked(c) : row[p] # None /\ row' = [row EXCEPT ![p] = want[c][p]]
    BY <1>1, <1>4 DEF Write, End, Commit, storeVars, FoundInv, Found
  <2>2. Outcome[c] = "asked" /\ Outcome' = [Outcome EXCEPT ![c] = "done"]
    BY <2>1, OutcomeStep DEF Outcome, Status
  <2> QED
    BY <1>1, <1>2, <2>1, <2>2 DEF Ledger!Set, Ledger!Keep, Ledger!Ends
<1>5. CASE Invalidate(c)
  <2>1. /\ pc[c] = "delete" /\ row' = row /\ want' = want
        /\ pc' = [pc EXCEPT ![c] = "done"]
    BY <1>5 DEF Invalidate, End, storeVars
  <2>2. Outcome[c] = "done" /\ Outcome' = [Outcome EXCEPT ![c] = "done"]
    BY <2>1, OutcomeStep DEF Outcome, Status
  <2> QED
    BY <2>1, <2>2 DEF Ledger!vars, Outcome
<1> QED
  BY <1>3, <1>4, <1>5

(* A new product appears in the ledger.                                    *)
LEMMA LedgerCreates ==
    ASSUME StockInv, NEW p \in Products, Create(p)
    PROVE  Ledger!Create(p)
<1>1. PICK n \in 0..MaxStock : row' = [row EXCEPT ![p] = n]
  BY DEF Create, Commit
<1>2. row[p] = None /\ UNCHANGED <<want, pc>>
  BY DEF Create, callVars
<1>3. row'[p] \in Nat
  BY <1>1, ProductAssumption DEF ProductAssumption, StockInv, TypeOK, Amounts
<1>4. row' = [row EXCEPT ![p] = row'[p]]
  BY <1>1 DEF StockInv, TypeOK, Amounts
<1> QED
  BY <1>2, <1>3, <1>4 DEF Ledger!Create, Outcome

(* Each call is atomic: it takes or gives all it asked for at one instant, *)
(* or leaves the stock alone.                                              *)
THEOREM Refinement == Spec => ImplementsLedger
<1>1. Init => Ledger!Init
  BY ProductAssumption
  DEF ProductAssumption, Init, Ledger!Init, Ledger!Amounts, Ledger!Nothing,
      Ledger!Calls, Nothing, Calls, StockCalls, Outcome, Status
<1>2. StockInv /\ StockInv' /\ FoundInv /\ [Next]_vars => [Ledger!Next]_Ledger!vars
  <2> SUFFICES ASSUME StockInv, StockInv', FoundInv, [Next]_vars
               PROVE  [Ledger!Next]_Ledger!vars
    OBVIOUS
  <2> USE DEF Ledger!Next, Ledger!Calls, Calls, StockCalls
  <2>1. ASSUME NEW p \in Products, Create(p) PROVE Ledger!Next
    BY <2>1, LedgerCreates
  <2>2. ASSUME NEW c \in Calls, BeginStock(c) \/ BeginUpdate(c) PROVE Ledger!Next
    BY <2>2, LedgerAsks
  <2>3. ASSUME NEW c \in Calls, TakeItem(c) PROVE UNCHANGED Ledger!vars
    BY <2>3, LedgerUnchanged DEF TakeItem, storeVars
  <2>4. ASSUME NEW c \in Calls, RefuseItem(c) PROVE Ledger!Next
    BY <2>4, LedgerRefuses
  <2>5. ASSUME NEW c \in Calls, CommitStock(c) PROVE Ledger!Next
    BY <2>5, LedgerCommits
  <2>6. ASSUME NEW c \in Calls, Load(c) \/ Write(c) \/ Invalidate(c)
        PROVE  [Ledger!Next]_Ledger!vars
    BY <2>6, LedgerUpdates
  <2>7. ASSUME NEW c \in Calls, Fail(c) PROVE Ledger!Next
    BY <2>7, LedgerLoses
  <2>8. ASSUME NEW p \in Products, Expire(p) PROVE UNCHANGED Ledger!vars
    BY <2>8, LedgerUnchanged DEF Expire, storeVars, callVars
  <2>9. ASSUME NEW r \in Readers,
                Read(r) \/ Store(r) \/ \E p \in Products : Miss(r, p)
         PROVE  UNCHANGED Ledger!vars
    BY <2>9, LedgerUnchanged DEF Miss, Read, Store, storeVars, callVars
  <2>10. CASE Replay
    BY <2>10, LedgerUnchanged DEF Replay, callVars
  <2>11. CASE UNCHANGED vars
    BY <2>11, LedgerUnchanged DEF vars, storeVars, callVars
  <2> QED
    BY <2>1, <2>2, <2>3, <2>4, <2>5, <2>6, <2>7, <2>8, <2>9, <2>10, <2>11
       DEF Next, CallStep
<1> QED
  BY <1>1, <1>2, StockInvariant, FoundInvariant, PTL
     DEF Spec, ImplementsLedger, Ledger!Spec

(* What the ledger promises is what OrderSaga takes for granted of the     *)
(* Product service (ServeReserve, ServeRelease): stock is never oversold,  *)
(* a product's stock only moves when a call that asked for it is done,     *)
(* then as the whole of what it asked for, and no call is done twice.      *)
MovesWhole ==
    /\ \A c \in Calls : Outcome[c] \in Ended => Outcome'[c] = Outcome[c]
    /\ \A p \in Products :
         row[p] # None /\ row'[p] # row[p]
           => \E c \in Calls :
                /\ p \in Asked(c)
                /\ Outcome[c] = "asked" /\ Outcome'[c] = "done"
                /\ c \in StockCalls =>
                     \A q \in Asked(c) :
                       /\ row[q] # None
                       /\ \/ row'[q] = row[q] + want[c][q]
                          \/ c \in Reserves /\ row'[q] = row[q] - want[c][q]

(* StockLedger implies typed stock and MovesWhole.                         *)
THEOREM LedgerSuffices ==
    ImplementsLedger => [](row \in Amounts) /\ [][MovesWhole]_<<row, want, Outcome>>
<1> DEFINE Inv == row \in Amounts /\ want \in [Calls -> Amounts]
<1> USE ProductAssumption DEF ProductAssumption, Ledger!Calls, Calls, StockCalls, Ledger!Asked, Asked,
            Amounts, Ledger!Amounts
<1>1. Ledger!Init => Inv
  BY DEF Ledger!Init, Ledger!Nothing
<1>2. Inv /\ [Ledger!Next]_(Ledger!vars) => Inv' /\ [MovesWhole]_<<row, want, Outcome>>
  <2> SUFFICES ASSUME Inv, Ledger!Next PROVE Inv' /\ MovesWhole
    BY DEF Ledger!vars
  <2>1. Outcome = [c \in Calls |-> Outcome[c]]
    BY DEF Outcome
  <2>2. ASSUME NEW c \in Calls, NEW how, Ledger!Ends(c, how)
        PROVE  /\ Outcome[c] = "asked" /\ Outcome'[c] = how
               /\ \A d \in Calls : Outcome[d] \in Ended => Outcome'[d] = Outcome[d]
               /\ want' = want
    BY <2>1, <2>2 DEF Ledger!Ends, Ended
  <2>3. ASSUME NEW p \in Products, Ledger!Create(p) PROVE Inv' /\ MovesWhole
    <3>1. row[p] = None /\ row'[p] \in Nat /\ row' = [row EXCEPT ![p] = row'[p]]
      BY <2>3 DEF Ledger!Create
    <3> QED
      BY <2>3, <3>1 DEF Ledger!Create, MovesWhole
  <2>4. ASSUME NEW c \in Calls, Ledger!Ask(c) PROVE Inv' /\ MovesWhole
    BY <2>1, <2>4 DEF Ledger!Ask, MovesWhole, Ended
  <2>5. ASSUME NEW c \in Calls, Ledger!Refuse(c) \/ Ledger!Lose(c)
        PROVE  Inv' /\ MovesWhole
    BY <2>2, <2>5 DEF Ledger!Refuse, Ledger!Lose, MovesWhole
  <2>6. ASSUME NEW c \in Reserves, Ledger!Reserve(c) PROVE Inv' /\ MovesWhole
    <3>1. Inv'
      BY <2>2, <2>6 DEF Ledger!Reserve
    <3> QED
      BY <2>2, <2>6, <3>1 DEF Ledger!Reserve, MovesWhole
  <2>7. ASSUME NEW c \in Releases, Ledger!Release(c) PROVE Inv' /\ MovesWhole
    <3>1. Inv'
      BY <2>2, <2>7 DEF Ledger!Release
    <3> QED
      BY <2>2, <2>7, <3>1 DEF Ledger!Release, MovesWhole
  <2>8. ASSUME NEW c \in Updates, Ledger!Set(c) \/ Ledger!Keep(c)
        PROVE  Inv' /\ MovesWhole
    <3>1. c \notin StockCalls
      BY ProductAssumption DEF ProductAssumption
    <3> QED
      BY <2>2, <2>8, <3>1 DEF Ledger!Set, Ledger!Keep, MovesWhole
  <2> QED
    BY <2>3, <2>4, <2>5, <2>6, <2>7, <2>8 DEF Ledger!Next
<1>3. Inv => row \in Amounts
  OBVIOUS
<1> QED
  BY <1>1, <1>2, <1>3, PTL DEF ImplementsLedger, Ledger!Spec
=============================================================================
