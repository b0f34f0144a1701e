--------------------------- MODULE MlCacheProofs ---------------------------
(***************************************************************************)
(* Proofs about MlCache, for any number of workers, clients and writes.    *)
(*                                                                         *)
(* TypeOK is inductive by itself.  With it, HolderHasLock is inductive and *)
(* gives SingleFlight.  HeldIsPending, StaleIsPending and TypeOK together  *)
(* are inductive: what a client holds and what L2 has is removed by a      *)
(* write under way; once a write has removed it, nothing older is left to  *)
(* be stored, but for the clients the ghost `excused' records.             *)
(***************************************************************************)
EXTENDS MlCache, TLAPS

\* What a lookup finds in L2 is one of the two entries.
LEMMA FoundIsStored ==
  ASSUME TypeOK
  PROVE  /\ Found \in {hit, miss} /\ Found \in Entry
         /\ Found.fresh \in BOOLEAN /\ Found.version \in Int
BY DEF TypeOK, Found, Entry

LEMMA NoEntryType ==
  /\ NoVersion \in Int /\ NoVersion \notin Absent
  /\ NoEntry \in Entry /\ NoEntry.version = NoVersion /\ NoEntry.fresh = FALSE
BY MlCacheAssumption DEF MlCacheAssumption, NoVersion, NoEntry, Entry

\* Storing a version changes the dictionary of its kind, or nothing of the other.
LEMMA SetShmType ==
  ASSUME TypeOK, NEW v \in Int, SetShm(v)
  PROVE  /\ hit' \in Entry /\ miss' \in Entry
         /\ hit'.version \notin Absent
         /\ miss' # NoEntry => miss'.version \in Absent
         /\ hit' = hit \/ (hit'.version = v /\ v \notin Absent)
         /\ miss' = miss \/ (miss'.version = v /\ v \in Absent)
<1> DEFINE entry == [version |-> v, fresh |-> TRUE]
<1>1. entry \in Entry /\ entry.version = v
  BY DEF Entry
<1>2. CASE v \in Absent
  BY <1>1, <1>2 DEF SetShm, TypeOK
<1>3. CASE v \notin Absent
  BY <1>1, <1>3 DEF SetShm, TypeOK
<1> QED BY <1>2, <1>3

LEMMA ReturnType ==
  ASSUME TypeOK, NEW c \in Clients, Return(c)
  PROVE  /\ pc' \in [Clients -> {"idle", "locking", "calling", "storing", "warming"}]
         /\ held' \in [Clients -> Int]
BY NoEntryType DEF Return, TypeOK

LEMMA StoreType ==
  ASSUME TypeOK, NEW c \in Clients, StoreAndUnlock(c),
         UNCHANGED <<db, inbox, wpc, crashes, excused, unheard>>
  PROVE  TypeOK'
<1>1. held[c] \in Int
  BY DEF TypeOK
<1>2. /\ hit' \in Entry /\ miss' \in Entry
      /\ hit'.version \notin Absent
      /\ miss' # NoEntry => miss'.version \in Absent
  BY <1>1, SetShmType DEF StoreAndUnlock
<1>3. lru' \in [Workers -> Int] /\ lock' \in Clients \cup {Nobody}
  BY <1>1 DEF StoreAndUnlock, TypeOK
<1> QED BY <1>2, <1>3, ReturnType DEF StoreAndUnlock, TypeOK

\* Every variable keeps its type, and the dictionaries their kinds of entry.
THEOREM TypeCorrect == Spec => []TypeOK
<1>1. Init => TypeOK
  <2> SUFFICES ASSUME Init PROVE TypeOK
    OBVIOUS
  <2>1. db \in Nat /\ crashes \in Nat /\ excused \in BOOLEAN /\ unheard \subseteq Workers
    BY DEF Init
  <2>2. /\ hit \in Entry /\ miss \in Entry /\ hit.version \notin Absent
        /\ miss # NoEntry => miss.version \in Absent
    BY NoEntryType DEF Init
  <2>3. lru \in [Workers -> Int] /\ held \in [Clients -> Int]
    BY NoEntryType DEF Init
  <2>4. /\ inbox \in [Workers -> Nat] /\ lock \in Clients \cup {Nobody}
        /\ pc \in [Clients -> {"idle", "locking", "calling", "storing", "warming"}]
        /\ wpc \in [Workers -> {"idle", "committed", "hitDeleted"}]
    BY DEF Init
  <2> QED BY <2>1, <2>2, <2>3, <2>4 DEF TypeOK
<1>2. TypeOK /\ [Next]_vars => TypeOK'
  <2> SUFFICES ASSUME TypeOK, [Next]_vars PROVE TypeOK'
    OBVIOUS
  <2> USE MlCacheAssumption, FoundIsStored DEF MlCacheAssumption
  <2>1. ASSUME NEW c \in Clients, Lookup(c) PROVE TypeOK'
    BY <2>1 DEF Lookup, ServeFound, TypeOK, shm
  <2>2. ASSUME NEW c \in Clients, AcquireLock(c) PROVE TypeOK'
    BY <2>2, ReturnType DEF AcquireLock, ServeFound, TypeOK, shm
  <2>3. ASSUME NEW c \in Clients, LockTimesOut(c) PROVE TypeOK'
    BY <2>3, ReturnType DEF LockTimesOut, ServeFound, TypeOK, shm
  <2>4. ASSUME NEW c \in Clients, CallbackReads(c) PROVE TypeOK'
    BY <2>4 DEF CallbackReads, TypeOK, shm
  <2>5. ASSUME NEW c \in Clients, CallbackFails(c) PROVE TypeOK'
    <3>1. CASE StoreAndUnlock(c)
      BY <2>5, <3>1, StoreType DEF CallbackFails
    <3>2. CASE Return(c) /\ lock' = Nobody /\ UNCHANGED <<shm, lru>>
      BY <2>5, <3>2, ReturnType DEF CallbackFails, TypeOK, shm
    <3> QED BY <2>5, <3>1, <3>2 DEF CallbackFails
  <2>6. ASSUME NEW c \in Clients, Store(c) PROVE TypeOK'
    BY <2>6, StoreType DEF Store
  <2>7. ASSUME NEW c \in Clients, WarmupReads(c) PROVE TypeOK'
    BY <2>7 DEF WarmupReads, TypeOK, shm
  <2>8. ASSUME NEW c \in Clients, WarmupStores(c) PROVE TypeOK'
    <3>1. held[c] \in Int
      BY DEF TypeOK
    <3> QED BY <2>8, <3>1, SetShmType, ReturnType DEF WarmupStores, TypeOK
  <2>9. ASSUME NEW w \in Workers, Commit(w) PROVE TypeOK'
    BY <2>9 DEF Commit, TypeOK, shm
  <2>10. ASSUME NEW w \in Workers, DeleteHit(w) PROVE TypeOK'
    BY <2>10, NoEntryType DEF DeleteHit, TypeOK, Overtaken
  <2>11. ASSUME NEW w \in Workers, DeleteMiss(w) PROVE TypeOK'
    <3>1. inbox' \in [Workers -> Nat] /\ unheard' \subseteq Workers
      BY <2>11 DEF DeleteMiss, Broadcast, TypeOK
    <3> QED BY <2>11, <3>1, NoEntryType DEF DeleteMiss, TypeOK, Overtaken
  <2>12. ASSUME NEW w \in Workers, DeliverInvalidation(w) PROVE TypeOK'
    BY <2>12 DEF DeliverInvalidation, TypeOK, shm, NoVersion
  <2>13. ASSUME NEW w \in Workers, EvictLru(w) PROVE TypeOK'
    BY <2>13 DEF EvictLru, TypeOK, shm, NoVersion
  <2>14. ASSUME NEW w \in Workers, Crash(w) PROVE TypeOK'
    BY <2>14 DEF Crash, TypeOK, shm, NoVersion
  <2>15. CASE Expire
    <3>1. /\ hit' \in Entry /\ hit'.version = hit.version
          /\ miss' \in Entry /\ miss'.version = miss.version
      BY <2>15 DEF Expire, TypeOK, Entry
    <3>2. miss' # NoEntry => miss # NoEntry
      BY <2>15, NoEntryType DEF Expire
    <3> QED BY <2>15, <3>1, <3>2 DEF Expire, TypeOK
  <2>16. CASE EvictHit
    BY <2>16, NoEntryType DEF EvictHit, TypeOK
  <2>17. CASE EvictMiss
    BY <2>17, NoEntryType DEF EvictMiss, TypeOK
  <2>18. CASE LockExpires
    BY <2>18 DEF LockExpires, TypeOK, shm
  <2>19. CASE UNCHANGED vars
    BY <2>19 DEF vars, TypeOK, Entry
  <2> QED
    BY <2>1, <2>2, <2>3, <2>4, <2>5, <2>6, <2>7, <2>8, <2>9, <2>10, <2>11,
       <2>12, <2>13, <2>14, <2>15, <2>16, <2>17, <2>18, <2>19
       DEF Next, ClientStep, WorkerStep
<1> QED BY <1>1, <1>2, PTL DEF Spec

-----------------------------------------------------------------------------
\* Who runs the callback has the lock: as long as no callback outlasts it.
THEOREM LockIsHeld == Spec => []HolderHasLock
<1>1. Init => HolderHasLock
  BY DEF Init, HolderHasLock
<1>2. TypeOK /\ HolderHasLock /\ [Next]_vars => HolderHasLock'
  <2> SUFFICES ASSUME TypeOK, HolderHasLock, [Next]_vars, ~SlowReads,
                      NEW d \in Clients, pc'[d] \in {"calling", "storing"}
               PROVE  lock' = d
    BY DEF HolderHasLock
  <2> DEFINE Runs(c) == pc[c] \in {"calling", "storing"}
  <2>0. Runs(d) => lock = d
    BY DEF HolderHasLock
  <2>1. ASSUME NEW c \in Clients, ClientStep(c) PROVE lock' = d
    <3>1. CASE Lookup(c)
      BY <2>0, <3>1 DEF Lookup, TypeOK
    <3>2. CASE AcquireLock(c)
      <4>1. d # c => pc'[d] = pc[d]
        BY <3>2 DEF AcquireLock, Return, TypeOK
      <4>2. d # c => lock = d
        BY <4>1, <2>0
      <4>3. d = c
        BY <4>2, <3>2, MlCacheAssumption DEF AcquireLock, MlCacheAssumption
      <4>4. ~Found.fresh
        BY <4>3, <3>2 DEF AcquireLock, Return, TypeOK
      <4> QED BY <4>3, <4>4, <3>2 DEF AcquireLock
    <3>3. CASE LockTimesOut(c)
      BY <2>0, <3>3 DEF LockTimesOut, Return, TypeOK
    <3>4. CASE CallbackReads(c)
      BY <2>0, <3>4 DEF CallbackReads, TypeOK
    <3>5. CASE CallbackFails(c) \/ Store(c)
      <4>1. Return(c) /\ Runs(c)
        BY <3>5 DEF CallbackFails, Store, StoreAndUnlock
      <4>2. d # c /\ Runs(d)
        BY <4>1 DEF Return, TypeOK
      <4> QED BY <4>1, <4>2 DEF HolderHasLock
    <3>6. CASE WarmupReads(c)
      BY <2>0, <3>6 DEF WarmupReads, TypeOK
    <3>7. CASE WarmupStores(c)
      BY <2>0, <3>7 DEF WarmupStores, Return, TypeOK
    <3> QED BY <2>1, <3>1, <3>2, <3>3, <3>4, <3>5, <3>6, <3>7 DEF ClientStep
  <2>2. ASSUME NEW w \in Workers, WorkerStep(w) PROVE lock' = d
    <3>1. UNCHANGED <<pc, lock>> => lock' = d
      BY <2>0
    <3>2. CASE Crash(w)
      BY <2>0, <3>2 DEF Crash
    <3> QED BY <2>2, <3>1, <3>2 DEF WorkerStep, Commit, DeleteHit, DeleteMiss,
              DeliverInvalidation, EvictLru
  <2>3. CASE LockExpires
    BY <2>0, <2>3 DEF LockExpires
  <2>4. CASE Expire \/ EvictHit \/ EvictMiss \/ UNCHANGED vars
    BY <2>0, <2>4 DEF Expire, EvictHit, EvictMiss, vars
  <2> QED BY <2>1, <2>2, <2>3, <2>4 DEF Next
<1> QED BY <1>1, <1>2, TypeCorrect, PTL DEF Spec

\* One coroutine of the node at a time runs the callback.
THEOREM OneCallback == Spec => []SingleFlight
<1>1. HolderHasLock => SingleFlight
  BY DEF HolderHasLock, SingleFlight
<1> QED BY <1>1, LockIsHeld, PTL

-----------------------------------------------------------------------------
\* The parts of StaleIsPending, about the entries and about the LRUs.
Removable(v) == v \notin {NoVersion, db} => Pending(v)
LruIsPending ==
  \A w \in Workers \ unheard : lru[w] \notin {NoVersion, db} =>
    inbox[w] > 0 \/ \E u \in Workers : wpc[u] # "idle"

FreshInv ==
  /\ TypeOK
  /\ ~excused => /\ \A c \in Clients : Removable(held[c])
                 /\ Removable(hit.version) /\ Removable(miss.version)
                 /\ LruIsPending

\* The steps of clients and the environment: whatever they put in a cache or in
\* a client's hand came from a client, from a cache or from the database.
LEMMA MovesKeepFresh ==
  ASSUME FreshInv, TypeOK', UNCHANGED <<db, wpc, excused>>,
         \A c \in Clients : \/ held'[c] \in {NoVersion, db, hit.version, miss.version}
                           \/ held'[c] = held[c],
         hit'.version \in {NoVersion, hit.version} \cup {held[c] : c \in Clients},
         miss'.version \in {NoVersion, miss.version} \cup {held[c] : c \in Clients},
         \A w \in Workers :
           \/ inbox'[w] = inbox[w] /\ lru'[w] = lru[w] /\ (w \in unheard => w \in unheard')
           \/ lru'[w] \in {NoVersion, hit.version, miss.version}
                          \cup {held[c] : c \in Clients}
  PROVE  FreshInv'
<1> SUFFICES ASSUME ~excused
             PROVE  /\ \A c \in Clients : Removable(held[c])'
                    /\ Removable(hit.version)' /\ Removable(miss.version)'
                    /\ LruIsPending'
  BY DEF FreshInv
<1>0. /\ \A c \in Clients : Removable(held[c])
      /\ Removable(hit.version) /\ Removable(miss.version) /\ LruIsPending
  BY DEF FreshInv
<1>1. \A c \in Clients : Removable(held[c])'
  BY <1>0 DEF Removable, Pending
<1>2. Removable(hit.version)'
  BY <1>0 DEF Removable, Pending
<1>3. Removable(miss.version)'
  BY <1>0 DEF Removable, Pending
<1>4. ASSUME NEW w \in Workers \ unheard', lru'[w] \notin {NoVersion, db'}
      PROVE  inbox'[w] > 0 \/ \E u \in Workers : wpc'[u] # "idle"
  <2>1. CASE inbox'[w] = inbox[w] /\ lru'[w] = lru[w] /\ (w \in unheard => w \in unheard')
    BY <1>0, <1>4, <2>1 DEF LruIsPending
  <2>2. CASE lru'[w] \in {hit.version, miss.version} \cup {held[c] : c \in Clients}
    <3>1. Pending(lru'[w])
      BY <1>0, <1>4, <2>2 DEF Removable
    <3> QED BY <3>1 DEF Pending
  <2> QED BY <1>4, <2>1, <2>2
<1> QED BY <1>1, <1>2, <1>3, <1>4 DEF LruIsPending

LEMMA ClientsKeepFresh ==
  ASSUME FreshInv, TypeOK', NEW c \in Clients, ClientStep(c)
  PROVE  FreshInv'
<1> USE MlCacheAssumption DEF MlCacheAssumption
<1>0. UNCHANGED <<db, wpc, excused, inbox, unheard>>
  BY DEF ClientStep, Lookup, AcquireLock, LockTimesOut, CallbackReads,
         CallbackFails, Store, WarmupReads, WarmupStores
<1> DEFINE Held == {held[d] : d \in Clients}
<1>1. TypeOK /\ Found \in {hit, miss} /\ held[c] \in Held /\ held[c] \in Int
  BY FoundIsStored DEF FreshInv, TypeOK
<1>2. ASSUME ServeFound(c) \/ UNCHANGED lru
      PROVE  \A w \in Workers : lru'[w] = lru[w] \/ lru'[w] \in {hit.version, miss.version}
  BY <1>1, <1>2 DEF ServeFound, TypeOK
<1>3. ASSUME Return(c) PROVE \A d \in Clients : held'[d] \in {NoVersion, held[d]}
  BY <1>1, <1>3 DEF Return, TypeOK
<1>4. ASSUME SetShm(held[c])
      PROVE  hit'.version \in {hit.version} \cup Held /\ miss'.version \in {miss.version} \cup Held
  BY <1>1, <1>4, SetShmType
<1>5. CASE Lookup(c)
  <2>1. \A d \in Clients : held'[d] \in {held[d], hit.version, miss.version}
    BY <1>1, <1>5 DEF Lookup, TypeOK
  <2> QED BY <1>0, <1>2, <1>5, <2>1, MovesKeepFresh DEF Lookup, shm
<1>6. CASE AcquireLock(c)
  BY <1>0, <1>2, <1>3, <1>6, MovesKeepFresh DEF AcquireLock, shm
<1>7. CASE LockTimesOut(c)
  BY <1>0, <1>2, <1>3, <1>7, MovesKeepFresh DEF LockTimesOut, shm
<1>8. CASE CallbackReads(c) \/ WarmupReads(c)
  <2>1. \A d \in Clients : held'[d] \in {held[d], db}
    BY <1>1, <1>8 DEF CallbackReads, WarmupReads, TypeOK
  <2> QED BY <1>0, <1>8, <2>1, MovesKeepFresh DEF CallbackReads, WarmupReads, shm
<1>9. CASE StoreAndUnlock(c)
  <2>1. \A w \in Workers : lru'[w] = lru[w] \/ lru'[w] \in Held
    BY <1>1, <1>9 DEF StoreAndUnlock, TypeOK
  <2> QED BY <1>0, <1>3, <1>4, <1>9, <2>1, MovesKeepFresh DEF StoreAndUnlock
<1>10. CASE Return(c) /\ UNCHANGED <<shm, lru>>
  BY <1>0, <1>3, <1>10, MovesKeepFresh DEF shm
<1>11. CASE WarmupStores(c)
  BY <1>0, <1>3, <1>4, <1>11, MovesKeepFresh DEF WarmupStores
<1> QED BY <1>5, <1>6, <1>7, <1>8, <1>9, <1>10, <1>11
        DEF ClientStep, CallbackFails, Store

\* The steps of a write: a commit makes everything removable; each deletion
\* leaves of its kind only what another write is still to remove.
LEMMA WritesKeepFresh ==
  ASSUME FreshInv, TypeOK', NEW w \in Workers,
         Commit(w) \/ DeleteHit(w) \/ DeleteMiss(w)
  PROVE  FreshInv'
<1> SUFFICES ASSUME ~excused'
             PROVE  /\ \A c \in Clients : Removable(held[c])'
                    /\ Removable(hit.version)' /\ Removable(miss.version)'
                    /\ LruIsPending'
  BY DEF FreshInv
<1>0. ~excused
  BY DEF Commit, DeleteHit, DeleteMiss
<1>1. /\ TypeOK
      /\ \A c \in Clients : Removable(held[c])
      /\ Removable(hit.version) /\ Removable(miss.version) /\ LruIsPending
  BY <1>0 DEF FreshInv
<1>2. \A u \in Workers \ {w} : wpc'[u] = wpc[u]
  BY <1>1 DEF Commit, DeleteHit, DeleteMiss, TypeOK
<1>3. CASE Commit(w)
  <2>1. wpc'[w] = "committed"
    BY <1>1, <1>3 DEF Commit, TypeOK
  <2> QED BY <2>1 DEF Removable, Pending, LruIsPending
<1>4. CASE DeleteHit(w)
  <2>1. wpc'[w] = "hitDeleted" /\ wpc[w] = "committed" /\ UNCHANGED <<db, held, miss>>
    BY <1>1, <1>4 DEF DeleteHit, TypeOK
  <2>2. ASSUME NEW v, OthersWill(w, v) PROVE Pending(v)'
    BY <1>2, <2>2 DEF OthersWill, Pending
  <2>3. ASSUME NEW v \in Absent PROVE Pending(v)'
    BY <2>1 DEF Pending
  <2>4. ~Overtaken(w, FALSE)
    BY <1>4 DEF DeleteHit
  <2>5. ASSUME NEW c \in Clients PROVE Removable(held[c])'
    BY <2>1, <2>2, <2>3, <2>4 DEF Overtaken, Removable
  <2>6. Removable(hit.version)'
    BY <1>4, NoEntryType DEF DeleteHit, Removable
  <2>7. Removable(miss.version)'
    BY <1>1, <2>1, <2>3, NoEntryType DEF Removable, TypeOK
  <2>8. LruIsPending'
    BY <2>1 DEF LruIsPending
  <2> QED BY <2>5, <2>6, <2>7, <2>8
<1>5. CASE DeleteMiss(w)
  <2>1. wpc[w] = "hitDeleted" /\ UNCHANGED <<db, held, hit>>
    BY <1>5 DEF DeleteMiss
  <2>2. ASSUME NEW v, OthersWill(w, v) PROVE Pending(v)'
    BY <1>2, <2>2 DEF OthersWill, Pending
  <2>3. ASSUME NEW v, v \notin Absent, Pending(v) PROVE Pending(v)'
    BY <1>2, <2>1, <2>3 DEF Pending
  <2>4. ~Overtaken(w, TRUE)
    BY <1>5 DEF DeleteMiss
  <2>5. ASSUME NEW c \in Clients PROVE Removable(held[c])'
    BY <1>1, <2>1, <2>2, <2>3, <2>4 DEF Overtaken, Removable
  <2>6. Removable(hit.version)'
    BY <1>1, <2>1, <2>3 DEF Removable, TypeOK
  <2>7. Removable(miss.version)'
    BY <1>5, NoEntryType DEF DeleteMiss, Removable
  <2>8. LruIsPending'
    <3>1. /\ lru'[w] = NoVersion /\ \A u \in Workers \ {w} : lru'[u] = lru[u]
          /\ inbox \in [Workers -> Nat] /\ Broadcast(w)
      BY <1>1, <1>5 DEF DeleteMiss, TypeOK
    <3>2. CASE inbox' = [u \in Workers |-> inbox[u] + 1]
      <4>1. \A u \in Workers : inbox'[u] > 0
        BY <3>1, <3>2
      <4> QED BY <4>1 DEF LruIsPending
    <3>3. CASE /\ unheard' = (unheard \ {w}) \cup
                      {u \in Workers \ {w} : inbox[u] = 0 /\ lru[u] \notin {NoVersion, db}}
               /\ UNCHANGED inbox
      <4>1. \A u \in Workers \ unheard' :
              lru'[u] \notin {NoVersion, db'} => inbox'[u] > 0
        BY <2>1, <3>1, <3>3
      <4> QED BY <4>1 DEF LruIsPending
    <3> QED BY <3>1, <3>2, <3>3 DEF Broadcast
  <2> QED BY <2>5, <2>6, <2>7, <2>8
<1> QED BY <1>3, <1>4, <1>5

\* An old version is cached only while its invalidation is on its way.
THEOREM OldIsOnItsWayOut == Spec => []StaleIsPending
<1>1. Init => FreshInv
  <2> SUFFICES ASSUME Init PROVE FreshInv
    OBVIOUS
  <2>1. TypeOK
    BY NoEntryType DEF Init, TypeOK
  <2>2. /\ hit.version = NoVersion /\ miss.version = NoVersion
        /\ \A c \in Clients : held[c] = NoVersion
        /\ \A w \in Workers : lru[w] = NoVersion
    BY NoEntryType DEF Init
  <2> QED BY <2>1, <2>2 DEF FreshInv, Removable, LruIsPending
<1>2. FreshInv /\ TypeOK' /\ [Next]_vars => FreshInv'
  <2> SUFFICES ASSUME FreshInv, TypeOK', [Next]_vars PROVE FreshInv'
    OBVIOUS
  <2>0. TypeOK
    BY DEF FreshInv
  <2>1. ASSUME NEW c \in Clients, ClientStep(c) PROVE FreshInv'
    BY <2>1, ClientsKeepFresh
  <2>2. ASSUME NEW w \in Workers, WorkerStep(w) PROVE FreshInv'
    <3>1. CASE Commit(w) \/ DeleteHit(w) \/ DeleteMiss(w)
      BY <3>1, WritesKeepFresh
    <3>2. CASE DeliverInvalidation(w) \/ EvictLru(w)
      <4>1. \A u \in Workers :
              \/ inbox'[u] = inbox[u] /\ lru'[u] = lru[u] /\ (u \in unheard => u \in unheard')
              \/ lru'[u] = NoVersion
        BY <2>0, <3>2 DEF DeliverInvalidation, EvictLru, TypeOK
      <4> QED BY <3>2, <4>1, MovesKeepFresh DEF DeliverInvalidation, EvictLru, shm
    <3>3. CASE Crash(w)
      <4>1. CASE excused'
        BY <4>1 DEF FreshInv
      <4>2. CASE ~excused'
        <5>1. UNCHANGED <<db, hit, miss>> /\ wpc[w] = "idle" /\ ~excused
          BY <3>3, <4>2 DEF Crash, shm
        <5>2. wpc' = wpc
          BY <2>0, <3>3, <5>1 DEF Crash, TypeOK
        <5>3. \A c \in Clients : held'[c] \in {NoVersion, held[c]}
          BY <2>0, <3>3 DEF Crash, TypeOK
        <5>4. \A u \in Workers :
                \/ inbox'[u] = inbox[u] /\ lru'[u] = lru[u] /\ (u \in unheard => u \in unheard')
                \/ lru'[u] = NoVersion
          BY <2>0, <3>3 DEF Crash, TypeOK
        <5>5. excused' = excused
          BY <2>0, <4>2, <5>1 DEF TypeOK
        <5> QED BY <5>1, <5>2, <5>3, <5>4, <5>5, MovesKeepFresh
      <4> QED BY <4>1, <4>2
    <3> QED BY <2>2, <3>1, <3>2, <3>3 DEF WorkerStep
  <2>3. CASE Expire
    <3>1. hit'.version = hit.version /\ miss'.version = miss.version
      BY <2>0, <2>3 DEF Expire, TypeOK, Entry
    <3> QED BY <2>3, <3>1, MovesKeepFresh DEF Expire
  <2>4. CASE EvictHit \/ EvictMiss
    BY <2>4, NoEntryType, MovesKeepFresh DEF EvictHit, EvictMiss
  <2>5. CASE LockExpires
    BY <2>5, MovesKeepFresh DEF LockExpires, shm
  <2>6. CASE UNCHANGED vars
    BY <2>6, MovesKeepFresh DEF vars
  <2> QED BY <2>1, <2>2, <2>3, <2>4, <2>5, <2>6 DEF Next
<1>3. FreshInv => StaleIsPending
  BY DEF FreshInv, StaleIsPending, Removable, LruIsPending
<1> QED BY <1>1, <1>2, <1>3, TypeCorrect, PTL DEF Spec
=============================================================================
