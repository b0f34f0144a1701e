------------------------------ MODULE MlCache ------------------------------
(***************************************************************************)
(* One key of kong.cache on one node (kong/cache, kong/resty/mlcache): the *)
(* LRU of every worker (L1), the two shared dictionaries for entities and  *)
(* for misses (L2), the database (L3), the lock that lets one coroutine    *)
(* fill the key, and the invalidation that follows a write.                *)
(*                                                                         *)
(* The entity is a version number: the database holds version `db', which  *)
(* does not exist when it is in Absent.  A get that runs the callback is a *)
(* client; what it has read and may still store is held[c].                *)
(*                                                                         *)
(* A shm write that runs out of memory leaves what EvictHit or EvictMiss   *)
(* leaves, and a get served by L1 changes nothing: neither is an action.   *)
(***************************************************************************)
EXTENDS Integers, FiniteSets

CONSTANTS
  Workers, Clients,
  WorkerOf,       \* the worker each client runs in
  Nobody,
  Absent,         \* the versions in which the entity does not exist
  Warmers,        \* the clients that may run the cache warmup
  Expiring,       \* whether db_cache_ttl is set
  FailingReads,   \* whether the callback may return an error
  SlowReads,      \* whether the callback may outlast the lock's exptime
  FailingPosts,   \* whether posting an event to the workers may fail
  MaxWrites,      \* bound: how many writes the database sees
  MaxCrashes      \* bound: how many workers crash

ASSUME MlCacheAssumption ==
  /\ WorkerOf \in [Clients -> Workers]
  /\ Nobody \notin Clients
  /\ Absent \subseteq Nat /\ Warmers \subseteq Clients
  /\ {Expiring, FailingReads, SlowReads, FailingPosts} \subseteq BOOLEAN
  /\ MaxWrites \in Nat /\ MaxCrashes \in Nat

VARIABLES
  db,      \* the version in the database
  hit,     \* the entry of shm, for an entity
  miss,    \* the entry of shm_miss, for an entity that does not exist
  lru,     \* lru[w]: the version in the worker's LRU, or NoVersion
  inbox,   \* inbox[w]: invalidation events not yet delivered to the worker
  lock,    \* the holder of the resty.lock, or Nobody
  pc,      \* pc[c]: "idle", "locking", "calling", "storing", "warming"
  held,    \* held[c]: the expired version the lookup saw, then what was read
  wpc,     \* wpc[w]: the write in the worker: "idle", "committed", "hitDeleted"
  crashes,
  excused, \* ghost: an invalidation was lost in a crash, or passed while a
           \* client held the version it was to remove
  unheard  \* ghost: the workers whose L1 was old when a post to them failed

vars == <<db, hit, miss, lru, inbox, lock, pc, held, wpc, crashes, excused,
          unheard>>
shm == <<hit, miss>>

NoVersion == -1
NoEntry == [version |-> NoVersion, fresh |-> FALSE]
Entry == [version : Int, fresh : BOOLEAN]

Init ==
  /\ db = 0
  /\ hit = NoEntry /\ miss = NoEntry
  /\ lru = [w \in Workers |-> NoVersion]
  /\ inbox = [w \in Workers |-> 0]
  /\ lock = Nobody
  /\ pc = [c \in Clients |-> "idle"]
  /\ held = [c \in Clients |-> NoVersion]
  /\ wpc = [w \in Workers |-> "idle"]
  /\ crashes = 0
  /\ excused = FALSE
  /\ unheard = {}

-----------------------------------------------------------------------------
(* get *)

\* get_stale on shm, then on shm_miss: an expired entity hides a miss.
Found == IF hit # NoEntry THEN hit ELSE miss

\* get_shm_set_lru found a fresh entry.
ServeFound(c) == lru' = [lru EXCEPT ![WorkerOf[c]] = Found.version]

Return(c) ==
  /\ pc' = [pc EXCEPT ![c] = "idle"]
  /\ held' = [held EXCEPT ![c] = NoVersion]

\* get misses L1 and goes to L2.
Lookup(c) ==
  /\ pc[c] = "idle" /\ lru[WorkerOf[c]] = NoVersion
  /\ IF Found.fresh
     THEN ServeFound(c) /\ UNCHANGED <<pc, held>>
     ELSE /\ pc' = [pc EXCEPT ![c] = "locking"]
          /\ held' = [held EXCEPT ![c] = Found.version]
          /\ UNCHANGED lru
  /\ UNCHANGED <<db, shm, inbox, lock, wpc, crashes, excused, unheard>>

\* Mutant: the callback runs without the lock.
AcquireLockAlways(c) ==
  /\ pc[c] = "locking"
  /\ pc' = [pc EXCEPT ![c] = "calling"]
  /\ lock' = c
  /\ UNCHANGED <<db, shm, lru, inbox, held, wpc, crashes, excused, unheard>>
\* run_callback gets the lock and looks again for another worker's success.
AcquireLock(c) ==
  /\ pc[c] = "locking" /\ lock = Nobody
  /\ IF Found.fresh
     THEN ServeFound(c) /\ Return(c) /\ UNCHANGED lock
     ELSE /\ pc' = [pc EXCEPT ![c] = "calling"]
          /\ lock' = c
          /\ UNCHANGED <<lru, held>>
  /\ UNCHANGED <<db, shm, inbox, wpc, crashes, excused, unheard>>

\* Mutant: a wait that times out starts again.
LockTimesOutWaits(c) ==
  /\ pc[c] = "locking" /\ lock # Nobody
  /\ UNCHANGED vars
\* The wait for the lock times out: what is in L2 by now is served, else the
\* expired value or an error is returned; nothing is stored.
LockTimesOut(c) ==
  /\ pc[c] = "locking" /\ lock # Nobody
  /\ IF Found.fresh THEN ServeFound(c) ELSE UNCHANGED lru
  /\ Return(c)
  /\ UNCHANGED <<db, shm, inbox, lock, wpc, crashes, excused, unheard>>

CallbackReads(c) ==
  /\ pc[c] = "calling"
  /\ pc' = [pc EXCEPT ![c] = "storing"]
  /\ held' = [held EXCEPT ![c] = db]
  /\ UNCHANGED <<db, shm, lru, inbox, lock, wpc, crashes, excused, unheard>>

\* Mutant: misses are written to shm.
SetShmOnly(v) == hit' = [version |-> v, fresh |-> TRUE] /\ UNCHANGED miss
\* set_shm writes to the dictionary of v's kind and leaves the other alone.
SetShm(v) ==
  LET entry == [version |-> v, fresh |-> TRUE]
  IN  IF v \in Absent THEN miss' = entry /\ UNCHANGED hit
      ELSE hit' = entry /\ UNCHANGED miss

\* set_shm_set_lru, unlock_and_ret: unlock deletes the lock's key whoever set it.
StoreAndUnlock(c) ==
  /\ SetShm(held[c])
  /\ lru' = [lru EXCEPT ![WorkerOf[c]] = held[c]]
  /\ lock' = Nobody
  /\ Return(c)

Store(c) ==
  /\ pc[c] = "storing"
  /\ StoreAndUnlock(c)
  /\ UNCHANGED <<db, inbox, wpc, crashes, excused, unheard>>

\* The callback returns an error: the expired value of the lookup is stored
\* again for resurrect_ttl.  Without one, or if it raises, get returns an error.
CallbackFails(c) ==
  /\ pc[c] = "calling" /\ FailingReads
  /\ \/ held[c] # NoVersion /\ StoreAndUnlock(c)
     \/ Return(c) /\ lock' = Nobody /\ UNCHANGED <<shm, lru>>
  /\ UNCHANGED <<db, inbox, wpc, crashes, excused, unheard>>

-----------------------------------------------------------------------------
(* Warmup: reads a page of entities and stores them without the lock. *)

WarmupReads(c) ==
  /\ c \in Warmers /\ pc[c] = "idle" /\ db \notin Absent
  /\ pc' = [pc EXCEPT ![c] = "warming"]
  /\ held' = [held EXCEPT ![c] = db]
  /\ UNCHANGED <<db, shm, lru, inbox, lock, wpc, crashes, excused, unheard>>

WarmupStores(c) ==
  /\ pc[c] = "warming"
  /\ SetShm(held[c])
  /\ Return(c)
  /\ UNCHANGED <<db, lru, inbox, lock, wpc, crashes, excused, unheard>>

-----------------------------------------------------------------------------
(* Writes and their invalidation *)

\* The event reaches every worker, or none: a failing post is only logged.
Broadcast(w) ==
  \/ /\ inbox' = [u \in Workers |-> inbox[u] + 1]
     /\ unheard' = unheard \ {w}
  \/ /\ FailingPosts
     /\ unheard' = (unheard \ {w}) \cup
          {u \in Workers \ {w} : inbox[u] = 0 /\ lru[u] \notin {NoVersion, db}}
     /\ UNCHANGED inbox

\* An entity is written; the CRUD event is then handled in the same worker.
Commit(w) ==
  /\ wpc[w] = "idle" /\ db < MaxWrites
  /\ db' = db + 1
  /\ wpc' = [wpc EXCEPT ![w] = "committed"]
  /\ UNCHANGED <<shm, lru, inbox, lock, pc, held, crashes, excused, unheard>>

\* A worker other than w is still to remove a version of v's kind.
OthersWill(w, v) ==
  \E u \in Workers \ {w} :
    wpc[u] = "committed" \/ (v \in Absent /\ wpc[u] = "hitDeleted")

Overtaken(w, absent) ==
  \E c \in Clients : /\ held[c] \notin {NoVersion, db}
                     /\ (held[c] \in Absent) = absent
                     /\ ~OthersWill(w, held[c])

\* mlcache:delete, from shm ...
DeleteHit(w) ==
  /\ wpc[w] = "committed"
  /\ hit' = NoEntry
  /\ wpc' = [wpc EXCEPT ![w] = "hitDeleted"]
  /\ excused' = (excused \/ Overtaken(w, FALSE))
  /\ UNCHANGED <<db, miss, lru, inbox, lock, pc, held, crashes, unheard>>

\* Mutant: the events are not posted.
DeleteMissSilent(w) ==
  /\ wpc[w] = "hitDeleted"
  /\ miss' = NoEntry
  /\ lru' = [lru EXCEPT ![w] = NoVersion]
  /\ wpc' = [wpc EXCEPT ![w] = "idle"]
  /\ excused' = (excused \/ Overtaken(w, TRUE))
  /\ UNCHANGED <<db, hit, inbox, lock, pc, held, crashes, unheard>>
\* ... from shm_miss and the worker's LRU; then an event is posted to all.
DeleteMiss(w) ==
  /\ wpc[w] = "hitDeleted"
  /\ miss' = NoEntry
  /\ lru' = [lru EXCEPT ![w] = NoVersion]
  /\ Broadcast(w)
  /\ wpc' = [wpc EXCEPT ![w] = "idle"]
  /\ excused' = (excused \/ Overtaken(w, TRUE))
  /\ UNCHANGED <<db, hit, lock, pc, held, crashes>>

\* Mutant: the event does not reach the LRU.
DeliverNothing(w) ==
  /\ inbox[w] > 0
  /\ inbox' = [inbox EXCEPT ![w] = @ - 1]
  /\ UNCHANGED <<db, shm, lru, lock, pc, held, wpc, crashes, excused, unheard>>
DeliverInvalidation(w) ==
  /\ inbox[w] > 0
  /\ inbox' = [inbox EXCEPT ![w] = @ - 1]
  /\ lru' = [lru EXCEPT ![w] = NoVersion]
  /\ unheard' = unheard \ {w}
  /\ UNCHANGED <<db, shm, lock, pc, held, wpc, crashes, excused>>

-----------------------------------------------------------------------------
(* The environment *)

Expire ==
  /\ Expiring
  /\ \/ hit.fresh /\ hit' = [hit EXCEPT !.fresh = FALSE] /\ UNCHANGED miss
     \/ miss.fresh /\ miss' = [miss EXCEPT !.fresh = FALSE] /\ UNCHANGED hit
  /\ UNCHANGED <<db, lru, inbox, lock, pc, held, wpc, crashes, excused, unheard>>

EvictHit ==
  /\ hit # NoEntry /\ hit' = NoEntry
  /\ UNCHANGED <<db, miss, lru, inbox, lock, pc, held, wpc, crashes, excused, unheard>>

EvictMiss ==
  /\ miss # NoEntry /\ miss' = NoEntry
  /\ UNCHANGED <<db, hit, lru, inbox, lock, pc, held, wpc, crashes, excused, unheard>>

EvictLru(w) ==
  /\ lru[w] # NoVersion
  /\ lru' = [lru EXCEPT ![w] = NoVersion]
  /\ unheard' = unheard \ {w}
  /\ UNCHANGED <<db, shm, inbox, lock, pc, held, wpc, crashes, excused>>

\* The lock's exptime passes: its holder died, or its callback is slow.
LockExpires ==
  /\ lock # Nobody
  /\ SlowReads \/ pc[lock] \notin {"calling", "storing"}
  /\ lock' = Nobody
  /\ UNCHANGED <<db, shm, lru, inbox, pc, held, wpc, crashes, excused, unheard>>

\* A worker dies with all its coroutines and is respawned.
Crash(w) ==
  /\ crashes < MaxCrashes
  /\ crashes' = crashes + 1
  /\ pc' = [c \in Clients |-> IF WorkerOf[c] = w THEN "idle" ELSE pc[c]]
  /\ held' = [c \in Clients |-> IF WorkerOf[c] = w THEN NoVersion ELSE held[c]]
  /\ lru' = [lru EXCEPT ![w] = NoVersion]
  /\ inbox' = [inbox EXCEPT ![w] = 0]
  /\ wpc' = [wpc EXCEPT ![w] = "idle"]
  /\ excused' = (excused \/ wpc[w] # "idle")
  /\ unheard' = unheard \ {w}
  /\ UNCHANGED <<db, shm, lock>>

-----------------------------------------------------------------------------
ClientStep(c) ==
  \/ Lookup(c) \/ AcquireLock(c) \/ LockTimesOut(c)
  \/ CallbackReads(c) \/ CallbackFails(c) \/ Store(c)
  \/ WarmupReads(c) \/ WarmupStores(c)

WorkerStep(w) ==
  \/ Commit(w) \/ DeleteHit(w) \/ DeleteMiss(w) \/ DeliverInvalidation(w)
  \/ EvictLru(w) \/ Crash(w)

Next ==
  \/ \E c \in Clients : ClientStep(c)
  \/ \E w \in Workers : WorkerStep(w)
  \/ Expire \/ EvictHit \/ EvictMiss \/ LockExpires

Spec == Init /\ [][Next]_vars

\* Coroutines run on, the lock's wait is bounded by its timeout and its life
\* by its exptime, and worker events are delivered.
FairSpec ==
  /\ Spec
  /\ \A c \in Clients :
       /\ WF_vars(AcquireLock(c) \/ LockTimesOut(c))
       /\ WF_vars(CallbackReads(c) \/ CallbackFails(c))
       /\ WF_vars(Store(c)) /\ WF_vars(WarmupStores(c))
  /\ \A w \in Workers : WF_vars(DeleteHit(w)) /\ WF_vars(DeleteMiss(w))
                        /\ WF_vars(DeliverInvalidation(w))
  /\ WF_vars(LockExpires)

-----------------------------------------------------------------------------
(* Properties *)

\* The values of the variables; shm holds only entities, shm_miss only misses.
TypeOK ==
  /\ db \in Nat
  /\ hit \in Entry /\ miss \in Entry
  /\ hit.version \notin Absent
  /\ miss # NoEntry => miss.version \in Absent
  /\ lru \in [Workers -> Int]
  /\ inbox \in [Workers -> Nat]
  /\ lock \in Clients \cup {Nobody}
  /\ pc \in [Clients -> {"idle", "locking", "calling", "storing", "warming"}]
  /\ held \in [Clients -> Int]
  /\ wpc \in [Workers -> {"idle", "committed", "hitDeleted"}]
  /\ crashes \in Nat /\ excused \in BOOLEAN /\ unheard \subseteq Workers

\* One coroutine of the node at a time runs the callback of a key ("single
\* worker to run it"), unless a callback outlasts the lock; a crash of the
\* holder and the wait that times out do not let a second one in.
SingleFlight ==
  ~SlowReads =>
    \A c, d \in Clients :
      {pc[c], pc[d]} \subseteq {"calling", "storing"} => c = d

\* The write that will remove a version of v's kind is on its way.
Pending(v) ==
  \E w \in Workers :
    wpc[w] = "committed" \/ (v \in Absent /\ wpc[w] = "hitDeleted")

\* An old version is in L2 or L1 only while its invalidation is on its way:
\* it has not reached that dictionary, or not that worker.  The ghosts excuse
\* the three ways in which Kong does leave an old version behind.
StaleIsPending ==
  ~excused =>
    /\ hit.version \notin {NoVersion, db} => Pending(hit.version)
    /\ miss.version \notin {NoVersion, db} => Pending(miss.version)
    /\ \A w \in Workers \ unheard : lru[w] \notin {NoVersion, db} =>
         inbox[w] > 0 \/ \E u \in Workers : wpc[u] # "idle"

\* The inductive forms: who runs the callback has the lock; an old version that
\* a client may still store is old enough to be removed after it is stored.
HolderHasLock ==
  ~SlowReads => \A c \in Clients : pc[c] \in {"calling", "storing"} => lock = c

HeldIsPending ==
  ~excused => \A c \in Clients :
                held[c] \notin {NoVersion, db} => Pending(held[c])

Quiet ==
  /\ \A c \in Clients : pc[c] = "idle"
  /\ \A w \in Workers : wpc[w] = "idle" /\ inbox[w] = 0

AllNew ==
  \A v \in {hit.version, miss.version} \cup {lru[w] : w \in Workers \ unheard} :
    v \in {NoVersion, db}

\* "to eventually purge the old cached entity and start using the new one":
\* when nothing is under way, nothing old is cached, but where no event arrived.
OldIsPurged == Quiet => AllNew

\* Every get returns: no client waits for ever for the lock, whoever died.
GetReturns == \A c \in Clients : (pc[c] # "idle") ~> (pc[c] = "idle")

\* Once the writes are over the caches become and stay new, unless excused.
EventuallyNew == <>[](excused \/ AllNew)
=============================================================================
