--------------------------- MODULE RouterRebuild ---------------------------
(***************************************************************************)
(* The router of one worker in database mode (kong/runloop/handler.lua,    *)
(* kong/concurrency.lua) with the default flavor, whose rebuild changes    *)
(* the router in place (kong/router/atc.lua) while requests use it.        *)
(*                                                                         *)
(* Routes are 1..NumRoutes in the order of the pages.  A route in the      *)
(* database is a version (the commit that made it) and its `updated_at',   *)
(* in seconds, which the node that wrote it set before its round trip to   *)
(* the database: commits may come in another order than their seconds.     *)
(* The key "router:version" is read through core_cache: `epoch' is the     *)
(* value this worker gets; a write's invalidation changes it.              *)
(* Coroutines interleave where they wait: for the mutex, for a page of     *)
(* routes, and in the yield after each route of the rebuild.               *)
(***************************************************************************)
EXTENDS Integers, FiniteSets

CONSTANTS
  NumRoutes,
  PageSize,     \* max_page_size of the routes
  Timers,       \* coroutines that run rebuild_timer: no wait for the mutex
  Requests,     \* coroutines of requests, with worker_consistency = strict
  Nobody,
  SlowBuilds,   \* whether a build may outlast the wait for the mutex
  FailingReads, \* whether a page may fail to load
  BadVersions,  \* the versions whose expression the router refuses
  Matched,      \* bound: the routes whose cached matches are followed
  MaxWrites,    \* bound: writes to routes
  MaxSecond     \* bound: the seconds of `updated_at'

Routes == 1..NumRoutes
Coroutines == Timers \cup Requests

ASSUME RouterRebuildAssumption ==
  /\ {NumRoutes, PageSize} \subseteq Nat \ {0}
  /\ Timers \cap Requests = {} /\ Nobody \notin Coroutines
  /\ {SlowBuilds, FailingReads} \subseteq BOOLEAN
  /\ BadVersions \subseteq Nat /\ Matched \subseteq Routes
  /\ MaxWrites \in Nat \ {0} /\ MaxSecond \in Nat

VARIABLES
  db,        \* db[r]: the route in the database, or Absent
  writes,    \* how many writes were committed
  pending,   \* how many of them have not been invalidated in this worker
  epoch,     \* what core_cache:get("router:version") returns
  built,     \* ROUTER_VERSION
  router,    \* ROUTER: matchers (route -> what the matcher in the engine was
             \* made from, or Absent), routes, updatedAt, rebuilding
  cached,    \* router cache: -1 nothing, 0 in the negative cache, or version
  pc,        \* "idle", "waiting", "loading", "loaded", "updating", "removing"
  job,       \* job[b]: what the coroutine's build has gathered
  mutex,     \* the coroutine that has the semaphore's resource, or Nobody
  bypassed,  \* ghost: a build went on without the mutex
  latest,    \* ghost: the latest updated_at committed so far
  behind     \* ghost: the versions committed behind a later updated_at

source == <<db, writes, pending, epoch, latest, behind>>
worker == <<built, router, cached, pc, job, mutex, bypassed>>
vars == <<source, worker>>

Absent == [version |-> 0, at |-> 0]
First == [version |-> 1, at |-> 0]
JobFor(version) ==
  [target |-> version, next |-> 1, found |-> [r \in Routes |-> Absent], newest |-> 0]
NoJob == JobFor(0)
LastPage == (NumRoutes + PageSize - 1) \div PageSize

\* What the engine has of a route it is given.
Kept(route) == IF route.version \in BadVersions THEN Absent ELSE route

\* The worker starts with a router made from scratch of what the database has.
Init ==
  /\ \E S \in SUBSET Routes : db = [r \in Routes |-> IF r \in S THEN First ELSE Absent]
  /\ writes = 1 /\ pending = 0 /\ epoch = 1
  /\ built = 1
  /\ router = [matchers |-> [r \in Routes |-> Kept(db[r])],
               routes |-> [r \in Routes |-> Kept(db[r])],
               updatedAt |-> 0, rebuilding |-> FALSE]
  /\ cached = [r \in Routes |-> -1]
  /\ pc = [b \in Coroutines |-> "idle"]
  /\ job = [b \in Coroutines |-> NoJob]
  /\ mutex = Nobody
  /\ bypassed = FALSE
  /\ latest = 0 /\ behind = {}

-----------------------------------------------------------------------------
(* Writes *)

Later(s, t) == IF s >= t THEN s ELSE t

\* The database commits a write.  process_auto_fields read its updated_at off
\* a clock before the round trip, and nothing orders the two: another write
\* may be stamped after it and committed before it.
Write(r) ==
  /\ writes < MaxWrites
  /\ writes' = writes + 1
  /\ pending' = pending + 1
  /\ \/ \E at \in 0..MaxSecond :
          /\ db' = [db EXCEPT ![r] = [version |-> writes + 1, at |-> at]]
          /\ latest' = Later(latest, at)
          /\ behind' = IF at < latest THEN behind \cup {writes + 1} ELSE behind
     \/ /\ db[r] # Absent /\ db' = [db EXCEPT ![r] = Absent]
        /\ UNCHANGED <<latest, behind>>
  /\ UNCHANGED <<epoch, worker>>

\* Mutant: the version is changed before a write is there.
InvalidateEarly ==
  /\ epoch < MaxWrites /\ pending < 1
  /\ epoch' = epoch + 1
  /\ UNCHANGED <<db, writes, pending, latest, behind, worker>>
\* crud_routes_handler (here, or after a poll of the cluster events) has
\* invalidated the key, and this worker's LRU has dropped it: the next get
\* finds another uuid.
Invalidate ==
  /\ pending > 0
  /\ pending' = pending - 1
  /\ epoch' = epoch + 1
  /\ UNCHANGED <<db, writes, latest, behind, worker>>

-----------------------------------------------------------------------------
(* rebuild, with_coroutine_mutex, update_router *)

\* update_router, once it may run: is there still something to do?
UpdateRouter(b) ==
  IF epoch = built
  THEN /\ pc' = [pc EXCEPT ![b] = "idle"]
       /\ UNCHANGED job
  ELSE /\ pc' = [pc EXCEPT ![b] = "loading"]
       /\ job' = [job EXCEPT ![b] = JobFor(epoch)]

\* Return from with_coroutine_mutex: the resource is posted if it was taken.
Leave(b) ==
  /\ pc' = [pc EXCEPT ![b] = "idle"]
  /\ job' = [job EXCEPT ![b] = NoJob]
  /\ mutex' = IF mutex = b THEN Nobody ELSE mutex

\* rebuild finds another version, and the resource is there.
Enter(b) ==
  /\ pc[b] = "idle" /\ built # epoch /\ mutex = Nobody
  /\ UpdateRouter(b)
  /\ mutex' = b
  /\ UNCHANGED <<source, built, router, cached, bypassed>>

\* It is not: a timer returns at once (nothing changes), a request waits.
Wait(b) ==
  /\ b \in Requests
  /\ pc[b] = "idle" /\ built # epoch /\ mutex # Nobody
  /\ pc' = [pc EXCEPT ![b] = "waiting"]
  /\ UNCHANGED <<source, built, router, cached, job, mutex, bypassed>>

WaitEnds(b) ==
  /\ pc[b] = "waiting" /\ mutex = Nobody
  /\ UpdateRouter(b)
  /\ mutex' = IF epoch = built THEN Nobody ELSE b
  /\ UNCHANGED <<source, built, router, cached, bypassed>>

\* on_timeout = "run_unlocked"
WaitTimesOut(b) ==
  /\ pc[b] = "waiting" /\ mutex # Nobody /\ SlowBuilds
  /\ UpdateRouter(b)
  /\ bypassed' = TRUE
  /\ UNCHANGED <<source, built, router, cached, mutex>>

-----------------------------------------------------------------------------
(* new_router *)

\* The build's loop goes on to the next page, or the next route.
Proceed(b, found, newest) ==
  job' = [job EXCEPT ![b] = [target |-> job[b].target, next |-> job[b].next + 1,
                             found |-> found, newest |-> newest]]

Page(p) == {r \in Routes : (r - 1) \div PageSize = p - 1}

\* A page is fetched; from the second on, the version is read again.
LoadPage(b) ==
  /\ pc[b] = "loading"
  /\ LET j == job[b]
     IN  IF j.next > 1 /\ epoch # j.target
         THEN Leave(b)
         ELSE /\ Proceed(b, [r \in Routes |-> IF r \in Page(j.next) THEN db[r]
                                             ELSE j.found[r]], j.newest)
              /\ pc' = [pc EXCEPT ![b] = IF j.next = LastPage THEN "loaded" ELSE "loading"]
              /\ UNCHANGED mutex
  /\ UNCHANGED <<source, built, router, cached, bypassed>>

LoadFails(b) ==
  /\ FailingReads /\ pc[b] = "loading"
  /\ Leave(b)
  /\ UNCHANGED <<source, built, router, cached, bypassed>>

\* Mutant: concurrent in-place rebuilds are not refused.
BeginUpdateAnyway(b) ==
  /\ pc[b] = "loaded"
  /\ router' = [router EXCEPT !.rebuilding = TRUE]
  /\ pc' = [pc EXCEPT ![b] = "updating"]
  /\ job' = [job EXCEPT ![b].next = 1]
  /\ UNCHANGED <<source, built, cached, mutex, bypassed>>
\* new_from_previous refuses a second rebuild in place.
BeginUpdate(b) ==
  /\ pc[b] = "loaded"
  /\ IF router.rebuilding
     THEN Leave(b) /\ UNCHANGED router
     ELSE /\ router' = [router EXCEPT !.rebuilding = TRUE]
          /\ pc' = [pc EXCEPT ![b] = "updating"]
          /\ job' = [job EXCEPT ![b].next = 1]
          /\ UNCHANGED mutex
  /\ UNCHANGED <<source, built, cached, bypassed>>

\* Mutant: "within a sec" is forgotten.
ModifiedStrictly(old, new) ==
  old = Absent \/ new.at > router.updatedAt \/ new.at # old.at
\* A route known to the router is only looked at again if its updated_at is
\* another one, or not older than the newest of the last build.
Modified(old, new) ==
  old = Absent \/ new.at >= router.updatedAt \/ new.at # old.at

\* The router with another route r and another matcher for it.
With(r, route, matcher) ==
  [matchers |-> [router.matchers EXCEPT ![r] = matcher],
   routes |-> [router.routes EXCEPT ![r] = route],
   updatedAt |-> router.updatedAt, rebuilding |-> router.rebuilding]

\* Mutant: a refused route stays in the table of routes.
UpdateRouteKept(b) ==
  LET r   == job[b].next
      new == job[b].found[r]
  IN  /\ pc[b] = "updating" /\ r <= NumRoutes
      /\ IF new = Absent THEN UNCHANGED router
         ELSE router' = With(r, new, IF ~Modified(router.routes[r], new)
                                     THEN router.matchers[r]
                                     ELSE IF new.version \in BadVersions THEN Absent
                                     ELSE new)
      /\ Proceed(b, job[b].found, Later(job[b].newest, new.at))
      /\ UNCHANGED <<source, built, cached, pc, mutex, bypassed>>
\* One iteration of "create or update routes": the matcher is replaced if the
\* route was modified; one whose matcher is refused is dropped.  This flavor
\* makes an expression of every route (get_expression in compat.lua): the old
\* matcher is removed before the engine may refuse the new one.
UpdateRoute(b) ==
  LET r    == job[b].next
      new  == job[b].found[r]
      mod  == Modified(router.routes[r], new)
      bad  == mod /\ new.version \in BadVersions
  IN  /\ pc[b] = "updating" /\ r <= NumRoutes
      /\ IF new = Absent THEN UNCHANGED router
         ELSE router' = With(r, IF bad THEN Absent ELSE new,
                                IF bad THEN Absent
                                ELSE IF mod THEN new ELSE router.matchers[r])
      /\ Proceed(b, job[b].found,
                 IF bad THEN job[b].newest ELSE Later(job[b].newest, new.at))
      /\ UNCHANGED <<source, built, cached, pc, mutex, bypassed>>

AllUpdated(b) ==
  /\ pc[b] = "updating" /\ job[b].next > NumRoutes
  /\ pc' = [pc EXCEPT ![b] = "removing"]
  /\ UNCHANGED <<source, built, router, cached, job, mutex, bypassed>>

ToRemove(b) == {r \in Routes : router.routes[r] # Absent /\ job[b].found[r] = Absent}

\* One iteration of "remove routes" (in the order of pairs).
RemoveRoute(b) ==
  /\ pc[b] = "removing"
  /\ \E r \in ToRemove(b) : router' = With(r, Absent, Absent)
  /\ UNCHANGED <<source, built, cached, pc, job, mutex, bypassed>>

\* Mutants: the caches survive; the version is read again after the build.
InstallUnflushed(b) ==
  /\ pc[b] = "removing" /\ ToRemove(b) = {}
  /\ router' = [router EXCEPT !.updatedAt = job[b].newest, !.rebuilding = FALSE]
  /\ built' = job[b].target
  /\ Leave(b)
  /\ UNCHANGED <<source, cached, bypassed>>
InstallLatest(b) ==
  /\ pc[b] = "removing" /\ ToRemove(b) = {}
  /\ router' = [router EXCEPT !.updatedAt = job[b].newest, !.rebuilding = FALSE]
  /\ built' = epoch
  /\ cached' = [r \in Routes |-> -1]
  /\ Leave(b)
  /\ UNCHANGED <<source, bypassed>>
\* The rest of new_from_previous and build_router: no yield.
Install(b) ==
  /\ pc[b] = "removing" /\ ToRemove(b) = {}
  /\ router' = [router EXCEPT !.updatedAt = job[b].newest, !.rebuilding = FALSE]
  /\ built' = job[b].target
  /\ cached' = [r \in Routes |-> -1]
  /\ Leave(b)
  /\ UNCHANGED <<source, bypassed>>

\* exec: a request for route r misses the caches and asks the engine.
Match(r) ==
  /\ cached[r] = -1
  /\ cached' = [cached EXCEPT ![r] = router.matchers[r].version]
  /\ UNCHANGED <<source, built, router, pc, job, mutex, bypassed>>

-----------------------------------------------------------------------------
Build(b) ==
  \/ LoadPage(b) \/ BeginUpdate(b) \/ UpdateRoute(b) \/ AllUpdated(b)
  \/ RemoveRoute(b) \/ Install(b)

Next ==
  \/ \E r \in Routes : Write(r)
  \/ \E r \in Matched : Match(r)
  \/ Invalidate
  \/ \E b \in Coroutines :
       Enter(b) \/ Wait(b) \/ WaitEnds(b) \/ WaitTimesOut(b) \/ LoadFails(b) \/ Build(b)
  \/ (\A b \in Coroutines : pc[b] = "idle") /\ UNCHANGED vars  \* nothing to do

Spec == Init /\ [][Next]_vars

\* Timers run, builds go on; a database that is reachable again answers.
FairSpec ==
  /\ Spec
  /\ WF_vars(Invalidate)
  /\ \A b \in Coroutines : SF_vars(Build(b)) /\ SF_vars(WaitEnds(b))
  /\ \A b \in Timers : SF_vars(Enter(b))

-----------------------------------------------------------------------------
(* Properties *)

TypeOK ==
  /\ writes \in 0..MaxWrites /\ latest \in 0..MaxSecond /\ behind \subseteq 1..writes
  /\ pending \in 0..writes /\ epoch = writes - pending
  /\ built \in 0..epoch
  /\ \A r \in Routes :
       /\ db[r].version \in 0..writes /\ router.matchers[r].version \in 0..writes
       /\ cached[r] \in -1..writes
  /\ mutex \in Coroutines \cup {Nobody} /\ bypassed \in BOOLEAN
  /\ \A b \in Coroutines : /\ pc[b] \in {"idle", "waiting", "loading", "loaded",
                                         "updating", "removing"}
                           /\ job[b].target \in 0..epoch

InPlace == {b \in Coroutines : pc[b] \in {"updating", "removing"}}

\* The router is marked while one coroutine changes it, and only then: two
\* would corrupt it, and a mark left behind would refuse every later rebuild.
OneRebuildInPlace ==
  Cardinality(InPlace) = IF router.rebuilding THEN 1 ELSE 0

\* In whatever yield of a rebuild: the engine has a matcher exactly for each
\* route in the table, or `matching' would index nothing and the assertions on
\* remove_matcher (atc.lua:204, :332) would fail and leave the router marked;
\* and a matcher that is behind its route is so within one second.
MatchersFindRoutes ==
  \A r \in Routes : /\ router.matchers[r] = Absent <=> router.routes[r] = Absent
                    /\ router.matchers[r].at = router.routes[r].at

\* More than that, a matcher was made from the very route it answers with.
\* (Not so once a build bypassed the mutex: what it read before may go back
\* behind `updatedAt'; nor for a version that was committed behind a later
\* second, which may pass for the one before it.)
MatchersHaveRoutes ==
  /\ MatchersFindRoutes
  /\ ~bypassed => \A r \in Routes :
       router.matchers[r] = router.routes[r] \/ router.routes[r].version \in behind

\* The worker has built a router for the version it sees, and no write is on
\* its way to it.
UpToDate == pending = 0 /\ built = epoch /\ ~router.rebuilding

Refusable(r) == db[r].version \in BadVersions
Wanted(r) == Kept(db[r])

\* The table of routes then has every write.
RoutesAreCurrent ==
  UpToDate => \A r \in Routes :
    router.routes[r] = db[r] \/ (router.routes[r] = Absent /\ Refusable(r))

\* So has the engine: "when a change is detected, a new router will be built".
RouterIsCurrent ==
  /\ RoutesAreCurrent
  /\ ~bypassed /\ UpToDate => \A r \in Routes :
       router.matchers[r] = Wanted(r) \/ db[r].version \in behind

\* Between rebuilds the caches answer what the engine would.
NoStaleMatch ==
  ~router.rebuilding => \A r \in Routes : cached[r] \in {-1, router.matchers[r].version}

\* After the last write the router catches up, for good.
RouterCatchesUp ==
  <>[](bypassed \/ \A r \in Routes :
         router.matchers[r] = Wanted(r) \/ db[r].version \in behind)
=============================================================================
