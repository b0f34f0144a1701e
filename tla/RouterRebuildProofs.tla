------------------------ MODULE RouterRebuildProofs ------------------------
(***************************************************************************)
(* Proofs about RouterRebuild for any number of routes, timers, requests   *)
(* and writes: that the values keep their types, that the router in use is *)
(* changed by one coroutine at a time, that the match caches agree with    *)
(* it, and, when all routes fit in one page, that the incremental rebuild, *)
(* although it looks at seconds only, leaves no route behind but one that  *)
(* was committed after a write with a later second.                        *)
(***************************************************************************)
EXTENDS RouterRebuild, FiniteSetTheorems, TLAPS

Entity == [version : Nat, at : Nat]
Job == [target : Nat, next : Nat \ {0}, found : [Routes -> Entity], newest : Nat]
Router == [matchers : [Routes -> Entity], routes : [Routes -> Entity],
           updatedAt : Nat, rebuilding : BOOLEAN]
Stages == {"idle", "waiting", "loading", "loaded", "updating", "removing"}

\* The inductive form of TypeOK.
SourceType ==
  /\ latest \in 0..MaxSecond /\ behind \subseteq 1..writes
  /\ writes \in 0..MaxWrites /\ pending \in 0..writes /\ epoch = writes - pending
  /\ db \in [Routes -> Entity]
  /\ \A r \in Routes : db[r].version <= writes

WorkerType ==
  /\ built \in 0..epoch
  /\ router \in Router
  /\ \A r \in Routes : router.matchers[r].version <= writes
  /\ cached \in [Routes -> Int]
  /\ \A r \in Routes : cached[r] \in -1..writes
  /\ pc \in [Coroutines -> Stages]
  /\ job \in [Coroutines -> Job]
  /\ \A b \in Coroutines : /\ job[b].target <= epoch
                           /\ \A r \in Routes : job[b].found[r].version <= writes
  /\ mutex \in Coroutines \cup {Nobody} /\ bypassed \in BOOLEAN

Types == SourceType /\ WorkerType

\* The router is marked exactly while a coroutine changes it.
MarkInv ==
  /\ \A b, c \in InPlace : b = c
  /\ router.rebuilding <=> InPlace # {}

Building(b) == pc[b] \in {"loading", "loaded", "updating", "removing"}
Gathered(b) == pc[b] \in {"loaded", "updating", "removing"}

\* Until a request bypasses it, whoever builds has the mutex.
MutexInv == ~bypassed => \A b \in Coroutines : Building(b) => mutex = b

\* What the router may have of a route it was given: one that was committed
\* behind a later second may be taken for the one before it.
Fits(have, route) == have = Kept(route) \/ (route.version \in behind /\ have = route)

\* What the router has is the database at some time: what was written since
\* then, and not behind another write, has a second not before the newest it
\* knew.
SnapshotInv ==
  /\ router.updatedAt <= latest
  /\ \A r \in Routes :
       /\ db[r].at <= latest
       /\ router.routes[r].version \notin behind =>
            router.matchers[r] = router.routes[r]
       /\ router.routes[r] # Absent =>
            /\ router.routes[r].version \in BadVersions => router.routes[r].version \in behind
            /\ db[r] \notin {Absent, router.routes[r]} /\ db[r].version \notin behind =>
                 db[r].at >= router.updatedAt

\* So is what a build has gathered, and its versions tell the router's apart.
GatheredRoute(b, r) ==
  /\ job[b].found[r].at <= latest
  /\ db[r] \notin {Absent, job[b].found[r]} /\ db[r].version \notin behind =>
       /\ db[r].at >= router.updatedAt
       /\ \A s \in Routes : db[r].at >= job[b].found[s].at
  /\ Absent \notin {router.routes[r], job[b].found[r]} /\ job[b].found[r].version \notin behind =>
       \/ job[b].found[r] = router.routes[r]
       \/ job[b].found[r].at >= router.updatedAt

GatheredInv ==
  \A b \in Coroutines : Gathered(b) =>
    /\ job[b].target = epoch /\ pending = 0 => job[b].found = db
    /\ job[b].newest = 0 \/ \E s \in Routes : job[b].newest = job[b].found[s].at
    /\ \A r \in Routes : GatheredRoute(b, r)

\* How far an update in place is.
ProgressInv ==
  \A b \in InPlace, r \in Routes :
    /\ pc[b] = "removing" \/ r < job[b].next
    /\ job[b].found[r] # Absent
    => Fits(router.routes[r], job[b].found[r])

CurrentInv ==
  pending = 0 /\ built = epoch /\ ~router.rebuilding =>
    \A r \in Routes : Fits(router.routes[r], db[r])

InStep == SnapshotInv /\ GatheredInv /\ ProgressInv /\ CurrentInv

LoadingInv ==
  \A b \in Coroutines :
    ~Gathered(b) => job[b].next = 1 /\ job[b].newest = 0

OnePageInv == MutexInv /\ LoadingInv /\ (~bypassed => InStep)

-----------------------------------------------------------------------------
(* Types *)

LEMMA JobType ==
  ASSUME NEW t \in Nat
  PROVE  /\ JobFor(t) \in Job /\ Absent \in Entity
         /\ JobFor(t).target = t /\ JobFor(t).next = 1
         /\ \A r \in Routes : JobFor(t).found[r].version = 0
BY DEF JobFor, Job, Absent, Entity

LEMMA NoJobType ==
  /\ Absent \in Entity
  /\ NoJob \in Job /\ NoJob.target = 0 /\ NoJob.next = 1
  /\ \A r \in Routes : NoJob.found[r].version = 0
BY JobType DEF NoJob

\* What Types says of the coroutines.
CoroutineTypes ==
  /\ pc \in [Coroutines -> Stages]
  /\ job \in [Coroutines -> Job]
  /\ \A b \in Coroutines : /\ job[b].target <= epoch
                           /\ \A r \in Routes : job[b].found[r].version <= writes
  /\ mutex \in Coroutines \cup {Nobody}

LEMMA LeaveTypes ==
  ASSUME Types, NEW b \in Coroutines, Leave(b), UNCHANGED source
  PROVE  CoroutineTypes'
BY NoJobType DEF Types, SourceType, WorkerType, CoroutineTypes, Leave, Stages, source

LEMMA UpdateRouterTypes ==
  ASSUME Types, NEW b \in Coroutines, UpdateRouter(b), UNCHANGED source,
         mutex' \in Coroutines \cup {Nobody}
  PROVE  CoroutineTypes'
<1>1. epoch \in Nat /\ writes \in Nat
  BY DEF Types, SourceType
<1>2. CASE epoch = built
  BY <1>2 DEF Types, WorkerType, CoroutineTypes, UpdateRouter, Stages, source
<1>3. CASE epoch # built
  <2>1. JobFor(epoch) \in Job /\ JobFor(epoch).target = epoch
        /\ \A r \in Routes : JobFor(epoch).found[r].version = 0
    BY <1>1, JobType
  <2>2. pc' = [pc EXCEPT ![b] = "loading"] /\ job' = [job EXCEPT ![b] = JobFor(epoch)]
    BY <1>3 DEF UpdateRouter
  <2>3. \A c \in Coroutines : job'[c] \in {job[c], JobFor(epoch)}
    BY <2>2 DEF Types, WorkerType
  <2>4. \A c \in Coroutines : /\ job'[c].target <= epoch
                             /\ \A r \in Routes : job'[c].found[r].version <= writes
    BY <1>1, <2>1, <2>3 DEF Types, WorkerType
  <2> QED
    BY <2>1, <2>2, <2>4 DEF Types, WorkerType, CoroutineTypes, Stages, source
<1> QED BY <1>2, <1>3

\* The numbers in jobs and routes, for arithmetic.
LEMMA Numbers ==
  ASSUME Types
  PROVE  /\ {latest, writes, pending, epoch, built} \subseteq Nat
         /\ \A r \in Routes : db[r].version \in Nat /\ router.matchers[r].version \in Nat
                                                  /\ cached[r] \in Int
         /\ \A b \in Coroutines : /\ job[b].target \in Nat
                                  /\ \A r \in Routes : job[b].found[r].version \in Nat
BY RouterRebuildAssumption
DEF RouterRebuildAssumption, Types, SourceType, WorkerType, Job, Entity, Router

\* What a write commits: a route of the next version, whose second is not
\* before the latest one unless the version is behind.
Commits(e) ==
  e = Absent \/ /\ e.version = writes + 1 /\ e.at <= latest'
                /\ e.version \in behind' \/ e.at >= latest

LEMMA WriteStep ==
  ASSUME Types, NEW r \in Routes, Write(r)
  PROVE  /\ behind \subseteq behind' /\ behind' \subseteq 1..(writes + 1)
         /\ latest' \in 0..MaxSecond /\ latest <= latest'
         /\ \E e \in Entity : db' = [db EXCEPT ![r] = e] /\ Commits(e)
<1>0. /\ latest \in 0..MaxSecond /\ writes \in Nat /\ MaxSecond \in Nat
      /\ behind \subseteq 1..(writes + 1)
  BY Numbers, RouterRebuildAssumption DEF RouterRebuildAssumption, Types, SourceType
<1>1. CASE db' = [db EXCEPT ![r] = Absent] /\ UNCHANGED <<latest, behind>>
  <2>1. Absent \in Entity /\ Commits(Absent)
    BY NoJobType DEF Commits
  <2>2. /\ behind \subseteq behind' /\ behind' \subseteq 1..(writes + 1)
        /\ latest' \in 0..MaxSecond /\ latest <= latest'
    BY <1>0, <1>1
  <2>3. \E e \in Entity : db' = [db EXCEPT ![r] = e] /\ Commits(e)
    BY <1>1, <2>1
  <2> QED BY <2>2, <2>3
<1>2. ASSUME NEW at \in 0..MaxSecond,
             db' = [db EXCEPT ![r] = [version |-> writes + 1, at |-> at]],
             latest' = Later(latest, at),
             behind' = IF at < latest THEN behind \cup {writes + 1} ELSE behind
      PROVE  /\ behind \subseteq behind' /\ behind' \subseteq 1..(writes + 1)
             /\ latest' \in 0..MaxSecond /\ latest <= latest'
             /\ \E e \in Entity : db' = [db EXCEPT ![r] = e] /\ Commits(e)
  <2> DEFINE e == [version |-> writes + 1, at |-> at]
  <2>1. at \in Nat /\ e \in Entity /\ e.version = writes + 1 /\ e.at = at
    BY <1>0 DEF Entity
  <2>2. latest' \in 0..MaxSecond /\ latest <= latest' /\ at <= latest'
    BY <1>0, <1>2, <2>1 DEF Later
  <2>3. behind \subseteq behind' /\ behind' \subseteq 1..(writes + 1)
    BY <1>0, <1>2
  <2>4. writes + 1 \in behind' \/ at >= latest
    BY <1>0, <1>2, <2>1
  <2>5. Commits(e)
    BY <2>1, <2>2, <2>4 DEF Commits
  <2>6. db' = [db EXCEPT ![r] = e]
    BY <1>2
  <2> HIDE DEF e
  <2> QED BY <2>1, <2>2, <2>3, <2>5, <2>6
<1> QED BY <1>1, <1>2 DEF Write

\* Writes and invalidations; what the worker has does not change.
LEMMA SourceTypes ==
  ASSUME Types, UNCHANGED worker,
         (\E r \in Routes : Write(r)) \/ Invalidate
  PROVE  Types'
<1>1. ASSUME NEW r \in Routes, Write(r)
      PROVE  SourceType' /\ epoch' = epoch /\ writes' = writes + 1
  <2>1. \E e \in Entity : e.version <= writes + 1 /\ db' = [db EXCEPT ![r] = e]
    BY <1>1, WriteStep, Numbers DEF Commits, Absent
  <2>2. db' \in [Routes -> Entity] /\ \A q \in Routes : db'[q].version <= writes + 1
    BY <2>1, Numbers DEF Types, SourceType
  <2>3. latest' \in 0..MaxSecond /\ behind' \subseteq 1..(writes + 1)
    BY <1>1, WriteStep
  <2> QED
    BY <1>1, <2>2, <2>3, RouterRebuildAssumption
    DEF RouterRebuildAssumption, Write, Types, SourceType
<1>2. ASSUME Invalidate
      PROVE  SourceType' /\ epoch' = epoch + 1 /\ writes' = writes
  BY <1>2, RouterRebuildAssumption
  DEF RouterRebuildAssumption, Invalidate, Types, SourceType
<1>4. SourceType' /\ epoch' \in {epoch, epoch + 1} /\ writes' \in {writes, writes + 1}
  BY <1>1, <1>2, Numbers
<1>5. built' \in 0..epoch'
  BY <1>4, Numbers DEF Types, WorkerType, worker
<1>6. /\ \A r \in Routes : router'.matchers[r].version <= writes' /\ cached'[r] \in -1..writes'
      /\ \A b \in Coroutines : /\ job'[b].target <= epoch'
                               /\ \A r \in Routes : job'[b].found[r].version <= writes'
  BY <1>4, Numbers DEF Types, WorkerType, worker
<1>7. /\ router' = router /\ cached' = cached /\ pc' = pc /\ job' = job
      /\ mutex' = mutex /\ bypassed' = bypassed
  BY DEF worker
<1> QED BY <1>4, <1>5, <1>6, <1>7 DEF Types, WorkerType

-----------------------------------------------------------------------------
\* The worker's part, when the source does not change.
LEMMA WorkerTypes ==
  ASSUME Types, UNCHANGED source, CoroutineTypes', bypassed' \in BOOLEAN,
         built' \in 0..epoch, router' \in Router, cached' \in [Routes -> Int],
         \A r \in Routes : router'.matchers[r].version <= writes /\ cached'[r] \in -1..writes
  PROVE  Types'
BY DEF Types, SourceType, WorkerType, CoroutineTypes, source

\* A job that goes on to another number.
LEMMA JobGoesOn ==
  ASSUME Types, UNCHANGED source, NEW b \in Coroutines, NEW n \in Nat \ {0}, NEW m \in Nat,
         NEW f \in [Routes -> Entity], \A r \in Routes : f[r].version <= writes,
         job' = [job EXCEPT ![b] = [target |-> job[b].target, next |-> n,
                                    found |-> f, newest |-> m]],
         pc' \in [Coroutines -> Stages], mutex' = mutex
  PROVE  CoroutineTypes'
<1> DEFINE j == [target |-> job[b].target, next |-> n, found |-> f, newest |-> m]
<1>1. job \in [Coroutines -> Job] /\ job[b] \in Job
  BY DEF Types, WorkerType
<1>2. j \in Job /\ j.target = job[b].target /\ j.found = f
  BY <1>1 DEF Job
<1>3. \A c \in Coroutines : job'[c] \in {job[c], j}
  BY <1>1
<1>4. \A c \in Coroutines : /\ job'[c].target <= epoch
                           /\ \A r \in Routes : job'[c].found[r].version <= writes
  <2> HIDE DEF j
  <2> QED BY <1>2, <1>3 DEF Types, WorkerType
<1>5. job' \in [Coroutines -> Job]
  BY <1>1, <1>2
<1> QED BY <1>4, <1>5 DEF Types, WorkerType, CoroutineTypes, source

\* What a job holds.
LEMMA JobFields ==
  ASSUME Types, NEW b \in Coroutines
  PROVE  /\ job[b] \in Job /\ job \in [Coroutines -> Job]
         /\ job[b].target \in Nat /\ job[b].next \in Nat \ {0} /\ job[b].newest \in Nat
         /\ job[b].found \in [Routes -> Entity]
         /\ \A r \in Routes : job[b].found[r].version <= writes
BY DEF Types, WorkerType, Job

LEMMA JobRestarts ==
  ASSUME Types, UNCHANGED source, NEW b \in Coroutines,
         job' = [job EXCEPT ![b] = [job[b] EXCEPT !.next = 1]],
         pc' \in [Coroutines -> Stages], mutex' = mutex
  PROVE  CoroutineTypes'
<1>1. job[b] \in Job
  BY JobFields
<1> DEFINE j == [job[b] EXCEPT !.next = 1]
<1>2. j \in Job /\ j.target = job[b].target /\ j.found = job[b].found
  BY <1>1 DEF Job
<1>3. \A c \in Coroutines : job'[c] \in {job[c], j}
  BY JobFields
<1>4. job' \in [Coroutines -> Job]
  BY <1>2, JobFields
<1>5. \A c \in Coroutines : /\ job'[c].target <= epoch
                           /\ \A r \in Routes : job'[c].found[r].version <= writes
  <2> HIDE DEF j
  <2> QED BY <1>2, <1>3 DEF Types, WorkerType
<1> QED BY <1>4, <1>5 DEF Types, WorkerType, CoroutineTypes, source

LEMMA ProceedTypes ==
  ASSUME Types, UNCHANGED source, NEW b \in Coroutines, NEW m \in Nat,
         NEW f \in [Routes -> Entity], \A r \in Routes : f[r].version <= writes,
         Proceed(b, f, m), pc' \in [Coroutines -> Stages], mutex' = mutex
  PROVE  CoroutineTypes'
<1>1. job[b].next + 1 \in Nat \ {0}
  BY JobFields
<1> QED BY <1>1, JobGoesOn DEF Proceed

LEMMA WithType ==
  ASSUME Types, NEW r \in Routes, NEW e \in Entity, NEW v \in Entity, v.version <= writes
  PROVE  With(r, e, v) \in Router /\ \A q \in Routes : With(r, e, v).matchers[q].version <= writes
<1>1. /\ router.matchers \in [Routes -> Entity] /\ router.routes \in [Routes -> Entity]
      /\ router.updatedAt \in Nat /\ router.rebuilding \in BOOLEAN /\ writes \in Nat
      /\ \A q \in Routes : router.matchers[q].version <= writes
  BY Numbers DEF Types, WorkerType, Router
<1>2. [router.matchers EXCEPT ![r] = v] \in [Routes -> Entity]
  BY <1>1
<1>3. [router.routes EXCEPT ![r] = e] \in [Routes -> Entity]
  BY <1>1
<1>4. \A q \in Routes : [router.matchers EXCEPT ![r] = v][q].version <= writes
  BY <1>1
<1> QED BY <1>1, <1>2, <1>3, <1>4 DEF With, Router

LEMMA LoadPageTypes ==
  ASSUME Types, NEW b \in Coroutines, LoadPage(b)
  PROVE  Types'
<1> DEFINE f == [r \in Routes |-> IF r \in Page(job[b].next) THEN db[r] ELSE job[b].found[r]]
<1>0. UNCHANGED source
  BY DEF LoadPage
<1>1. CoroutineTypes'
  <2>1. CASE Leave(b)
    BY <1>0, <2>1, LeaveTypes
  <2>2. CASE ~Leave(b)
    <3>1. Proceed(b, f, job[b].newest) /\ pc' \in [Coroutines -> Stages] /\ mutex' = mutex
      BY <2>2 DEF LoadPage, Types, WorkerType, Stages
    <3>2. f \in [Routes -> Entity] /\ \A r \in Routes : f[r].version <= writes
      BY JobFields DEF Types, SourceType
    <3> HIDE DEF f
    <3> QED BY <1>0, <3>1, <3>2, JobFields, ProceedTypes
  <2> QED BY <2>1, <2>2
<1> QED BY <1>0, <1>1, WorkerTypes DEF LoadPage, Types, WorkerType

LEMMA BeginUpdateTypes ==
  ASSUME Types, NEW b \in Coroutines, BeginUpdate(b)
  PROVE  Types'
<1>0. UNCHANGED source
  BY DEF BeginUpdate
<1>1. CoroutineTypes'
  <2>1. CASE Leave(b)
    BY <1>0, <2>1, LeaveTypes
  <2>2. CASE ~Leave(b)
    <3>1. /\ job' = [job EXCEPT ![b] = [job[b] EXCEPT !.next = 1]]
          /\ pc' \in [Coroutines -> Stages] /\ mutex' = mutex
      BY <2>2 DEF BeginUpdate, Types, WorkerType, Stages
    <3> QED BY <1>0, <3>1, JobRestarts
  <2> QED BY <2>1, <2>2
<1>2. router' \in Router /\ router'.matchers = router.matchers
  <2>1. router' = router \/ router' = [router EXCEPT !.rebuilding = TRUE]
    BY DEF BeginUpdate
  <2>2. router \in Router
    BY DEF Types, WorkerType
  <2>3. [router EXCEPT !.rebuilding = TRUE] \in Router
    BY <2>2 DEF Router
  <2>4. [router EXCEPT !.rebuilding = TRUE].matchers = router.matchers
    BY <2>2 DEF Router
  <2> QED BY <2>1, <2>2, <2>3, <2>4
<1>3. UNCHANGED <<built, cached, bypassed>>
  BY DEF BeginUpdate
<1>4. /\ bypassed' \in BOOLEAN /\ built' \in 0..epoch /\ cached' \in [Routes -> Int]
      /\ \A r \in Routes : router'.matchers[r].version <= writes /\ cached'[r] \in -1..writes
  BY <1>2, <1>3 DEF Types, WorkerType
<1> QED BY <1>0, <1>1, <1>2, <1>4, WorkerTypes

\* What UpdateRoute does, by name.
Refused(b) ==
  LET new == job[b].found[job[b].next]
  IN  Modified(router.routes[job[b].next], new) /\ new.version \in BadVersions

LEMMA UpdateRouteStep ==
  ASSUME Types, NEW b \in Coroutines, UpdateRoute(b)
  PROVE  LET r   == job[b].next
             new == job[b].found[r]
             n   == IF Refused(b) THEN job[b].newest ELSE Later(job[b].newest, new.at)
         IN  /\ r \in Routes /\ new \in Entity /\ new.version <= writes
             /\ n \in Nat /\ Proceed(b, job[b].found, n)
             /\ new = Absent => router' = router
             /\ new # Absent /\ Refused(b) => router' = With(r, Absent, Absent)
             /\ new # Absent /\ ~Refused(b) =>
                  router' = With(r, new, IF Modified(router.routes[r], new) THEN new
                                         ELSE router.matchers[r])
             /\ UNCHANGED <<source, built, cached, pc, mutex, bypassed>>
<1> DEFINE r   == job[b].next
           new == job[b].found[r]
<1>1. r \in Routes
  <2>1. job[b].next \in Nat \ {0}
    BY JobFields
  <2>2. job[b].next <= NumRoutes /\ NumRoutes \in Nat
    BY RouterRebuildAssumption DEF UpdateRoute, RouterRebuildAssumption
  <2> QED BY <2>1, <2>2 DEF Routes
<1>2. new \in Entity /\ new.version <= writes
  <2>1. /\ job[b].found \in [Routes -> Entity]
        /\ \A q \in Routes : job[b].found[q].version <= writes
    BY JobFields
  <2> QED BY <1>1, <2>1
<1>3. new.at \in Nat /\ Later(job[b].newest, new.at) \in Nat
  BY <1>2, JobFields DEF Entity, Later
<1> QED BY <1>1, <1>2, <1>3, JobFields DEF UpdateRoute, Refused

LEMMA UpdateRouteTypes ==
  ASSUME Types, NEW b \in Coroutines, UpdateRoute(b)
  PROVE  Types'
<1> DEFINE r   == job[b].next
           new == job[b].found[r]
<1>0. UNCHANGED <<source, built, cached, pc, mutex, bypassed>>
  BY DEF UpdateRoute
<1>1. CoroutineTypes'
  <2>1. PICK n \in Nat : Proceed(b, job[b].found, n)
    BY UpdateRouteStep
  <2>2. pc' \in [Coroutines -> Stages] /\ mutex' = mutex /\ UNCHANGED source
    BY <1>0 DEF Types, WorkerType
  <2> QED BY <2>1, <2>2, JobFields, ProceedTypes
<1>2. router' \in Router /\ \A q \in Routes : router'.matchers[q].version <= writes
  <2>1. r \in Routes /\ {Absent, new} \subseteq Entity
        /\ router.matchers[r] \in Entity
        /\ \A v \in {Absent, new, router.matchers[r]} : v.version <= writes
    <3>1. r \in Routes /\ new \in Entity /\ new.version <= writes
      BY UpdateRouteStep
    <3>2. router.matchers[r] \in Entity /\ router.matchers[r].version <= writes
      BY <3>1 DEF Types, WorkerType, Router
    <3>3. Absent.version <= writes
      BY Numbers DEF Absent
    <3> QED BY <3>1, <3>2, <3>3, NoJobType
  <2>2. router' = router \/ \E e \in {Absent, new}, v \in {Absent, new, router.matchers[r]} :
                               router' = With(r, e, v)
    BY UpdateRouteStep
  <2>3. CASE router' = router
    BY <2>3 DEF Types, WorkerType
  <2>4. ASSUME NEW e \in {Absent, new}, NEW v \in {Absent, new, router.matchers[r]},
               router' = With(r, e, v)
        PROVE  router' \in Router /\ \A q \in Routes : router'.matchers[q].version <= writes
    <3>1. e \in Entity /\ v \in Entity /\ v.version <= writes /\ r \in Routes
      BY <2>1
    <3> QED BY <2>4, <3>1, WithType
  <2> QED BY <2>2, <2>3, <2>4
<1> QED
  BY <1>0, <1>1, <1>2, WorkerTypes DEF Types, WorkerType

LEMMA BuildTypes ==
  ASSUME Types, NEW b \in Coroutines, Build(b)
  PROVE  Types'
<1>1. CASE LoadPage(b)
  BY <1>1, LoadPageTypes
<1>2. CASE BeginUpdate(b)
  BY <1>2, BeginUpdateTypes
<1>3. CASE UpdateRoute(b)
  BY <1>3, UpdateRouteTypes
<1>4. CASE AllUpdated(b)
  <2>1. CoroutineTypes'
    BY <1>4 DEF AllUpdated, Types, WorkerType, CoroutineTypes, Stages, source
  <2> QED BY <1>4, <2>1, WorkerTypes DEF AllUpdated, source, Types, WorkerType
<1>5. CASE RemoveRoute(b)
  <2>1. PICK r \in Routes : router' = With(r, Absent, Absent)
    BY <1>5 DEF RemoveRoute, ToRemove
  <2>2. router' \in Router /\ \A q \in Routes : router'.matchers[q].version <= writes
    <3>1. Absent \in Entity /\ Absent.version <= writes
      BY Numbers, NoJobType DEF Absent
    <3> QED BY <2>1, <3>1, WithType
  <2>3. CoroutineTypes'
    BY <1>5 DEF RemoveRoute, Types, WorkerType, CoroutineTypes, source
  <2> QED BY <1>5, <2>2, <2>3, WorkerTypes DEF RemoveRoute, source, Types, WorkerType
<1>6. CASE Install(b)
  <2>1. job[b] \in Job /\ job[b].target \in 0..epoch /\ job[b].newest \in Nat
    BY Numbers DEF Types, WorkerType, Job
  <2>2. router' \in Router /\ \A q \in Routes : router'.matchers[q].version <= writes
    BY <1>6, <2>1 DEF Install, Types, WorkerType, Router
  <2>3. CoroutineTypes'
    BY <1>6, LeaveTypes DEF Install, source
  <2> QED BY <1>6, <2>1, <2>2, <2>3, Numbers, WorkerTypes DEF Install, source, Types, WorkerType
<1> QED BY <1>1, <1>2, <1>3, <1>4, <1>5, <1>6 DEF Build

\* Steps before a build and out of one.
LEMMA OtherTypes ==
  ASSUME Types, NEW b \in Coroutines,
         Enter(b) \/ Wait(b) \/ WaitEnds(b) \/ WaitTimesOut(b) \/ LoadFails(b)
  PROVE  Types'
<1>0. UNCHANGED <<source, built, router, cached>> /\ bypassed' \in BOOLEAN
  BY DEF Enter, Wait, WaitEnds, WaitTimesOut, LoadFails, Types, WorkerType
<1>1. CASE LoadFails(b)
  <2>1. CoroutineTypes'
    BY <1>0, <1>1, LeaveTypes DEF LoadFails
  <2> QED BY <1>0, <2>1, WorkerTypes DEF Types, WorkerType
<1>2. CASE Wait(b)
  <2>1. CoroutineTypes'
    BY <1>0, <1>2 DEF Wait, CoroutineTypes, Types, WorkerType, Stages, source
  <2> QED BY <1>0, <2>1, WorkerTypes DEF Types, WorkerType
<1>3. CASE UpdateRouter(b)
  <2>1. mutex' \in Coroutines \cup {Nobody}
    BY <1>1, <1>2 DEF Enter, Wait, WaitEnds, WaitTimesOut, LoadFails, Leave, Types, WorkerType
  <2>2. CoroutineTypes'
    BY <1>0, <1>3, <2>1, UpdateRouterTypes
  <2> QED BY <1>0, <2>2, WorkerTypes DEF Types, WorkerType
<1> QED BY <1>1, <1>2, <1>3 DEF Enter, WaitEnds, WaitTimesOut

LEMMA MatchTypes ==
  ASSUME Types, NEW r \in Routes, Match(r)
  PROVE  Types'
<1>1. cached' \in [Routes -> Int] /\ \A q \in Routes : cached'[q] \in -1..writes
  BY Numbers DEF Match, Types, WorkerType
<1>2. CoroutineTypes'
  BY DEF Match, CoroutineTypes, Types, WorkerType, source
<1> QED BY <1>1, <1>2, WorkerTypes DEF Match, Types, WorkerType

LEMMA TypesInitially == Init => Types
<1> SUFFICES ASSUME Init PROVE Types
  OBVIOUS
<1>1. SourceType
  BY NoJobType, RouterRebuildAssumption
  DEF Init, SourceType, Absent, First, Entity, RouterRebuildAssumption
<1>2. WorkerType
  <2>1. router \in Router /\ \A r \in Routes : router.matchers[r].version <= writes
    <3>1. \A r \in Routes : Kept(db[r]) \in Entity /\ Kept(db[r]).version <= writes
      BY <1>1, NoJobType DEF SourceType, Kept, Absent, Init
    <3> QED BY <3>1 DEF Init, Router
  <2>2. /\ built \in 0..epoch /\ mutex \in Coroutines \cup {Nobody}
        /\ pc \in [Coroutines -> Stages]
    BY DEF Init, Stages
  <2>5. bypassed \in BOOLEAN
    BY DEF Init
  <2>4. cached \in [Routes -> Int] /\ \A r \in Routes : cached[r] \in -1..writes
    <3>1. \A r \in Routes : cached[r] = -1
      BY DEF Init
    <3>2. -1 \in -1..1
      OBVIOUS
    <3> QED BY <3>1, <3>2 DEF Init
  <2>3. /\ job \in [Coroutines -> Job]
        /\ \A b \in Coroutines : /\ job[b].target <= epoch
                                 /\ \A r \in Routes : job[b].found[r].version <= writes
    BY NoJobType DEF Init
  <2> QED BY <2>1, <2>2, <2>3, <2>4, <2>5 DEF WorkerType
<1> QED BY <1>1, <1>2 DEF Types

LEMMA TypesInductive == Types /\ [Next]_vars => Types'
<1> SUFFICES ASSUME Types, [Next]_vars PROVE Types'
  OBVIOUS
<1>1. ASSUME NEW r \in Routes, Write(r) PROVE Types'
  BY <1>1, SourceTypes DEF Write
<1>2. ASSUME NEW r \in Matched, Match(r) PROVE Types'
  BY <1>2, MatchTypes, RouterRebuildAssumption DEF RouterRebuildAssumption
<1>3. ASSUME Invalidate PROVE Types'
  BY <1>3, SourceTypes DEF Invalidate
<1>4. ASSUME NEW b \in Coroutines,
             Enter(b) \/ Wait(b) \/ WaitEnds(b) \/ WaitTimesOut(b) \/ LoadFails(b)
      PROVE  Types'
  BY <1>4, OtherTypes
<1>5. ASSUME NEW b \in Coroutines, Build(b) PROVE Types'
  BY <1>5, BuildTypes
<1>6. ASSUME UNCHANGED vars PROVE Types'
  BY <1>6 DEF vars, source, worker, Types, SourceType, WorkerType
<1> QED BY <1>1, <1>2, <1>3, <1>4, <1>5, <1>6 DEF Next

LEMMA TypesAlways == Spec => []Types
BY TypesInitially, TypesInductive, PTL DEF Spec

\* Versions never exceed the writes made, the router is never newer than the
\* version the worker sees, nor a build's target newer than that.
THEOREM TypeCorrect == Spec => []TypeOK
<1>1. Types => TypeOK
  <2> SUFFICES ASSUME Types PROVE TypeOK
    OBVIOUS
  <2>1. /\ latest \in 0..MaxSecond /\ behind \subseteq 1..writes /\ writes \in 0..MaxWrites
        /\ pending \in 0..writes /\ epoch = writes - pending /\ built \in 0..epoch
    BY DEF Types, SourceType, WorkerType
  <2>2. \A r \in Routes : /\ db[r].version \in 0..writes /\ router.matchers[r].version \in 0..writes
                          /\ cached[r] \in -1..writes
    BY Numbers DEF Types, SourceType, WorkerType
  <2>3. mutex \in Coroutines \cup {Nobody} /\ bypassed \in BOOLEAN
    BY DEF Types, WorkerType
  <2>4. \A b \in Coroutines : pc[b] \in Stages /\ job[b].target \in 0..epoch
    BY Numbers DEF Types, WorkerType
  <2> QED BY <2>1, <2>2, <2>3, <2>4 DEF TypeOK, Stages
<1> QED BY <1>1, TypesAlways, PTL

-----------------------------------------------------------------------------
(* One rebuild in place *)

\* A step in which no coroutine begins or ends an update in place.
LEMMA MarkStays ==
  ASSUME MarkInv, router'.rebuilding = router.rebuilding,
         \A c \in Coroutines :
           pc'[c] \in {"updating", "removing"} <=> pc[c] \in {"updating", "removing"}
  PROVE  MarkInv'
<1>1. InPlace' = InPlace
  BY DEF InPlace
<1> QED BY <1>1 DEF MarkInv

LEMMA WithMark ==
  ASSUME NEW r, NEW e, NEW v
  PROVE  /\ With(r, e, v).rebuilding = router.rebuilding
         /\ With(r, e, v).updatedAt = router.updatedAt
BY DEF With

LEMMA BeginUpdateMark ==
  ASSUME Types, MarkInv, NEW b \in Coroutines, BeginUpdate(b)
  PROVE  MarkInv'
<1>1. pc \in [Coroutines -> Stages] /\ router \in Router /\ pc[b] = "loaded"
  BY DEF BeginUpdate, Types, WorkerType
<1>2. CASE router.rebuilding
  BY <1>1, <1>2, MarkStays DEF BeginUpdate, Leave
<1>3. CASE ~router.rebuilding
  <2>1. router'.rebuilding /\ pc' = [pc EXCEPT ![b] = "updating"]
    BY <1>1, <1>3 DEF BeginUpdate, Router
  <2>2. InPlace = {}
    BY <1>3 DEF MarkInv
  <2>3. InPlace' = {b}
    BY <1>1, <2>1, <2>2 DEF InPlace
  <2> QED BY <2>1, <2>3 DEF MarkInv
<1> QED BY <1>2, <1>3

LEMMA InstallMark ==
  ASSUME Types, MarkInv, NEW b \in Coroutines, Install(b)
  PROVE  MarkInv'
<1>1. pc \in [Coroutines -> Stages] /\ router \in Router /\ pc[b] = "removing"
  BY DEF Install, Types, WorkerType
<1>2. router'.rebuilding = FALSE /\ pc' = [pc EXCEPT ![b] = "idle"]
  BY <1>1 DEF Install, Leave, Router
<1>3. InPlace = {b}
  BY <1>1 DEF MarkInv, InPlace
<1>4. InPlace' = {}
  BY <1>1, <1>2, <1>3 DEF InPlace
<1> QED BY <1>2, <1>4 DEF MarkInv

LEMMA MarkInductive ==
  ASSUME Types, MarkInv, [Next]_vars
  PROVE  MarkInv'
<1>0. pc \in [Coroutines -> Stages]
  BY DEF Types, WorkerType
<1>1. ASSUME UNCHANGED <<router, pc>> PROVE MarkInv'
  BY <1>1, MarkStays
<1>2. ASSUME NEW b \in Coroutines, Enter(b) \/ Wait(b) \/ WaitEnds(b) \/ WaitTimesOut(b)
      PROVE  MarkInv'
  <2>1. /\ router' = router /\ pc[b] \in {"idle", "waiting"}
        /\ \E s \in {"idle", "waiting", "loading"} : pc' = [pc EXCEPT ![b] = s]
    BY <1>2 DEF Enter, Wait, WaitEnds, WaitTimesOut, UpdateRouter
  <2> QED BY <1>0, <2>1, MarkStays
<1>3. ASSUME NEW b \in Coroutines, LoadPage(b) \/ LoadFails(b) PROVE MarkInv'
  <2>1. /\ router' = router /\ pc[b] = "loading"
        /\ \E s \in {"idle", "loading", "loaded"} : pc' = [pc EXCEPT ![b] = s]
    BY <1>3 DEF LoadPage, LoadFails, Leave
  <2> QED BY <1>0, <2>1, MarkStays
<1>4. ASSUME NEW b \in Coroutines, UpdateRoute(b) \/ RemoveRoute(b) PROVE MarkInv'
  <2>1. pc' = pc /\ (router' = router \/ \E r, e, v : router' = With(r, e, v))
    <3>1. CASE UpdateRoute(b)
      BY <3>1, UpdateRouteStep
    <3>2. CASE RemoveRoute(b)
      BY <3>2 DEF RemoveRoute
    <3> QED BY <1>4, <3>1, <3>2
  <2>2. router'.rebuilding = router.rebuilding
    BY <2>1, WithMark
  <2> QED BY <2>1, <2>2, MarkStays
<1>5. ASSUME NEW b \in Coroutines, AllUpdated(b) PROVE MarkInv'
  BY <1>0, <1>5, MarkStays DEF AllUpdated
<1>6. ASSUME NEW b \in Coroutines, Build(b) PROVE MarkInv'
  BY <1>3, <1>4, <1>5, <1>6, BeginUpdateMark, InstallMark DEF Build
<1>7. ASSUME Invalidate \/ (\E r \in Routes : Write(r)) \/ UNCHANGED vars
      PROVE  MarkInv'
  BY <1>1, <1>7 DEF Invalidate, Write, worker, vars
<1>8. ASSUME NEW r \in Matched, Match(r) PROVE MarkInv'
  BY <1>1, <1>8 DEF Match
<1> QED BY <1>2, <1>3, <1>6, <1>7, <1>8 DEF Next

\* However many timers and requests rebuild, and whether or not a request has
\* bypassed the mutex: the router is marked as rebuilding exactly while one
\* coroutine changes it (new_from_previous), and never more than one does.
THEOREM OneRebuild == Spec => []OneRebuildInPlace
<1>1. Init => MarkInv
  BY DEF Init, MarkInv, InPlace
<1>2. Types /\ MarkInv /\ [Next]_vars => MarkInv'
  BY MarkInductive
<1>3. MarkInv => OneRebuildInPlace
  <2> SUFFICES ASSUME MarkInv PROVE OneRebuildInPlace
    OBVIOUS
  <2>1. CASE InPlace = {}
    BY <2>1, FS_EmptySet DEF MarkInv, OneRebuildInPlace
  <2>2. CASE InPlace # {}
    <3>1. PICK b \in InPlace : InPlace = {b}
      BY <2>2 DEF MarkInv
    <3> QED BY <2>2, <3>1, FS_Singleton DEF MarkInv, OneRebuildInPlace
  <2> QED BY <2>1, <2>2
<1> QED BY <1>1, <1>2, <1>3, TypesAlways, PTL DEF Spec

-----------------------------------------------------------------------------
(* The match caches *)

LEMMA CacheInductive ==
  ASSUME Types, MarkInv, NoStaleMatch, [Next]_vars
  PROVE  NoStaleMatch'
<1>0. cached \in [Routes -> Int]
  BY DEF Types, WorkerType
<1>1. ASSUME UNCHANGED <<router, cached>> PROVE NoStaleMatch'
  BY <1>1 DEF NoStaleMatch
<1>2. ASSUME router'.rebuilding PROVE NoStaleMatch'
  BY <1>2 DEF NoStaleMatch
<1>3. ASSUME NEW b \in Coroutines, BeginUpdate(b) PROVE NoStaleMatch'
  <2>1. CASE router.rebuilding
    BY <1>1, <1>3, <2>1 DEF BeginUpdate
  <2>2. CASE ~router.rebuilding
    BY <1>2, <1>3, <2>2 DEF BeginUpdate, Types, WorkerType, Router
  <2> QED BY <2>1, <2>2
<1>4. ASSUME NEW b \in Coroutines, UpdateRoute(b) \/ RemoveRoute(b) PROVE NoStaleMatch'
  <2>1. router.rebuilding
    BY <1>4 DEF UpdateRoute, RemoveRoute, MarkInv, InPlace
  <2>2. router' = router \/ \E r, e, v : router' = With(r, e, v)
    <3>1. CASE UpdateRoute(b)
      BY <3>1, UpdateRouteStep
    <3>2. CASE RemoveRoute(b)
      BY <3>2 DEF RemoveRoute
    <3> QED BY <1>4, <3>1, <3>2
  <2> QED BY <1>2, <2>1, <2>2, WithMark
<1>5. ASSUME NEW b \in Coroutines, Install(b) PROVE NoStaleMatch'
  BY <1>5 DEF Install, NoStaleMatch
<1>6. ASSUME NEW b \in Coroutines, Build(b) PROVE NoStaleMatch'
  BY <1>1, <1>3, <1>4, <1>5, <1>6 DEF Build, LoadPage, AllUpdated
<1>7. ASSUME NEW b \in Coroutines,
             Enter(b) \/ Wait(b) \/ WaitEnds(b) \/ WaitTimesOut(b) \/ LoadFails(b)
      PROVE  NoStaleMatch'
  BY <1>1, <1>7 DEF Enter, Wait, WaitEnds, WaitTimesOut, LoadFails
<1>8. ASSUME Invalidate \/ (\E r \in Routes : Write(r)) \/ UNCHANGED vars
      PROVE  NoStaleMatch'
  BY <1>1, <1>8 DEF Invalidate, Write, worker, vars
<1>9. ASSUME NEW r \in Matched, Match(r) PROVE NoStaleMatch'
  BY <1>0, <1>9 DEF Match, NoStaleMatch
<1> QED BY <1>6, <1>7, <1>8, <1>9 DEF Next

\* Between rebuilds, whatever was cached while the last one ran (exec, the
\* flush in build_router), a cached match is what the engine would answer.
THEOREM CachesAgree == Spec => []NoStaleMatch
<1>1. Init => NoStaleMatch
  BY DEF Init, NoStaleMatch
<1>2. Init => MarkInv
  BY DEF Init, MarkInv, InPlace
<1>3. Types /\ MarkInv /\ NoStaleMatch /\ [Next]_vars => MarkInv' /\ NoStaleMatch'
  BY MarkInductive, CacheInductive
<1> QED BY <1>1, <1>2, <1>3, TypesAlways, PTL DEF Spec

-----------------------------------------------------------------------------
(* Any number of pages, and requests that bypass the mutex *)

LEMMA FindRoute ==
  ASSUME Types, MatchersFindRoutes, NEW r \in Routes, NEW e \in Entity, NEW v \in Entity,
         v = Absent <=> e = Absent, v.at = e.at, router' = With(r, e, v)
  PROVE  MatchersFindRoutes'
<1>1. router.matchers \in [Routes -> Entity] /\ router.routes \in [Routes -> Entity]
  BY DEF Types, WorkerType, Router
<1>2. /\ router'.matchers = [router.matchers EXCEPT ![r] = v]
      /\ router'.routes = [router.routes EXCEPT ![r] = e]
  BY DEF With
<1> QED BY <1>1, <1>2 DEF MatchersFindRoutes

LEMMA FindInductive ==
  ASSUME Types, MatchersFindRoutes, [Next]_vars
  PROVE  MatchersFindRoutes'
<1>1. ASSUME router'.matchers = router.matchers, router'.routes = router.routes
      PROVE  MatchersFindRoutes'
  BY <1>1 DEF MatchersFindRoutes
<1>2. ASSUME NEW b \in Coroutines, UpdateRoute(b) PROVE MatchersFindRoutes'
  <2> DEFINE r   == job[b].next
             new == job[b].found[r]
             old == router.routes[r]
  <2>1. /\ r \in Routes /\ new \in Entity /\ old \in Entity /\ Absent \in Entity
        /\ router.matchers[r] \in Entity
    BY <1>2, UpdateRouteStep, NoJobType DEF Types, WorkerType, Router
  <2>2. CASE new = Absent
    BY <1>1, <1>2, <2>2, UpdateRouteStep
  <2>3. CASE new # Absent /\ Refused(b)
    BY <1>2, <2>1, <2>3, UpdateRouteStep, FindRoute
  <2>4. CASE new # Absent /\ ~Refused(b) /\ Modified(old, new)
    BY <1>2, <2>1, <2>4, UpdateRouteStep, FindRoute
  <2>5. CASE new # Absent /\ ~Modified(old, new)
    <3>1. old # Absent /\ new.at = old.at /\ ~Refused(b)
      BY <2>5 DEF Modified, Refused
    <3>2. router.matchers[r] # Absent /\ router.matchers[r].at = new.at
      BY <2>1, <3>1 DEF MatchersFindRoutes
    <3>3. router' = With(r, new, router.matchers[r])
      BY <1>2, <2>5, <3>1, UpdateRouteStep
    <3> QED BY <2>1, <2>5, <3>2, <3>3, FindRoute
  <2> QED BY <2>2, <2>3, <2>4, <2>5
<1>3. ASSUME NEW b \in Coroutines, RemoveRoute(b) PROVE MatchersFindRoutes'
  <2>1. PICK r \in Routes : router' = With(r, Absent, Absent)
    BY <1>3 DEF RemoveRoute, ToRemove
  <2> QED BY <2>1, NoJobType, FindRoute
<1>4. ASSUME NEW b \in Coroutines, BeginUpdate(b) \/ Install(b) PROVE MatchersFindRoutes'
  BY <1>1, <1>4 DEF BeginUpdate, Install, Types, WorkerType, Router
<1>5. ASSUME NEW b \in Coroutines, Build(b) PROVE MatchersFindRoutes'
  BY <1>1, <1>2, <1>3, <1>4, <1>5 DEF Build, LoadPage, AllUpdated
<1>6. ASSUME NEW b \in Coroutines,
             Enter(b) \/ Wait(b) \/ WaitEnds(b) \/ WaitTimesOut(b) \/ LoadFails(b)
      PROVE  MatchersFindRoutes'
  BY <1>1, <1>6 DEF Enter, Wait, WaitEnds, WaitTimesOut, LoadFails
<1>7. ASSUME \/ Invalidate \/ (\E r \in Routes : Write(r)) \/ UNCHANGED vars
             \/ \E r \in Matched : Match(r)
      PROVE  MatchersFindRoutes'
  BY <1>1, <1>7 DEF Invalidate, Write, Match, worker, vars
<1> QED BY <1>5, <1>6, <1>7 DEF Next

\* For any number of pages, and also behind a build that bypassed the mutex: in
\* every yield of a rebuild the engine has a matcher exactly for each route in
\* the router's table, so that a match finds its route and no assertion on
\* remove_matcher fails; and a matcher that is behind its route was made from
\* a version of the same second.
THEOREM EveryMatchFindsARoute == Spec => []MatchersFindRoutes
<1>1. Init => MatchersFindRoutes
  BY DEF Init, MatchersFindRoutes
<1>2. Types /\ MatchersFindRoutes /\ [Next]_vars => MatchersFindRoutes'
  BY FindInductive
<1> QED BY <1>1, <1>2, TypesAlways, PTL DEF Spec

\* The pages before the last cover the routes.
LEMMA PageOf ==
  ASSUME NEW r \in Routes
  PROVE  /\ (r - 1) \div PageSize \in Nat
         /\ (r - 1) \div PageSize <= LastPage - 1
<1>1. NumRoutes \in Nat \ {0} /\ PageSize \in Nat \ {0} /\ r \in 1..NumRoutes
  BY RouterRebuildAssumption DEF RouterRebuildAssumption, Routes
<1> DEFINE p == (r - 1) \div PageSize
<1>2. p \in Nat /\ PageSize * p <= r - 1
  BY <1>1
<1>3. PageSize * (p + 1) <= NumRoutes + PageSize - 1
  BY <1>1, <1>2
<1> HIDE DEF p
<1>4. LastPage \in Int /\ NumRoutes + PageSize - 1 < PageSize * (LastPage + 1)
  BY <1>1 DEF LastPage
<1>5. PageSize * (p + 1) < PageSize * (LastPage + 1)
  BY <1>1, <1>2, <1>3, <1>4
<1>6. p + 1 < LastPage + 1
  BY <1>1, <1>2, <1>4, <1>5
<1>7. p \in Nat /\ p <= LastPage - 1
  BY <1>2, <1>4, <1>6
<1> QED BY <1>7 DEF p

\* Whether a build has read the page of route r.
HasRead(b, r) == \/ Gathered(b)
                 \/ pc[b] = "loading" /\ (r - 1) \div PageSize + 1 < job[b].next

\* A build for the version the worker sees, with no write on its way to the
\* worker, has not missed one: what it has read is the database.
ReadInv ==
  \A b \in Coroutines : pending = 0 /\ job[b].target = epoch =>
    \A r \in Routes : HasRead(b, r) => job[b].found[r] = db[r]

\* The table of routes has what the build found, or nothing if it was refused.
Taken(b, r) == \/ router.routes[r] = job[b].found[r]
               \/ router.routes[r] = Absent /\ job[b].found[r].version \in BadVersions

TakenInv ==
  \A b \in InPlace, r \in Routes :
    (pc[b] = "removing" \/ r < job[b].next) /\ job[b].found[r] # Absent => Taken(b, r)

PagesInv == ReadInv /\ TakenInv /\ RoutesAreCurrent

\* A step in which builds begin, or end without a router.
LEMMA PagesOutside ==
  ASSUME Types, PagesInv, UNCHANGED <<source, built, router>>,
         \A c \in Coroutines : Building(c)' =>
           \/ pc'[c] = pc[c] /\ job'[c] = job[c]
           \/ pc'[c] = "loading" /\ job'[c].next = 1
  PROVE  PagesInv'
<1>1. UNCHANGED <<db, pending, epoch>>
  BY DEF source
<1>2. ReadInv'
  <2> SUFFICES ASSUME NEW b \in Coroutines, pending = 0, job'[b].target = epoch,
                      NEW r \in Routes, HasRead(b, r)'
               PROVE  job'[b].found[r] = db[r]
    BY <1>1 DEF ReadInv
  <2>1. Building(b)'
    BY DEF HasRead, Gathered, Building
  <2>2. ~(pc'[b] = "loading" /\ job'[b].next = 1)
    BY PageOf DEF HasRead, Gathered
  <2>3. pc'[b] = pc[b] /\ job'[b] = job[b]
    BY <2>1, <2>2
  <2>4. HasRead(b, r)
    BY <2>3 DEF HasRead, Gathered
  <2> QED BY <2>3, <2>4 DEF PagesInv, ReadInv
<1>3. TakenInv'
  <2>1. \A c \in InPlace' : c \in InPlace /\ pc'[c] = pc[c] /\ job'[c] = job[c]
    BY DEF InPlace, Building
  <2> QED BY <2>1 DEF PagesInv, TakenInv, Taken
<1>4. RoutesAreCurrent'
  BY <1>1 DEF PagesInv, RoutesAreCurrent, UpToDate, Refusable
<1> QED BY <1>2, <1>3, <1>4 DEF PagesInv

LEMMA PagesSource ==
  ASSUME Types, PagesInv, Invalidate \/ \E r \in Routes : Write(r)
  PROVE  PagesInv'
<1>1. UNCHANGED <<built, router, pc, job>>
  BY DEF Invalidate, Write, worker
<1>2. TakenInv'
  BY <1>1 DEF PagesInv, TakenInv, Taken, InPlace
<1>3. ReadInv' /\ RoutesAreCurrent'
  <2>1. CASE \E r \in Routes : Write(r)
    <3>1. pending' # 0
      BY <2>1, Numbers DEF Write
    <3> QED BY <3>1 DEF ReadInv, RoutesAreCurrent, UpToDate
  <2>2. CASE Invalidate
    <3>1. built' # epoch' /\ \A b \in Coroutines : job'[b].target # epoch'
      BY <1>1, <2>2, Numbers DEF Invalidate, Types, WorkerType
    <3> QED BY <3>1 DEF ReadInv, RoutesAreCurrent, UpToDate
  <2> QED BY <2>1, <2>2
<1> QED BY <1>2, <1>3 DEF PagesInv

LEMMA PagesLoad ==
  ASSUME Types, PagesInv, NEW b \in Coroutines, LoadPage(b)
  PROVE  PagesInv'
<1>1. CASE Leave(b)
  <2>1. \A c \in Coroutines : Building(c)' => pc'[c] = pc[c] /\ job'[c] = job[c]
    BY <1>1 DEF Leave, Building, Types, WorkerType
  <2> QED BY <2>1, PagesOutside DEF LoadPage
<1>2. CASE ~Leave(b)
  <2> DEFINE n == job[b].next
             f == [r \in Routes |-> IF r \in Page(n) THEN db[r] ELSE job[b].found[r]]
  <2>1. /\ UNCHANGED <<db, pending, epoch, built, router>> /\ pc[b] = "loading"
        /\ Proceed(b, f, job[b].newest)
        /\ pc' = [pc EXCEPT ![b] = IF n = LastPage THEN "loaded" ELSE "loading"]
    BY <1>2 DEF LoadPage, source
  <2>2. /\ pc'[b] = IF n = LastPage THEN "loaded" ELSE "loading"
        /\ job'[b].next = n + 1 /\ job'[b].found = f /\ job'[b].target = job[b].target
        /\ \A c \in Coroutines \ {b} : pc'[c] = pc[c] /\ job'[c] = job[c]
    BY <2>1 DEF Proceed, Types, WorkerType
  <2>3. n \in Nat \ {0}
    BY JobFields
  <2>4. ReadInv'
    <3> SUFFICES ASSUME NEW c \in Coroutines, pending = 0, job'[c].target = epoch,
                        NEW r \in Routes, HasRead(c, r)'
                 PROVE  job'[c].found[r] = db[r]
      BY <2>1 DEF ReadInv
    <3>1. CASE c # b
      BY <2>2, <3>1 DEF PagesInv, ReadInv, HasRead, Gathered
    <3>2. CASE c = b /\ r \in Page(n)
      BY <2>2, <3>2
    <3>3. CASE c = b /\ r \notin Page(n)
      <4> DEFINE p == (r - 1) \div PageSize
      <4>1. p \in Nat /\ p <= LastPage - 1 /\ p # n - 1
        BY <3>3, PageOf DEF Page
      <4> HIDE DEF p
      <4>2. n = LastPage \/ p + 1 < n + 1
        BY <2>2, <3>3 DEF HasRead, Gathered, p
      <4>3. LastPage \in Int
        BY RouterRebuildAssumption DEF RouterRebuildAssumption, LastPage
      <4>4. p + 1 < n
        BY <2>3, <4>1, <4>2, <4>3
      <4>5. HasRead(b, r)
        BY <2>1, <4>4 DEF HasRead, p
      <4>6. f[r] = job[b].found[r]
        BY <3>3
      <4> QED BY <2>2, <3>3, <4>5, <4>6 DEF PagesInv, ReadInv
    <3> QED BY <3>1, <3>2, <3>3
  <2>5. TakenInv'
    <3>1. \A c \in InPlace' : c # b /\ c \in InPlace /\ pc'[c] = pc[c] /\ job'[c] = job[c]
      BY <2>2 DEF InPlace
    <3> QED BY <2>1, <3>1 DEF PagesInv, TakenInv, Taken
  <2>6. RoutesAreCurrent'
    BY <2>1 DEF PagesInv, RoutesAreCurrent, UpToDate, Refusable
  <2> QED BY <2>4, <2>5, <2>6 DEF PagesInv
<1> QED BY <1>1, <1>2

LEMMA PagesBegin ==
  ASSUME Types, PagesInv, NEW b \in Coroutines, BeginUpdate(b)
  PROVE  PagesInv'
<1>1. CASE router.rebuilding
  <2>1. \A c \in Coroutines : Building(c)' => pc'[c] = pc[c] /\ job'[c] = job[c]
    BY <1>1 DEF BeginUpdate, Leave, Building, Types, WorkerType
  <2> QED BY <1>1, <2>1, PagesOutside DEF BeginUpdate
<1>2. CASE ~router.rebuilding
  <2>1. /\ UNCHANGED <<db, pending, epoch, built>> /\ pc[b] = "loaded"
        /\ router' = [router EXCEPT !.rebuilding = TRUE]
        /\ pc' = [pc EXCEPT ![b] = "updating"]
        /\ job' = [job EXCEPT ![b] = [job[b] EXCEPT !.next = 1]]
    BY <1>2 DEF BeginUpdate, source
  <2>2. router'.rebuilding /\ router'.routes = router.routes
    BY <2>1 DEF Types, WorkerType, Router
  <2>3. /\ pc'[b] = "updating" /\ job'[b].next = 1
        /\ job'[b].target = job[b].target /\ job'[b].found = job[b].found
        /\ \A c \in Coroutines \ {b} : pc'[c] = pc[c] /\ job'[c] = job[c]
    BY <2>1, JobFields DEF Job, Types, WorkerType
  <2>4. ReadInv'
    BY <2>1, <2>3 DEF PagesInv, ReadInv, HasRead, Gathered
  <2>5. \A r \in Routes : ~(r < job'[b].next)
    BY <2>3, RouterRebuildAssumption DEF RouterRebuildAssumption, Routes
  <2>6. TakenInv'
    <3>1. \A c \in InPlace' : c = b \/ (c \in InPlace /\ pc'[c] = pc[c] /\ job'[c] = job[c])
      BY <2>3 DEF InPlace
    <3> QED BY <2>2, <2>3, <2>5, <3>1 DEF PagesInv, TakenInv, Taken
  <2> QED BY <2>2, <2>4, <2>6 DEF PagesInv, RoutesAreCurrent, UpToDate
<1> QED BY <1>1, <1>2

\* What does not change the job of an update in place, but for its progress.
LEMMA ReadStays ==
  ASSUME PagesInv, UNCHANGED <<db, pending, epoch>>, NEW b \in Coroutines, Gathered(b),
         job'[b].target = job[b].target, job'[b].found = job[b].found,
         \A c \in Coroutines \ {b} : pc'[c] = pc[c] /\ job'[c] = job[c]
  PROVE  ReadInv'
BY DEF PagesInv, ReadInv, HasRead, Gathered

LEMMA PagesUpdateRoute ==
  ASSUME Types, MarkInv, PagesInv, NEW b \in Coroutines, UpdateRoute(b)
  PROVE  PagesInv'
<1> DEFINE r   == job[b].next
           new == job[b].found[r]
<1>1. /\ UNCHANGED <<db, pending, epoch, built, pc>> /\ b \in InPlace /\ Gathered(b)
      /\ r \in Routes /\ new \in Entity /\ pc[b] = "updating"
  BY UpdateRouteStep DEF UpdateRoute, InPlace, Gathered, source
<1>2. PICK m : Proceed(b, job[b].found, m)
  BY UpdateRouteStep
<1>3. /\ job'[b].target = job[b].target /\ job'[b].found = job[b].found
      /\ job'[b].next = r + 1
      /\ \A c \in Coroutines \ {b} : pc'[c] = pc[c] /\ job'[c] = job[c]
  BY <1>1, <1>2, JobFields DEF Proceed
<1>4. ReadInv'
  BY <1>1, <1>3, ReadStays
<1>5. \A c \in InPlace' : c = b
  BY <1>1 DEF InPlace, MarkInv
<1>6. router' = router \/ \E e, v : router' = With(r, e, v)
  BY UpdateRouteStep
<1>7. router.routes \in [Routes -> Entity]
  BY DEF Types, WorkerType, Router
<1>8. \A q \in Routes \ {r} : router'.routes[q] = router.routes[q]
  BY <1>6, <1>7 DEF With
<1>9. new # Absent => \/ router'.routes[r] = new
                      \/ router'.routes[r] = Absent /\ new.version \in BadVersions
  <2>1. CASE new # Absent /\ Refused(b)
    <3>1. router' = With(r, Absent, Absent) /\ new.version \in BadVersions
      BY <2>1, UpdateRouteStep DEF Refused
    <3> QED BY <1>1, <1>7, <3>1 DEF With
  <2>2. CASE new # Absent /\ ~Refused(b)
    <3>1. \E v : router' = With(r, new, v)
      BY <2>2, UpdateRouteStep
    <3> QED BY <1>1, <1>7, <3>1 DEF With
  <2> QED BY <2>1, <2>2
<1>10. TakenInv'
  <2> SUFFICES ASSUME NEW q \in Routes, q < r + 1, job[b].found[q] # Absent
               PROVE  Taken(b, q)'
    BY <1>1, <1>3, <1>5 DEF TakenInv
  <2>1. CASE q = r
    BY <1>3, <1>9, <2>1 DEF Taken
  <2>2. CASE q # r
    <3>1. q < job[b].next
      BY <1>1, <2>2, RouterRebuildAssumption DEF Routes, RouterRebuildAssumption
    <3>2. Taken(b, q)
      BY <1>1, <3>1 DEF PagesInv, TakenInv
    <3> QED BY <1>3, <1>8, <2>2, <3>2 DEF Taken
  <2> QED BY <2>1, <2>2
<1>11. router'.rebuilding
  BY <1>1, <1>6, WithMark DEF MarkInv
<1> QED BY <1>4, <1>10, <1>11 DEF PagesInv, RoutesAreCurrent, UpToDate

LEMMA PagesRemoveRoute ==
  ASSUME Types, MarkInv, PagesInv, NEW b \in Coroutines, RemoveRoute(b)
  PROVE  PagesInv'
<1>1. PICK r \in Routes : job[b].found[r] = Absent /\ router' = With(r, Absent, Absent)
  BY DEF RemoveRoute, ToRemove
<1>2. /\ UNCHANGED <<db, pending, epoch, built, pc, job>> /\ b \in InPlace /\ Gathered(b)
  BY DEF RemoveRoute, InPlace, Gathered, source
<1>3. ReadInv'
  BY <1>2, ReadStays
<1>4. \A q \in Routes \ {r} : router'.routes[q] = router.routes[q]
  BY <1>1 DEF With, Types, WorkerType, Router
<1>5. \A c \in InPlace' : c = b
  BY <1>2 DEF InPlace, MarkInv
<1>6. TakenInv'
  <2> SUFFICES ASSUME NEW q \in Routes, pc[b] = "removing" \/ q < job[b].next,
                      job[b].found[q] # Absent
               PROVE  Taken(b, q)'
    BY <1>2, <1>5 DEF TakenInv
  <2>1. Taken(b, q) /\ q # r
    BY <1>1, <1>2 DEF PagesInv, TakenInv
  <2> QED BY <1>2, <1>4, <2>1 DEF Taken
<1>7. router'.rebuilding
  BY <1>1, <1>2, WithMark DEF MarkInv
<1> QED BY <1>3, <1>6, <1>7 DEF PagesInv, RoutesAreCurrent, UpToDate

LEMMA PagesAllUpdated ==
  ASSUME Types, PagesInv, NEW b \in Coroutines, AllUpdated(b)
  PROVE  PagesInv'
<1>1. /\ UNCHANGED <<db, pending, epoch, built, router, job>> /\ Gathered(b)
      /\ pc[b] = "updating" /\ pc' = [pc EXCEPT ![b] = "removing"]
  BY DEF AllUpdated, source, Gathered
<1>2. \A c \in Coroutines \ {b} : pc'[c] = pc[c] /\ job'[c] = job[c]
  BY <1>1 DEF Types, WorkerType
<1>3. ReadInv'
  BY <1>1, <1>2, ReadStays
<1>4. \A r \in Routes : r < job[b].next
  BY JobFields, RouterRebuildAssumption DEF AllUpdated, Routes, RouterRebuildAssumption
<1>5. InPlace' = InPlace
  BY <1>1, <1>2 DEF InPlace, Types, WorkerType
<1>6. TakenInv'
  BY <1>1, <1>2, <1>4, <1>5 DEF PagesInv, TakenInv, Taken, InPlace
<1> QED
  BY <1>1, <1>3, <1>6 DEF PagesInv, RoutesAreCurrent, UpToDate, Refusable

LEMMA PagesInstall ==
  ASSUME Types, MarkInv, PagesInv, NEW b \in Coroutines, Install(b)
  PROVE  PagesInv'
<1>1. /\ UNCHANGED <<db, pending, epoch>> /\ built' = job[b].target
      /\ b \in InPlace /\ Gathered(b) /\ pc[b] = "removing" /\ Leave(b)
  BY DEF Install, source, InPlace, Gathered
<1>2. router'.routes = router.routes
  BY DEF Install, Types, WorkerType, Router
<1>3. /\ pc'[b] = "idle"
      /\ \A c \in Coroutines \ {b} : pc'[c] = pc[c] /\ job'[c] = job[c]
  BY <1>1 DEF Leave, Types, WorkerType
<1>4. ReadInv'
  <2>1. \A c \in Coroutines, r \in Routes : HasRead(c, r)' => c # b /\ HasRead(c, r)
    BY <1>3 DEF HasRead, Gathered
  <2> QED BY <1>1, <1>3, <2>1 DEF PagesInv, ReadInv
<1>5. TakenInv'
  <2>1. InPlace' = {}
    BY <1>1, <1>3 DEF InPlace, MarkInv
  <2> QED BY <2>1 DEF TakenInv
<1>6. \A r \in Routes : Taken(b, r)
  <2> SUFFICES ASSUME NEW r \in Routes PROVE Taken(b, r)
    OBVIOUS
  <2>1. CASE job[b].found[r] = Absent
    BY <2>1 DEF Install, ToRemove, Taken
  <2>2. CASE job[b].found[r] # Absent
    BY <1>1, <2>2 DEF PagesInv, TakenInv
  <2> QED BY <2>1, <2>2
<1>7. RoutesAreCurrent'
  <2> SUFFICES ASSUME pending = 0, job[b].target = epoch, NEW r \in Routes
               PROVE  \/ router.routes[r] = db[r]
                      \/ router.routes[r] = Absent /\ db[r].version \in BadVersions
    BY <1>1, <1>2 DEF RoutesAreCurrent, UpToDate, Refusable
  <2>1. job[b].found[r] = db[r]
    BY <1>1 DEF PagesInv, ReadInv, HasRead
  <2> QED BY <1>6, <2>1 DEF Taken
<1> QED BY <1>4, <1>5, <1>7 DEF PagesInv

LEMMA PagesInductive ==
  ASSUME Types, MarkInv, PagesInv, [Next]_vars
  PROVE  PagesInv'
<1>1. ASSUME Invalidate \/ \E r \in Routes : Write(r) PROVE PagesInv'
  BY <1>1, PagesSource
<1>2. ASSUME (\E r \in Matched : Match(r)) \/ UNCHANGED vars PROVE PagesInv'
  BY <1>2, PagesOutside DEF Match, vars, worker
<1>3. ASSUME NEW b \in Coroutines,
             Enter(b) \/ Wait(b) \/ WaitEnds(b) \/ WaitTimesOut(b) \/ LoadFails(b)
      PROVE  PagesInv'
  <2>1. UNCHANGED <<source, built, router>>
    BY <1>3 DEF Enter, Wait, WaitEnds, WaitTimesOut, LoadFails
  <2>2. JobFor(epoch).next = 1
    BY JobType, Numbers
  <2>3. \A c \in Coroutines : Building(c)' =>
          \/ pc'[c] = pc[c] /\ job'[c] = job[c]
          \/ pc'[c] = "loading" /\ job'[c].next = 1
    BY <1>3, <2>2
    DEF Enter, Wait, WaitEnds, WaitTimesOut, LoadFails, Leave, UpdateRouter, Building, Types,
        WorkerType
  <2> QED BY <2>1, <2>3, PagesOutside
<1>4. ASSUME NEW b \in Coroutines, Build(b) PROVE PagesInv'
  BY <1>4, PagesLoad, PagesBegin, PagesUpdateRoute, PagesRemoveRoute, PagesAllUpdated,
     PagesInstall DEF Build
<1> QED BY <1>1, <1>2, <1>3, <1>4 DEF Next

\* For any number of pages, and also behind a build that bypassed the mutex:
\* once the worker has built a router for the version it sees, and no write is
\* on its way, the router's table has each route of the database as it is, and
\* no other; only those the engine may refuse can be missing.  (Of a route in
\* the table the engine may still match an expression of the same second.)
THEOREM TableLosesNoWrite == Spec => []RoutesAreCurrent
<1>1. Init => MarkInv /\ PagesInv
  <2> SUFFICES ASSUME Init PROVE MarkInv /\ PagesInv
    OBVIOUS
  <2>1. \A b \in Coroutines : pc[b] = "idle"
    BY DEF Init
  <2>2. InPlace = {} /\ MarkInv
    BY <2>1 DEF Init, InPlace, MarkInv
  <2>3. ReadInv /\ TakenInv
    BY <2>1, <2>2 DEF ReadInv, HasRead, Gathered, TakenInv
  <2>4. RoutesAreCurrent
    BY DEF Init, RoutesAreCurrent, Kept, Refusable
  <2> QED BY <2>2, <2>3, <2>4 DEF PagesInv
<1>2. Types /\ MarkInv /\ PagesInv /\ [Next]_vars => MarkInv' /\ PagesInv'
  BY MarkInductive, PagesInductive
<1>3. PagesInv => RoutesAreCurrent
  BY DEF PagesInv
<1> QED BY <1>1, <1>2, <1>3, TypesAlways, PTL DEF Spec

-----------------------------------------------------------------------------
(* One page *)

LEMMA OnePage ==
  ASSUME NumRoutes <= PageSize
  PROVE  LastPage = 1 /\ Page(1) = Routes
<1>1. NumRoutes \in Nat \ {0} /\ PageSize \in Nat \ {0}
  BY RouterRebuildAssumption DEF RouterRebuildAssumption
<1>2. \A n \in Nat : n < PageSize => n \div PageSize = 0
  BY <1>1
<1>3. \A n \in Nat : PageSize <= n /\ n < 2 * PageSize => n \div PageSize = 1
  BY <1>1
<1>4. LastPage = 1
  BY <1>1, <1>3 DEF LastPage
<1>5. \A r \in Routes : (r - 1) \div PageSize = 0
  BY <1>1, <1>2 DEF Routes
<1> QED BY <1>4, <1>5 DEF Page

\* The mutex and the first page: what holds whether or not the build is right.
LEMMA MutexInductive ==
  ASSUME Types, MutexInv, [Next]_vars
  PROVE  MutexInv'
<1>0. /\ pc \in [Coroutines -> Stages] /\ Nobody \notin Coroutines
      /\ bypassed \in BOOLEAN /\ Matched \subseteq Routes
  BY RouterRebuildAssumption DEF Types, WorkerType, RouterRebuildAssumption
<1>1. ASSUME UNCHANGED <<pc, mutex, bypassed>> PROVE MutexInv'
  BY <1>1 DEF MutexInv, Building
<1>2. ASSUME NEW b \in Coroutines, Building(b), Leave(b), bypassed' = bypassed PROVE MutexInv'
  BY <1>0, <1>2 DEF MutexInv, Building, Leave
<1>3. ASSUME NEW b \in Coroutines, Building(b), mutex' = mutex, bypassed' = bypassed,
             NEW s \in Stages, pc' = [pc EXCEPT ![b] = s]
      PROVE  MutexInv'
  BY <1>0, <1>3 DEF MutexInv, Building
<1>4. ASSUME NEW b \in Coroutines, Enter(b) PROVE MutexInv'
  BY <1>0, <1>4 DEF MutexInv, Building, Enter, UpdateRouter
<1>5. ASSUME NEW b \in Coroutines, Wait(b) PROVE MutexInv'
  BY <1>0, <1>5 DEF MutexInv, Building, Wait
<1>6. ASSUME NEW b \in Coroutines, WaitEnds(b) PROVE MutexInv'
  BY <1>0, <1>6 DEF MutexInv, Building, WaitEnds, UpdateRouter
<1>7. ASSUME NEW b \in Coroutines, WaitTimesOut(b) PROVE MutexInv'
  BY <1>7 DEF MutexInv, WaitTimesOut
<1>8. ASSUME NEW b \in Coroutines, LoadFails(b) PROVE MutexInv'
  BY <1>2, <1>8 DEF LoadFails, Building
<1>9. ASSUME NEW b \in Coroutines, Build(b) PROVE MutexInv'
  <2>1. CASE LoadPage(b)
    <3>1. Building(b) /\ bypassed' = bypassed
      BY <2>1 DEF LoadPage, Building
    <3>2. Leave(b) \/ (/\ mutex' = mutex
                       /\ \E s \in Stages : pc' = [pc EXCEPT ![b] = s])
      BY <2>1 DEF LoadPage, Stages
    <3> QED BY <1>2, <1>3, <3>1, <3>2
  <2>2. CASE BeginUpdate(b)
    <3>1. Building(b) /\ bypassed' = bypassed
      BY <2>2 DEF BeginUpdate, Building
    <3>2. Leave(b) \/ (/\ mutex' = mutex
                       /\ \E s \in Stages : pc' = [pc EXCEPT ![b] = s])
      BY <2>2 DEF BeginUpdate, Stages
    <3> QED BY <1>2, <1>3, <3>1, <3>2
  <2>3. CASE UpdateRoute(b) \/ RemoveRoute(b)
    BY <1>1, <2>3 DEF UpdateRoute, RemoveRoute
  <2>4. CASE AllUpdated(b)
    <3>1. Building(b) /\ UNCHANGED <<mutex, bypassed>> /\ "removing" \in Stages
          /\ pc' = [pc EXCEPT ![b] = "removing"]
      BY <2>4 DEF AllUpdated, Building, Stages
    <3> QED BY <1>3, <3>1
  <2>5. CASE Install(b)
    BY <1>2, <2>5 DEF Install, Building
  <2> QED BY <1>9, <2>1, <2>2, <2>3, <2>4, <2>5 DEF Build
<1>10. ASSUME Invalidate \/ (\E r \in Routes : Write(r)) \/ UNCHANGED vars
       PROVE  MutexInv'
  BY <1>1, <1>10 DEF Invalidate, Write, worker, vars
<1>11. ASSUME NEW r \in Matched, Match(r) PROVE MutexInv'
  BY <1>1, <1>11 DEF Match
<1> QED BY <1>4, <1>5, <1>6, <1>7, <1>8, <1>9, <1>10, <1>11 DEF Next

LEMMA LoadingInductive ==
  ASSUME Types, LoadingInv, NumRoutes <= PageSize, [Next]_vars
  PROVE  LoadingInv'
<1>0. /\ pc \in [Coroutines -> Stages] /\ job \in [Coroutines -> Job]
      /\ NoJob.next = 1 /\ NoJob.newest = 0 /\ epoch \in Nat
      /\ JobFor(epoch).next = 1 /\ JobFor(epoch).newest = 0
  BY NoJobType, Numbers DEF Types, WorkerType, NoJob, JobFor
<1>1. ASSUME UNCHANGED <<pc, job>> PROVE LoadingInv'
  BY <1>1 DEF LoadingInv, Gathered
<1>2. ASSUME NEW b \in Coroutines, Leave(b) PROVE LoadingInv'
  BY <1>0, <1>2 DEF LoadingInv, Gathered, Leave
<1>3. ASSUME NEW b \in Coroutines, ~Gathered(b), UpdateRouter(b) PROVE LoadingInv'
  BY <1>0, <1>3 DEF LoadingInv, Gathered, UpdateRouter
<1>4. ASSUME NEW b \in Coroutines, Gathered(b)', \A c \in Coroutines \ {b} : pc'[c] = pc[c] /\ job'[c] = job[c]
      PROVE  LoadingInv'
  BY <1>4 DEF LoadingInv, Gathered
<1>5. ASSUME NEW b \in Coroutines,
             Enter(b) \/ Wait(b) \/ WaitEnds(b) \/ WaitTimesOut(b) \/ LoadFails(b)
      PROVE  LoadingInv'
  <2>1. CASE Wait(b)
    BY <1>0, <2>1 DEF LoadingInv, Gathered, Wait
  <2>2. CASE LoadFails(b)
    BY <1>2, <2>2 DEF LoadFails
  <2> QED BY <1>3, <1>5, <2>1, <2>2 DEF Enter, WaitEnds, WaitTimesOut, Gathered
<1>6. ASSUME NEW b \in Coroutines, Build(b) PROVE LoadingInv'
  <2>1. CASE LoadPage(b)
    <3>1. CASE Leave(b)
      BY <1>2, <3>1
    <3>2. CASE ~Leave(b)
      <4>1. job[b].next = 1
        BY <2>1 DEF LoadPage, LoadingInv, Gathered
      <4>2. pc' = [pc EXCEPT ![b] = "loaded"]
        BY <2>1, <3>2, <4>1, OnePage DEF LoadPage
      <4>3. \A c \in Coroutines \ {b} : job'[c] = job[c]
        BY <1>0, <2>1, <3>2 DEF LoadPage, Proceed
      <4> QED BY <1>0, <1>4, <4>2, <4>3 DEF Gathered
    <3> QED BY <3>1, <3>2
  <2>2. CASE BeginUpdate(b)
    <3>1. CASE Leave(b)
      BY <1>2, <3>1
    <3>2. CASE ~Leave(b)
      BY <1>0, <1>4, <2>2, <3>2 DEF BeginUpdate, Gathered
    <3> QED BY <3>1, <3>2
  <2>3. CASE UpdateRoute(b)
    BY <1>0, <1>4, <2>3 DEF UpdateRoute, Proceed, Gathered
  <2>4. CASE RemoveRoute(b)
    BY <1>1, <2>4 DEF RemoveRoute
  <2>5. CASE AllUpdated(b)
    BY <1>0, <1>4, <2>5 DEF AllUpdated, Gathered
  <2>6. CASE Install(b)
    BY <1>2, <2>6 DEF Install
  <2> QED BY <1>6, <2>1, <2>2, <2>3, <2>4, <2>5, <2>6 DEF Build
<1>7. ASSUME Invalidate \/ (\E r \in Routes : Write(r)) \/ UNCHANGED vars
      PROVE  LoadingInv'
  BY <1>1, <1>7 DEF Invalidate, Write, worker, vars
<1>8. ASSUME NEW r \in Matched, Match(r) PROVE LoadingInv'
  BY <1>1, <1>8 DEF Match
<1> QED BY <1>5, <1>6, <1>7, <1>8 DEF Next

\* The seconds and versions in routes, for arithmetic.
LEMMA Seconds ==
  ASSUME Types
  PROVE  /\ latest \in Nat /\ router.updatedAt \in Nat
         /\ \A r \in Routes : /\ db[r] \in Entity /\ db[r].at \in Nat
                              /\ router.routes[r] \in Entity /\ router.routes[r].at \in Nat
         /\ \A b \in Coroutines :
              /\ job[b].newest \in Nat
              /\ \A r \in Routes : job[b].found[r] \in Entity /\ job[b].found[r].at \in Nat
BY RouterRebuildAssumption
DEF RouterRebuildAssumption, Types, SourceType, WorkerType, Job, Entity, Router

\* A step that concerns no build which has its routes.
LEMMA StepOutside ==
  ASSUME InStep, UNCHANGED <<source, built, router>>,
         \A c \in Coroutines : Gathered(c)' => pc'[c] = pc[c] /\ job'[c] = job[c]
  PROVE  InStep'
<1>1. UNCHANGED <<latest, behind, db, pending, epoch>>
  BY DEF source
<1>2. \A c \in Coroutines : Gathered(c)' => Gathered(c)
  BY DEF Gathered
<1>3. SnapshotInv' /\ CurrentInv'
  BY <1>1 DEF InStep, SnapshotInv, CurrentInv, Fits
<1>4. GatheredInv'
  BY <1>1, <1>2 DEF InStep, GatheredInv, GatheredRoute
<1>5. \A c \in InPlace' : c \in Coroutines /\ Gathered(c)'
  BY DEF InPlace, Gathered
<1>6. ProgressInv'
  BY <1>1, <1>5 DEF InStep, ProgressInv, InPlace, Fits
<1> QED BY <1>3, <1>4, <1>6 DEF InStep

LEMMA WriteInStep ==
  ASSUME Types, InStep, NEW q \in Routes, Write(q)
  PROVE  InStep'
<1>1. /\ UNCHANGED <<built, router, pc, job, epoch>> /\ pending' = pending + 1
      /\ behind \subseteq behind' /\ latest' \in Nat /\ latest <= latest'
  <2>1. latest' \in Nat
    BY WriteStep, RouterRebuildAssumption DEF RouterRebuildAssumption
  <2> QED BY <2>1, WriteStep DEF Write, worker
<1>2. /\ db' \in [Routes -> Entity]
      /\ \A r \in Routes : \/ db'[r] \in {Absent, db[r]}
                           \/ db'[r].version \in behind' \/ db'[r].at >= latest
      /\ \A r \in Routes : db'[r].at <= latest'
  <2>1. db \in [Routes -> Entity] /\ latest \in Nat /\ \A r \in Routes : db[r].at <= latest
    BY Seconds DEF Types, SourceType, InStep, SnapshotInv
  <2>2. PICK e \in Entity : db' = [db EXCEPT ![q] = e] /\ Commits(e)
    BY WriteStep
  <2>3. e.at <= latest'
    BY <1>1, <2>2 DEF Commits, Absent
  <2>4. \A r \in Routes : db[r].at \in Nat
    BY Seconds
  <2> QED BY <1>1, <2>1, <2>2, <2>3, <2>4 DEF Commits
<1>3. pending' # 0
  BY <1>1, Numbers
<1>7. router.updatedAt <= latest /\ latest \in Nat /\ router.updatedAt \in Nat
  BY Seconds DEF InStep, SnapshotInv
<1>4. SnapshotInv'
  <2>1. router.updatedAt <= latest'
    BY <1>1, <1>7
  <2>2. ASSUME NEW r \in Routes, router.routes[r] # Absent,
               db'[r] \notin {Absent, router.routes[r]}, db'[r].version \notin behind'
        PROVE  db'[r].at >= router.updatedAt
    <3>1. CASE db'[r] = db[r]
      BY <1>1, <2>2, <3>1 DEF InStep, SnapshotInv
    <3>2. CASE db'[r].at >= latest
      BY <1>2, <1>7, <3>2 DEF Entity
    <3> QED BY <1>2, <2>2, <3>1, <3>2
  <2> QED BY <1>1, <1>2, <2>1, <2>2 DEF InStep, SnapshotInv
<1>5. GatheredInv'
  <2> SUFFICES ASSUME NEW b \in Coroutines, Gathered(b)
               PROVE  /\ job[b].newest = 0 \/ \E s \in Routes : job[b].newest = job[b].found[s].at
                      /\ \A r \in Routes : GatheredRoute(b, r)'
    BY <1>1, <1>3 DEF GatheredInv, Gathered
  <2>1. job[b].newest = 0 \/ \E s \in Routes : job[b].newest = job[b].found[s].at
    BY DEF InStep, GatheredInv
  <2>2. router.updatedAt <= latest /\ \A r \in Routes : job[b].found[r].at <= latest
    BY DEF InStep, GatheredInv, GatheredRoute, SnapshotInv
  <2>3. ASSUME NEW r \in Routes PROVE GatheredRoute(b, r)'
    <3>1. GatheredRoute(b, r)
      BY DEF InStep, GatheredInv
    <3>2. job[b].found[r].at <= latest'
      BY <1>1, <1>7, <2>2, Seconds
    <3>3. ASSUME db'[r] \notin {Absent, job[b].found[r]}, db'[r].version \notin behind'
          PROVE  /\ db'[r].at >= router.updatedAt
                 /\ \A s \in Routes : db'[r].at >= job[b].found[s].at
      <4>1. CASE db'[r] = db[r]
        BY <1>1, <3>1, <3>3, <4>1 DEF GatheredRoute
      <4>2. CASE db'[r].at >= latest
        BY <1>2, <1>7, <2>2, <4>2, Seconds DEF Entity
      <4> QED BY <1>2, <3>3, <4>1, <4>2
    <3> QED BY <1>1, <3>1, <3>2, <3>3 DEF GatheredRoute
  <2> QED BY <2>1, <2>3
<1>6. ProgressInv' /\ CurrentInv'
  BY <1>1, <1>3 DEF InStep, ProgressInv, CurrentInv, InPlace, Fits
<1> QED BY <1>4, <1>5, <1>6 DEF InStep

LEMMA InvalidateInStep ==
  ASSUME Types, InStep, Invalidate
  PROVE  InStep'
<1>1. UNCHANGED <<latest, behind, db, built, router, pc, job>> /\ epoch' = epoch + 1
  BY DEF Invalidate, worker
<1>2. built # epoch' /\ \A b \in Coroutines : job[b].target # epoch'
  BY <1>1, Numbers DEF Types, WorkerType
<1> QED
  BY <1>1, <1>2
  DEF InStep, SnapshotInv, GatheredInv, GatheredRoute, Gathered, ProgressInv, CurrentInv, InPlace,
      Fits

\* With the mutex respected, no other coroutine has routes while one builds.
LEMMA OneBuilder ==
  ASSUME MutexInv, ~bypassed, NEW b \in Coroutines, NEW c \in Coroutines,
         Building(b), Gathered(c)
  PROVE  c = b
BY DEF MutexInv, Building, Gathered

LEMMA LeaveInStep ==
  ASSUME Types, InStep, NEW b \in Coroutines, Leave(b), UNCHANGED <<source, built, router>>
  PROVE  InStep'
<1>1. \A c \in Coroutines : Gathered(c)' => pc'[c] = pc[c] /\ job'[c] = job[c]
  BY DEF Leave, Gathered, Types, WorkerType
<1> QED BY <1>1, StepOutside

\* All routes come from one read: the build has the database.
LEMMA LoadPageInStep ==
  ASSUME Types, MutexInv, LoadingInv, InStep, ~bypassed, NumRoutes <= PageSize,
         NEW b \in Coroutines, LoadPage(b)
  PROVE  InStep'
<1>1. CASE Leave(b)
  BY <1>1, LeaveInStep DEF LoadPage
<1>2. CASE ~Leave(b)
  <2>1. job[b].next = 1 /\ job[b].newest = 0 /\ Building(b)
    BY DEF LoadPage, LoadingInv, Gathered, Building
  <2>2. UNCHANGED <<latest, behind, db, pending, epoch, built, router>>
    BY DEF LoadPage, source
  <2>3. pc' = [pc EXCEPT ![b] = "loaded"]
    BY <1>2, <2>1, OnePage DEF LoadPage
  <2>4. Proceed(b, [r \in Routes |-> db[r]], 0)
    BY <1>2, <2>1, OnePage DEF LoadPage
  <2>5. job'[b].found = db /\ job'[b].newest = 0
    BY <2>4 DEF Proceed, Types, SourceType, WorkerType
  <2>6. pc'[b] = "loaded" /\ \A c \in Coroutines \ {b} : pc'[c] = pc[c]
    BY <2>3 DEF Types, WorkerType
  <2>7. \A c \in Coroutines : Gathered(c)' => c = b
    BY <2>1, <2>6, OneBuilder DEF Gathered
  <2>8. SnapshotInv' /\ CurrentInv'
    BY <2>2 DEF InStep, SnapshotInv, CurrentInv, Fits
  <2>9. \A r \in Routes : GatheredRoute(b, r)'
    BY <2>2, <2>5 DEF InStep, SnapshotInv, GatheredRoute
  <2>10. GatheredInv'
    BY <2>2, <2>5, <2>7, <2>9 DEF GatheredInv
  <2>11. ProgressInv'
    BY <2>6, <2>7 DEF ProgressInv, InPlace, Gathered
  <2> QED BY <2>8, <2>10, <2>11 DEF InStep
<1> QED BY <1>1, <1>2

LEMMA BeginUpdateInStep ==
  ASSUME Types, MutexInv, InStep, ~bypassed, NEW b \in Coroutines, BeginUpdate(b)
  PROVE  InStep'
<1>1. CASE router.rebuilding
  BY <1>1, LeaveInStep DEF BeginUpdate
<1>2. CASE ~router.rebuilding
  <2>1. /\ UNCHANGED <<latest, behind, db, pending, epoch, built>> /\ pc[b] = "loaded"
        /\ router' = [router EXCEPT !.rebuilding = TRUE]
        /\ pc' = [pc EXCEPT ![b] = "updating"]
        /\ job' = [job EXCEPT ![b] = [job[b] EXCEPT !.next = 1]]
    BY <1>2 DEF BeginUpdate, source
  <2>2. /\ router'.rebuilding /\ router'.updatedAt = router.updatedAt
        /\ router'.routes = router.routes /\ router'.matchers = router.matchers
    BY <2>1 DEF Types, WorkerType, Router
  <2>3. /\ pc'[b] = "updating" /\ Gathered(b)
        /\ \A c \in Coroutines \ {b} : pc'[c] = pc[c]
    BY <2>1 DEF Types, WorkerType, Gathered
  <2>4. /\ job'[b].target = job[b].target /\ job'[b].newest = job[b].newest
        /\ job'[b].found = job[b].found /\ job'[b].next = 1
    BY <2>1, JobFields DEF Job
  <2>5. \A c \in Coroutines : Gathered(c)' => c = b
    BY <2>1, <2>3, OneBuilder DEF Gathered, Building
  <2>6. SnapshotInv' /\ CurrentInv'
    BY <2>1, <2>2 DEF InStep, SnapshotInv, CurrentInv, Fits
  <2>7. \A r \in Routes : GatheredRoute(b, r)'
    BY <2>1, <2>2, <2>3, <2>4 DEF InStep, GatheredInv, GatheredRoute
  <2>8. GatheredInv'
    BY <2>1, <2>3, <2>4, <2>5, <2>7 DEF InStep, GatheredInv
  <2>9. ProgressInv'
    <3>1. \A c \in InPlace' : c = b
      BY <2>5 DEF InPlace, Gathered
    <3>2. \A r \in Routes : ~(r < job'[b].next)
      BY <2>4, RouterRebuildAssumption DEF RouterRebuildAssumption, Routes
    <3> QED BY <2>3, <3>1, <3>2 DEF ProgressInv
  <2> QED BY <2>6, <2>8, <2>9 DEF InStep
<1> QED BY <1>1, <1>2

\* What an update leaves in the router for a route it was given.
Fitting(have, m, route) ==
  /\ Fits(have, route)
  /\ have.version \notin behind => m = have

\* What was found in the router's route is what the router keeps of it: a
\* route not looked at again is the one it has, or was committed late.
LEMMA UpdateRouteKeeps ==
  ASSUME Types, InStep, NEW b \in Coroutines, UpdateRoute(b)
  PROVE  LET r   == job[b].next
             new == job[b].found[r]
         IN  IF new = Absent THEN router' = router
             ELSE \E have, m \in Entity : router' = With(r, have, m) /\ Fitting(have, m, new)
<1> DEFINE r   == job[b].next
           new == job[b].found[r]
<1>1. r \in Routes /\ Gathered(b)
  BY UpdateRouteStep DEF UpdateRoute, Gathered
<1>2. SUFFICES ASSUME new # Absent
               PROVE  \E have, m \in Entity :
                        router' = With(r, have, m) /\ Fitting(have, m, new)
  BY UpdateRouteStep
<1>0. /\ new \in Entity /\ Absent \in Entity
      /\ router.routes[r] \in Entity /\ router.matchers[r] \in Entity
  BY <1>1, NoJobType, Seconds DEF Types, WorkerType, Router
<1>3. CASE Refused(b)
  <2>1. router' = With(r, Absent, Absent) /\ Fitting(Absent, Absent, new)
    BY <1>2, <1>3, UpdateRouteStep DEF Refused, Kept, Fits, Fitting
  <2> QED BY <1>0, <2>1
<1>4. CASE ~Refused(b) /\ Modified(router.routes[r], new)
  <2>1. router' = With(r, new, new) /\ Fitting(new, new, new)
    BY <1>2, <1>4, UpdateRouteStep DEF Refused, Kept, Fits, Fitting
  <2> QED BY <1>0, <2>1
<1>6. CASE new.version \in behind /\ ~Modified(router.routes[r], new)
  <2>1. router' = With(r, new, router.matchers[r]) /\ Fitting(new, router.matchers[r], new)
    BY <1>2, <1>6, UpdateRouteStep DEF Refused, Fits, Fitting
  <2> QED BY <1>0, <2>1
<1>5. CASE new.version \notin behind /\ ~Modified(router.routes[r], new)
  <2>1. /\ router.routes[r] # Absent /\ new.at = router.routes[r].at
        /\ ~(new.at >= router.updatedAt)
    BY <1>1, <1>5, Seconds DEF Modified
  <2>2. new = router.routes[r]
    BY <1>1, <1>2, <1>5, <2>1 DEF InStep, GatheredInv, GatheredRoute
  <2>3. router.matchers[r] = new /\ new.version \notin BadVersions
    BY <1>1, <1>5, <2>1, <2>2 DEF InStep, SnapshotInv
  <2>4. router' = With(r, new, new) /\ Fitting(new, new, new)
    BY <1>2, <1>5, <2>3, UpdateRouteStep DEF Refused, Kept, Fits, Fitting
  <2> QED BY <1>0, <2>4
<1> QED BY <1>3, <1>4, <1>5, <1>6

\* An update in place of one route: the router has it as the build found it.
LEMMA RouteInStep ==
  ASSUME Types, MarkInv, MutexInv, InStep, ~bypassed, NEW b \in InPlace, NEW r \in Routes,
         NEW k \in Entity, NEW m \in Entity,
         router' = With(r, k, m), Fitting(k, m, job[b].found[r]),
         UNCHANGED <<source, built, pc>>,
         \A c \in Coroutines : /\ job'[c].target = job[c].target
                               /\ job'[c].found = job[c].found,
         job'[b].newest \in {job[b].newest, job[b].found[r].at},
         \A q \in Routes : q < job'[b].next => q < job[b].next \/ q = r
  PROVE  InStep'
<1>1. UNCHANGED <<latest, behind, db, pending, epoch, pc>> /\ b \in Coroutines /\ Gathered(b)
  BY DEF source, InPlace, Gathered
<1>2. /\ router'.updatedAt = router.updatedAt /\ router'.rebuilding
      /\ router'.routes = [router.routes EXCEPT ![r] = k]
      /\ router'.matchers = [router.matchers EXCEPT ![r] = m]
  BY DEF With, MarkInv
<1>3. /\ router.routes \in [Routes -> Entity] /\ router.matchers \in [Routes -> Entity]
      /\ job[b].found[r] \in Entity
  BY <1>1, Seconds DEF Types, WorkerType, Router
<1>4. /\ router'.routes[r] = k /\ router'.matchers[r] = m
      /\ \A q \in Routes \ {r} : /\ router'.routes[q] = router.routes[q]
                                /\ router'.matchers[q] = router.matchers[q]
  BY <1>2, <1>3
<1>5. /\ k # Absent => /\ k = job[b].found[r]
                       /\ k.version \in BadVersions => k.version \in behind
      /\ k.version \notin behind => m = k
      /\ k = job[b].found[r] \/ k = Absent
  BY DEF Kept, Fits, Fitting
<1>6. \A c \in Coroutines : Gathered(c)' => c = b
  BY <1>1, OneBuilder DEF Gathered, Building
<1>7. \A q \in Routes : GatheredRoute(b, q)
  BY <1>1 DEF InStep, GatheredInv
<1>8. SnapshotInv'
  <2>1. router'.updatedAt <= latest'
    BY <1>1, <1>2 DEF InStep, SnapshotInv
  <2>2. ASSUME NEW q \in Routes
        PROVE  /\ db[q].at <= latest
               /\ router'.routes[q].version \notin behind =>
                    router'.matchers[q] = router'.routes[q]
               /\ router'.routes[q] # Absent =>
                    /\ router'.routes[q].version \in BadVersions =>
                         router'.routes[q].version \in behind
                    /\ db[q] \notin {Absent, router'.routes[q]} /\ db[q].version \notin behind =>
                         db[q].at >= router.updatedAt
    <3>1. CASE q = r
      BY <1>4, <1>5, <1>7, <3>1 DEF InStep, SnapshotInv, GatheredRoute
    <3>2. CASE q # r
      BY <1>4, <3>2 DEF InStep, SnapshotInv
    <3> QED BY <3>1, <3>2
  <2> QED BY <1>1, <1>2, <2>1, <2>2 DEF SnapshotInv
<1>9. GatheredInv'
  <2>1. ASSUME NEW q \in Routes PROVE GatheredRoute(b, q)'
    BY <1>1, <1>2, <1>4, <1>5, <1>7, SMTT(30) DEF GatheredRoute
  <2>2. job'[b].newest = 0 \/ \E s \in Routes : job'[b].newest = job'[b].found[s].at
    BY <1>1 DEF InStep, GatheredInv
  <2>3. job'[b].target = epoch' /\ pending' = 0 => job'[b].found = db'
    BY <1>1 DEF InStep, GatheredInv
  <2> QED BY <1>6, <2>1, <2>2, <2>3 DEF GatheredInv
<1>10. ProgressInv'
  <2>1. \A c \in InPlace' : c = b
    BY <1>6 DEF InPlace, Gathered
  <2>2. ASSUME NEW q \in Routes, pc[b] = "removing" \/ q < job'[b].next,
               job[b].found[q] # Absent
        PROVE  Fits(router'.routes[q], job[b].found[q])
    <3>1. CASE q = r
      BY <1>4, <3>1 DEF Fitting
    <3>2. CASE q # r
      BY <1>4, <2>2, <3>2 DEF InStep, ProgressInv
    <3> QED BY <3>1, <3>2
  <2> QED BY <1>1, <2>1, <2>2 DEF ProgressInv, Fits
<1>11. CurrentInv'
  BY <1>2 DEF CurrentInv
<1> QED BY <1>8, <1>9, <1>10, <1>11 DEF InStep

\* What Proceed changes in the job.
LEMMA ProceedStep ==
  ASSUME Types, NEW b \in Coroutines, NEW n, Proceed(b, job[b].found, n)
  PROVE  /\ \A c \in Coroutines : /\ job'[c].target = job[c].target
                                /\ job'[c].found = job[c].found
         /\ job'[b].newest = n /\ job'[b].next = job[b].next + 1
BY JobFields DEF Proceed

LEMMA UpdateRouteInStep ==
  ASSUME Types, MarkInv, MutexInv, InStep, ~bypassed, NEW b \in Coroutines, UpdateRoute(b)
  PROVE  InStep'
<1> DEFINE r   == job[b].next
           new == job[b].found[r]
<1>1. /\ UNCHANGED <<source, built, pc>> /\ b \in InPlace /\ Gathered(b) /\ r \in Routes
  BY UpdateRouteStep DEF UpdateRoute, InPlace, Gathered
<1>2. PICK n \in {job[b].newest, new.at} : Proceed(b, job[b].found, n)
  BY UpdateRouteStep DEF Later
<1>3. /\ \A c \in Coroutines : /\ job'[c].target = job[c].target
                             /\ job'[c].found = job[c].found
      /\ job'[b].newest = n /\ job'[b].next = r + 1
  BY <1>2, ProceedStep
<1>4. \A q \in Routes : q < job'[b].next => q < job[b].next \/ q = r
  BY <1>1, <1>3, RouterRebuildAssumption DEF Routes, RouterRebuildAssumption
<1>5. CASE new # Absent
  <2>1. PICK have, m \in Entity : router' = With(r, have, m) /\ Fitting(have, m, new)
    BY <1>5, UpdateRouteKeeps
  <2> QED BY <1>1, <1>2, <1>3, <1>4, <2>1, RouteInStep
<1>6. CASE new = Absent
  <2>1. router' = router /\ UNCHANGED <<latest, behind, db, pending, epoch>>
    BY <1>1, <1>6, UpdateRouteKeeps DEF source
  <2>2. \A c \in Coroutines : Gathered(c)' => c = b
    BY <1>1, OneBuilder DEF Gathered, Building
  <2>3. SnapshotInv' /\ CurrentInv'
    BY <1>1, <2>1 DEF InStep, SnapshotInv, CurrentInv, Fits
  <2>4. GatheredInv'
    <3>1. ASSUME NEW q \in Routes PROVE GatheredRoute(b, q)'
      BY <1>1, <1>3, <2>1 DEF InStep, GatheredInv, GatheredRoute
    <3>2. job'[b].newest = 0 \/ \E s \in Routes : job'[b].newest = job'[b].found[s].at
      BY <1>1, <1>2, <1>3 DEF InStep, GatheredInv
    <3>3. job'[b].target = epoch' /\ pending' = 0 => job'[b].found = db'
      BY <1>1, <1>3, <2>1 DEF InStep, GatheredInv
    <3> QED BY <2>2, <3>1, <3>2, <3>3 DEF GatheredInv
  <2>5. ProgressInv'
    <3>1. \A c \in InPlace' : c = b
      BY <2>2 DEF InPlace, Gathered
    <3>2. ASSUME NEW q \in Routes, pc[b] = "removing" \/ q < job'[b].next,
                 job[b].found[q] # Absent
          PROVE  Fits(router.routes[q], job[b].found[q])
      BY <1>1, <1>4, <1>6, <3>2 DEF InStep, ProgressInv
    <3> QED BY <1>1, <1>3, <2>1, <3>1, <3>2 DEF ProgressInv, Fits
  <2> QED BY <2>3, <2>4, <2>5 DEF InStep
<1> QED BY <1>5, <1>6

LEMMA RemoveRouteInStep ==
  ASSUME Types, MarkInv, MutexInv, InStep, ~bypassed, NEW b \in Coroutines, RemoveRoute(b)
  PROVE  InStep'
<1>1. PICK r \in Routes : job[b].found[r] = Absent /\ router' = With(r, Absent, Absent)
  BY DEF RemoveRoute, ToRemove
<1>2. /\ UNCHANGED <<source, built, pc, job>> /\ b \in InPlace
  BY DEF RemoveRoute, InPlace
<1>3. Fitting(Absent, Absent, job[b].found[r]) /\ Absent \in Entity
  BY <1>1, NoJobType DEF Kept, Fits, Fitting
<1> QED BY <1>1, <1>2, <1>3, RouteInStep

LEMMA AllUpdatedInStep ==
  ASSUME Types, InStep, NEW b \in Coroutines, AllUpdated(b)
  PROVE  InStep'
<1>1. /\ UNCHANGED <<latest, behind, db, pending, epoch, built, router, job>>
      /\ pc[b] = "updating" /\ pc' = [pc EXCEPT ![b] = "removing"]
  BY DEF AllUpdated, source
<1>2. /\ pc'[b] = "removing" /\ \A c \in Coroutines \ {b} : pc'[c] = pc[c]
  BY <1>1 DEF Types, WorkerType
<1>3. \A c \in Coroutines : Gathered(c)' <=> Gathered(c)
  BY <1>1, <1>2 DEF Gathered
<1>4. SnapshotInv' /\ CurrentInv'
  BY <1>1 DEF InStep, SnapshotInv, CurrentInv, Fits
<1>5. GatheredInv'
  BY <1>1, <1>3 DEF InStep, GatheredInv, GatheredRoute
<1>6. \A r \in Routes : r < job[b].next
  BY JobFields, RouterRebuildAssumption DEF AllUpdated, Routes, RouterRebuildAssumption
<1>7. InPlace' = InPlace
  BY <1>1, <1>2 DEF InPlace
<1>8. ProgressInv'
  <2> SUFFICES ASSUME NEW c \in InPlace, NEW r \in Routes, job[c].found[r] # Absent,
                      pc'[c] = "removing" \/ r < job[c].next
               PROVE  Fits(router.routes[r], job[c].found[r])
    BY <1>1, <1>7 DEF ProgressInv, Fits
  <2>1. pc[c] = "removing" \/ r < job[c].next
    BY <1>2, <1>6 DEF InPlace
  <2> QED BY <2>1 DEF InStep, ProgressInv
<1> QED BY <1>4, <1>5, <1>8 DEF InStep

\* The router that is installed is what the build found.
LEMMA InstallInStep ==
  ASSUME Types, MutexInv, InStep, ~bypassed, NEW b \in Coroutines, Install(b)
  PROVE  InStep'
<1>1. /\ UNCHANGED <<latest, behind, db, pending, epoch>> /\ built' = job[b].target
      /\ b \in InPlace /\ Gathered(b) /\ pc[b] = "removing" /\ Leave(b)
  BY DEF Install, source, InPlace, Gathered
<1>2. /\ router'.updatedAt = job[b].newest /\ ~router'.rebuilding
      /\ router'.routes = router.routes /\ router'.matchers = router.matchers
  BY DEF Install, Types, WorkerType, Router
<1>3. ASSUME NEW r \in Routes PROVE Fits(router.routes[r], job[b].found[r])
  <2>1. CASE job[b].found[r] = Absent
    BY <2>1 DEF Install, ToRemove, Kept, Fits
  <2>2. CASE job[b].found[r] # Absent
    BY <1>1, <2>2 DEF InStep, ProgressInv
  <2> QED BY <2>1, <2>2
<1>4. \A c \in Coroutines : ~Gathered(c)'
  <2>1. pc'[b] = "idle" /\ \A c \in Coroutines \ {b} : pc'[c] = pc[c]
    BY <1>1 DEF Leave, Types, WorkerType
  <2> QED BY <1>1, <2>1, OneBuilder DEF Gathered, Building
<1>5. \A r \in Routes : GatheredRoute(b, r)
  BY <1>1 DEF InStep, GatheredInv
<1>6. job[b].newest = 0 \/ \E s \in Routes : job[b].newest = job[b].found[s].at
  BY <1>1 DEF InStep, GatheredInv
<1>7. SnapshotInv'
  <2>1. job[b].newest <= latest
    BY <1>5, <1>6, Seconds DEF GatheredRoute
  <2>2. ASSUME NEW r \in Routes, router.routes[r] # Absent, db[r].version \notin behind,
               db[r] \notin {Absent, router.routes[r]}
        PROVE  db[r].at >= job[b].newest
    <3>1. job[b].found[r] = router.routes[r]
      BY <1>3, <2>2 DEF Kept, Fits
    <3>2. \A s \in Routes : db[r].at >= job[b].found[s].at
      BY <1>5, <2>2, <3>1 DEF GatheredRoute
    <3> QED BY <1>6, <3>2, Seconds
  <2> QED BY <1>1, <1>2, <2>1, <2>2 DEF InStep, SnapshotInv
<1>8. GatheredInv'
  BY <1>4 DEF GatheredInv
<1>9. ProgressInv'
  BY <1>4 DEF ProgressInv, InPlace, Gathered
<1>10. CurrentInv'
  <2> SUFFICES ASSUME pending = 0, job[b].target = epoch, NEW r \in Routes
               PROVE  Fits(router.routes[r], db[r])
    BY <1>1, <1>2 DEF CurrentInv, Fits, Kept
  <2>1. job[b].found = db
    BY <1>1 DEF InStep, GatheredInv
  <2> QED BY <1>3, <2>1
<1> QED BY <1>7, <1>8, <1>9, <1>10 DEF InStep

LEMMA OnePageInductive ==
  ASSUME Types, MarkInv, OnePageInv, NumRoutes <= PageSize, [Next]_vars
  PROVE  OnePageInv'
<1>1. MutexInv' /\ LoadingInv'
  BY MutexInductive, LoadingInductive DEF OnePageInv
<1>2. SUFFICES ASSUME ~bypassed' PROVE InStep'
  BY <1>1 DEF OnePageInv
<1>3. ASSUME NEW b \in Coroutines, WaitTimesOut(b) PROVE InStep'
  BY <1>2, <1>3 DEF WaitTimesOut
<1>4. CASE bypassed' # bypassed
  BY <1>2, <1>3, <1>4
  DEF Next, Build, Write, Match, Invalidate, Enter, Wait, WaitEnds, LoadFails, LoadPage,
      BeginUpdate, UpdateRoute, AllUpdated, RemoveRoute, Install, worker, vars
<1>5. SUFFICES ASSUME ~bypassed, MutexInv, LoadingInv, InStep PROVE InStep'
  BY <1>2, <1>4 DEF OnePageInv
<1>6. ASSUME NEW r \in Routes, Write(r) PROVE InStep'
  BY <1>5, <1>6, WriteInStep
<1>7. ASSUME Invalidate PROVE InStep'
  BY <1>5, <1>7, InvalidateInStep
<1>8. ASSUME (\E r \in Matched : Match(r)) \/ UNCHANGED vars PROVE InStep'
  BY <1>5, <1>8, StepOutside DEF Match, vars, worker
<1>9. ASSUME NEW b \in Coroutines, Enter(b) \/ Wait(b) \/ WaitEnds(b) PROVE InStep'
  <2>1. UNCHANGED <<source, built, router>>
    BY <1>9 DEF Enter, Wait, WaitEnds
  <2>2. \A c \in Coroutines : Gathered(c)' => pc'[c] = pc[c] /\ job'[c] = job[c]
    BY <1>9 DEF Enter, Wait, WaitEnds, UpdateRouter, Gathered, Types, WorkerType
  <2> QED BY <1>5, <2>1, <2>2, StepOutside
<1>10. ASSUME NEW b \in Coroutines, LoadFails(b) PROVE InStep'
  BY <1>5, <1>10, LeaveInStep DEF LoadFails
<1>11. ASSUME NEW b \in Coroutines, Build(b) PROVE InStep'
  BY <1>5, <1>11, LoadPageInStep, BeginUpdateInStep, UpdateRouteInStep, AllUpdatedInStep,
     RemoveRouteInStep, InstallInStep DEF Build
<1> QED BY <1>3, <1>6, <1>7, <1>8, <1>9, <1>10, <1>11 DEF Next

LEMMA OnePageAlways ==
  ASSUME NumRoutes <= PageSize
  PROVE  Spec => []OnePageInv
<1>1. Init => Types /\ MarkInv /\ OnePageInv
  <2> SUFFICES ASSUME Init PROVE MarkInv /\ OnePageInv
    BY TypesInitially
  <2>1. \A b \in Coroutines : pc[b] = "idle" /\ job[b].next = 1 /\ job[b].newest = 0
    BY DEF Init, NoJob, JobFor
  <2>2. InPlace = {} /\ MarkInv /\ MutexInv /\ LoadingInv
    BY <2>1 DEF Init, InPlace, MarkInv, MutexInv, LoadingInv, Building
  <2>3. SnapshotInv /\ CurrentInv
    BY DEF Init, SnapshotInv, CurrentInv, Fits, Kept, Absent, First
  <2>4. GatheredInv /\ ProgressInv
    BY <2>1, <2>2 DEF GatheredInv, Gathered, ProgressInv
  <2> QED BY <2>2, <2>3, <2>4 DEF OnePageInv, InStep
<1>2. Types /\ MarkInv /\ OnePageInv /\ [Next]_vars => MarkInv' /\ OnePageInv'
  BY MarkInductive, OnePageInductive
<1> QED BY <1>1, <1>2, TypesAlways, PTL DEF Spec

\* With all routes in one page, and until a build bypasses the mutex, in any
\* yield of a rebuild: a matcher is of another version than its route only if
\* that route was committed behind a write with a later updated_at.  (Two
\* versions of the same second, and routes that come and go while the build
\* runs, do not part them.)
THEOREM EveryMatchHasItsRoute ==
  ASSUME NumRoutes <= PageSize
  PROVE  Spec => []MatchersHaveRoutes
<1>1. Types /\ MatchersFindRoutes /\ OnePageInv => MatchersHaveRoutes
  <2> SUFFICES ASSUME Types, OnePageInv, ~bypassed
               PROVE  \A r \in Routes : \/ router.matchers[r] = router.routes[r]
                                        \/ router.routes[r].version \in behind
    BY DEF MatchersHaveRoutes
  <2> QED BY DEF OnePageInv, InStep, SnapshotInv
<1> QED BY <1>1, TypesAlways, EveryMatchFindsARoute, OnePageAlways, PTL

\* With all routes in one page: once the worker has built a router for the
\* version it sees, and no write is on its way, the router has every write,
\* although an incremental rebuild (new_from_previous) skips the routes whose
\* `updated_at', in whole seconds, it knows; all but the writes that were
\* committed behind one with a later updated_at.
THEOREM RebuildLosesNoWrite ==
  ASSUME NumRoutes <= PageSize
  PROVE  Spec => []RouterIsCurrent
<1>1. Types /\ RoutesAreCurrent /\ OnePageInv => RouterIsCurrent
  <2> SUFFICES ASSUME Types, OnePageInv, ~bypassed, UpToDate, NEW r \in Routes,
                      db[r].version \notin behind
               PROVE  router.matchers[r] = Wanted(r)
    BY DEF RouterIsCurrent
  <2>1. router.routes[r] = Kept(db[r])
    BY DEF OnePageInv, InStep, CurrentInv, UpToDate, Fits
  <2>2. router.routes[r].version \notin behind
    BY <2>1 DEF Kept, Absent, Types, SourceType
  <2> QED BY <2>1, <2>2 DEF OnePageInv, InStep, SnapshotInv, Wanted
<1> QED BY <1>1, TypesAlways, TableLosesNoWrite, OnePageAlways, PTL
=============================================================================
