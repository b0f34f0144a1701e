# A verification project for Kong

This directory models the parts of Kong whose correctness depends on the order
in which coroutines, workers and nodes do things, and the Python programs of
this repository: the release check of its packages and the eHSM clients of its
`api-version` plugin. TLC checks the models on small instances, TLAPS proves
theorems about them. Everything is translated from the code under `src/kong` and
`src/scripts`; where a doc or a comment promises something that the code does
not do, a run shows it (section "Disagreements").

A Kong node is an nginx with several worker processes. A worker runs one Lua VM
in which coroutines (requests, timers, threads) switch only where they yield:
at I/O, at `ngx.sleep`, at a semaphore. An action of a model is therefore what
the code does between two yields, and every interleaving of actions is possible.
Workers share dictionaries in memory (`shm`) whose single operations are atomic,
and an event broker. Nodes share a database, or get their configuration from a
control plane.

## 1. Inventory

### Components that are modelled

**Batching queue** (`tools/queue.lua`). State: per queue an array of entries,
`bytes_queued`, a semaphore that counts entries, a timer. Operations: `enqueue`
from requests, `process_once` in the timer (collect, coalesce, call the
handler, retry, give up), registration and removal of the queue under its name.
Used by every logging plugin. Hard: an enqueue that drops the oldest entry
while the timer has claimed entries from the semaphore and not yet taken them
off the array; the queue that unregisters itself while producers go on; retry
budgets. Correct if: the counts agree, no entry is lost, doubled or overtaken,
capacity and retry budget hold, every entry is eventually settled.

**Cluster events** (`cluster_events/init.lua`, `strategies/postgres.lua`).
State: the table `cluster_events` of the database; per node, in `shm`, the time
`at` up to which events were polled, and a mark for every row it has run; nbf
timers. Operations: `broadcast`, `poll` (pages of an interval of the database's
clock), `process_event`, `new` at the start of a worker. Subscribers: the cache
invalidations of `kong/cache` and `runloop/events.lua`. Hard: rows whose
timestamp is that of an uncommitted transaction, offsets that shift while rows
are added, marks that expire, polls that fail on a later page, reloads. Correct
if: every node runs every foreign row, once.

**Entity cache** (`resty/mlcache/init.lua`, `cache/init.lua`,
`cache/warmup.lua`). State: an LRU per worker, two shared dictionaries (for
entities and for misses), a lock per key. Operations: `get` with its callback,
`delete` with the event that empties the other workers' LRUs, expiry,
resurrection of expired values, warmup. Hard: reads that are stored after the
invalidation of what they read, locks that expire or whose holder dies, two
dictionaries that cannot be changed at once. Correct if: the callback runs once
at a time and what is cached becomes what is in the database.

**Router rebuild** (`runloop/handler.lua`, `concurrency.lua`,
`router/atc.lua`). State: per worker the router in use (matchers, routes, the
newest `updated_at`), the version it was built for, match caches, the coroutine
mutex; per node the version in `kong.core_cache`. Operations: a timer per
worker, or with `worker_consistency = strict` every request, rebuilds when the
version changed, by changing the router in use route by route with a yield
after each. Hard: requests match against a router that is being changed, writes
during the paging, a resolution of one second, commits in another order than
their seconds, a wait that times out and goes on without the mutex. Correct if: no two rebuilds at once, no request finds a
matcher without its route, the router becomes what the database says.

**Declarative reconfigure** (`db/declarative/import.lua`,
`clustering/config_helper.lua`, `runloop/events.lua`, `runloop/handler.lua`,
`db/strategies/off`, `runloop/plugins_iterator.lua`). State: the configuration
and its hash in LMDB; per worker the router, the plugins iterator, balancers
with health checkers, upstreams by name, and the hash of the configuration each
was built for.
Operations: `update` loads a configuration and announces it; each worker's
`reconfigure_handler` rebuilds what has another hash. Hard: the handler reads an
LMDB that may be newer than the hashes of its event, in pages; a step may fail
after another one has changed something; requests make the balancers that it has
given up. Correct if: a worker that has handled
all events serves what is in LMDB.

**Hybrid mode connection** (`clustering/control_plane.lua`,
`clustering/data_plane.lua`, `clustering/events.lua`). State: in each worker of
the control plane the exported payload, the clients, the semaphore and loop that
push to them, a queue per connection; in the data plane one slot for the newest
configuration and a thread that loads it. Operations: export, push, connect, send,
receive, load. Hard: exports that overlap, pushes that are skipped or merged,
connections that begin or break at any point and come back to a worker whose
payload is behind. Correct if: every connected data plane gets the last
configuration, and what one worker sends it never goes back.

**Package manifest checker** (`scripts/explain_manifest`). State: the stage of
the program, the file infos, the chain object on which a suite's sentences are
said (matched files, negation, attribute, key, recorded failures), the temporary
directory, a container, the manifest on its way out. Operations: parse the
command line, unpack a package or an image, explain the files, compare with the
target's fixture, say every word of the suite, deliver the manifest, leave
through the exit handlers. Hard: one chain carries its state from sentence to
sentence; checks that are silently not made; which end of a list of versions a
comparison looks at; the order of exit handlers when one ends the process.
Correct if: exit code 0 means that every sentence of the suite is true, a
recorded failure is one, and nothing stays behind that was not to.

**api-version plugin** (`kong/plugins/api-version/ehsm.lua` and `sdk/*.py`).
State: two text files on the node's disk with the credentials and the key id, a
global of each worker's Lua state, the enrollments and keys of the eHSM server.
Operations: six commands that a request's header names; each enrolls with curl
or runs a Python client that reads the files. Hard: all workers truncate, write
and read the files without a lock, and may be killed or raise in between, which
leaves a file open whose buffer is written when the collector finds it. Correct if:
a client signs with halves of two enrollments by no other way than this one, and a
file without content is explained.

### How they interact

The admin API writes to the database. The DAO's CRUD event (local to the worker)
invalidates the entity cache of the node and broadcasts a cluster event, whose
poll invalidates the caches of the other nodes; among the invalidated keys is
the version of the router, which makes the workers rebuild it. On a control
plane the same event posts the semaphore of the push loop. A data plane hands
what it receives to `config_helper.update`, which loads LMDB and announces a
reconfigure to its workers through the worker events. Requests use router,
plugins iterator, balancer and cache, and their log phase ends in the queue.

    admin API --> database --> CRUD event --> [MlCache] delete, worker events
                                  |  \--> [ClusterEvents] broadcast --> poll
                                  |                   on other nodes --> delete
                                  |       router:version --> [RouterRebuild]
                                  \--> push_config --> [HybridSync] --> data plane
                                             LMDB, announcement --> [Reconfigure]
    request --> router, plugins, balancer, cache ... log phase --> [Queue]
                          \--> [EhsmPlugin] --> Python client --> eHSM server

The manifest checker interacts with none of these: it runs when a release is
built.

### Components that are not modelled

`PROJECT.json` lists every one with its files and the reason. In short:

- With state that is shared and changed concurrently, planned for the next
  sittings: the worker mutex, the balancer with its targets and health
  checkers, the DNS client, vault rotation, plugin servers, the sync of
  rate-limiting counters, proxy-cache, the migrations lock, compatibility and
  status of data planes, the log level, prometheus.
- Pure functions of one request or one configuration, planned as operators
  where a reference definition exists: the collection of plugins, the
  priorities of routes. Without one: PDK, schemas, transformations, parsers.
- Outside the repository and abstracted by how it is used: lua-resty-events,
  lua-resty-lock, lua-resty-healthcheck, LMDB, the ATC router engine, nginx's
  timers and semaphores, PostgreSQL.
- I/O, user interface and observation: CLI, templates, Kong Manager, tracing,
  timing, reports, the AI drivers, the calls of TEE attestation, the `attest`
  plugin with its base64 service (no state).
- Of modelled components: `encrypt.py`, the request of `decrypt.py` and
  `ehsn_CLI_verifyquote.py` (nobody calls them), the commands `GetVersion` and
  `test` (no state), `cocoas.lua` (its caller raises before it), the colours and
  counters of the checker's log.

## 2. Modules

| Module | Models | Extended by |
| --- | --- | --- |
| `Queue` | one batching queue and its producers | `MCQueue`, `QueueProofs` |
| `LossyFifo` | abstract specification of the queue | instance in `Queue` |
| `ClusterEvents` | broadcast and poll | `MCClusterEvents`, `ClusterEventsProofs` |
| `MlCache` | one key of the entity cache on one node | `MCMlCache`, `MlCacheProofs` |
| `RouterRebuild` | the rebuild of the router of one worker | `MCRouterRebuild`, `RouterRebuildProofs` |
| `Reconfigure` | LMDB, announcement, the handlers of several workers, the requests that make balancers | `MCReconfigure`, `ReconfigureProofs` |
| `HybridSync` | the workers of a control plane and data planes | `MCHybridSync`, `HybridSyncProofs` |
| `PackageFiles` | file infos, the manifest's entries, globs | `ExpectChain` |
| `ExpectChain` | the chain object of a suite | `ExplainManifest` |
| `ExplainSuites` | the suites' scripts, the table of targets | instance in `ExplainManifest` |
| `ExplainManifest` | the whole release check | `MCExplainManifest`, `ExplainManifestProofs` |
| `EhsmPlugin` | the workers, clients and files of api-version | `MCEhsmPlugin`, `EhsmProofs` |

`PROJECT.json` ("map") gives for every definition the lines it translates. In
every module a definition that begins with a comment `Mutant:` is a plausible
bug of the definition that follows it; it is no part of the specification. It
replaces the original when one tests that the properties notice.

Conventions. A ghost (or history) variable is marked as one and never read by an action of
the code. Every bound (`MaxId`, `MaxEvents`, `MaxWrites`, `MaxClock`, ...) is a
CONSTANT and a guard. Systems that may stop have an explicit stuttering
disjunct for the idle state, so that deadlock checking stays on; only the
manifest checker, a program that ends, is checked without.

### Queue

`entries` is the array from `front` to `back`, `sem` the semaphore's resources,
`claimed` the local `entry_count` of `process_once`, `behind` how far deletions
ran past the back of the array. One action per stretch of code without a yield:
`Enqueue` (with its three outcomes `EnqueueStores`, `EnqueueRejects`,
`EnqueueRaises`) and `EnqueueFirst` for a new queue; `TimerFires`, `Wake`,
`WaitTimesOut` for the timer's loop and coalescing; `HandlerSucceeds`,
`GivesUp`, `HandlerFails`, `SleepEnds` for the retry loop. Time is in ticks and
only measured inside the retry loop. ngx.semaphore wakes its waiter by an event:
any number of entries may be posted before the timer has seen the first, as
`opentelemetry/handler.lua` does with the spans of a request. Two things the code
does and the model therefore too: an entry that is too long is refused only after
room was made for it, which costs an accepted entry; and an enqueue that needs
room while the timer coalesces takes entries the timer has claimed (see
Disagreements). `RoomySpec` is the queue among producers that do not do that: a
batch and what is enqueued before the timer has claimed it fit `max_entries` and
`max_bytes` together (the default is 10 000 entries). It restricts the producers,
not the queue; `Spec` has no such restriction. A table in a queue with
`max_bytes`, which the header forbids, is stored with a logged error and without
its bytes: it is an entry of size 0. Left out: log lines, the 80 % warning, the
conversion of legacy parameters.

### ClusterEvents

`rows` is the table with the commit time of every row apart from its `at`, as
`CURRENT_TIMESTAMP` is that of the transaction's start. `cursor[n]` is a poll in
progress: pages are fetched by `FetchPage` with an offset, each a query of its
own; the first page stores `at` (`Advance`), rows run by `Process` in one action
with the page that has them. `ORDER BY "at"` leaves the order of rows of the same
millisecond open, so that `Pages` are all the pages the database may return: a row
at the border of two pages may be on neither. The ghost `torn` has the rows that
this may happen to, and `HandledByNextPoll` excuses them, no others. `NbfFires` runs what a timer waits for. Failures:
`QueryFails`, `FetchPageFails`. `Reload` starts a worker anew. `Tick` holds time
back when a commit, a poll or a timer would be later than `MaxCommitDelay` and
`Slack` allow.

### MlCache

One key. The entity is a version number, `Absent` the versions in which it does
not exist. `pc[c]` follows a `get` that missed L1 through lookup, lock,
callback, store; `wpc[w]` follows a write through commit and the two deletions;
`inbox[w]` counts the invalidation events on their way; a post of them may fail
(`Broadcast`), which the code only logs. Expiry and eviction may
happen at any time. `Crash` kills the coroutines of a worker and leaves its
lock. The warmup stores without the lock.

### RouterRebuild

`router` has the matchers of the engine, each as the route it was made from, and
the table of routes that `exec` indexes with its answers. `Enter`, `Wait`, `WaitEnds`, `WaitTimesOut` are
`rebuild` with the coroutine mutex; `LoadPage` one page of routes, `BeginUpdate`
to `Install` the update in place. A route refused by the engine (`BadVersions`)
is dropped, as in the code; the flavor is the default one, which makes an
expression of every route, so that `add_atc_matcher` always gets as far as the
engine. A write's `updated_at` is any second (`Write`): the node that writes
reads it off its clock (`process_auto_fields`) before its round trip to the
database, and nothing makes commits come in the order of these seconds. The
ghost `behind` has the versions that were committed behind a later second. The
worker starts with a router made of what the database has. The matching engine is the set of its matchers; services, plugins iterator
and wasm state, rebuilt by the same skeleton, are not repeated.

### Reconfigure

A configuration has routes, one plugin and one upstream; a hash is the section
it was computed from. The config thread commits and, after a yield, announces
(`Commit`, `Announce`). A worker handles events one at a time: `Receive` starts to
list the upstreams if they changed and `StopCheckers` gives up the balancer,
`ListRoutes`/`LoadRoutes` are the two halves of a page, `UpdateRoute` changes the
router in use, then the plugins, and `Install` is the part that does not yield.
It ends where `balancer.init` does: `NoUpstream`, `KeepBalancer`, `ReadUpstream`
and `CreateBalancer` or `CreateFails` are its ways to the new hash, `InitRaises`
the one that fails. Meanwhile `Request` finds the upstream by name (`known`) and
has a balancer made if there is none (`making`, until `RequestMakes` or
`RequestFails`); the two never make one at once. `RoutesAreStale`,
`PluginsAreStale` and `StopIsStale` are the errors of a page whose keys are gone.
Routes are updated in any order, which includes the code's. A balancer carries the
version of the upstream it was made from; its targets are always read anew. That
of an upstream that was deleted stays, as it does in the code.

### HybridSync

A configuration is the number of the write that made it. An export reads at its
start (the transaction is REPEATABLE READ) and publishes at its end. A semaphore
is the number of posts not consumed yet; `count()`, which both sides test
before they post, is one less while the thread waits. This is a little too
generous for a thread that is about to wait and would return at once. A send
that times out ends a websocket, so the model has `Break` only. A data plane may
connect to any worker (`at`); an event is posted to all of them (`Write`) or to none
(`PostFails`), and each hears it when it does (`Notice`). Ghosts: `from` is the
worker that sent what is in LMDB; `overtaken` and `unpushed` are per worker.
`Reconfigure` takes over where `Load` ends.

### PackageFiles, ExpectChain, ExplainSuites, ExplainManifest

A package is a sequence of entries in the order the program walks them. Paths
are classes, one for each way in which the globs of the suites, of `walk_files`
and of `config.py` tell paths apart; a text is the set of the patterns found in
it, a symbol version a number in the order of `LooseVersion`. A file info has a
function from the attributes that `hasattr` finds to tagged values: that a lazy
attribute which is empty does not exist, or raises, decides what a verb does.

`ExpectChain` has one operator per kind of word (`Expect`, `Attribute`,
`do_not`, `key`, `_exist`, `Verb`) over the chain's variables. `_compare` states
the loop over the matched files by the first file at which it ends.
`ExplainSuites` has the scripts of `suites.py` as sequences of words and all
twenty-one targets of `config.py`: those for amd64 as the rows of a table. `ExplainManifest` has an action per stage of
`main.py`; `run` says one word. An exception ends the program in `atexit`, where
`_print_all_fails` comes before `cleanup`, as handlers run in reverse order of
their registration.

### EhsmPlugin

Credentials and key ids are numbered by the server's grants, so that a pair says
which enrollment either half is of. One action per stretch in which a worker
touches a shared thing once: the server's answer to curl, the truncation of a
file by `io.open`, the write of its buffer at `close`, a client's read of one
file, a client's call. `popen` blocks its worker, so a worker has one request at
a time. Which requests carry which headers is free. `same_tree` is whether
`/home/wydx/kong_coco`, which two of the clients read, is the tree
`/home/wydx/kong` that the handler writes. `Known` and `Authentic` are what the
server must do with what it is sent. A refused call and a network error are one
outcome. An answer may hold an appid alone: `file:write` has buffered it when the
next line raises, and `Collect` is the collector closing that file (`unclosed`), at
any time while Lua runs in the worker. All appids and all apikeys have one length,
so that a line written at the start replaces a line. `wiped` and `alone` are
history variables.

## 3. Runs

| Run | Distinct states | Question |
| --- | --- | --- |
| `queue_coalesce` | 17 492 | counts, no raise, budget, liveness and refinement (order, no doubles) among producers that leave a coalescing timer room |
| `queue_bytes` | 39 921 | capacity, no busy loop, where enqueue may raise, whatever producers do |
| `events_delivery` | 1 480 116 | does every node run every row once, in time? |
| `mlcache_node` | 106 710 | single flight, no stale value without a pending invalidation, progress |
| `router_onepage` | 105 848 | a sound router through rebuilds, routes in one page |
| `router_pages` | violation | ... in several pages? |
| `reconfigure_workers` | 472 004 | do workers serve what is in LMDB? |
| `reconfigure_balancer` | violation | ... by a new balancer, if a request came in between? |
| `hybrid_sync` | 827 863 | does every data plane get the last configuration, and an older one only from another worker? |
| `manifest_check` | 33 968 | does a passing release check mean what the suite says? |
| `manifest_versions` | violation | ... of every version a library needs? |
| `ehsm_commands` | 1 925 085 | when do clients sign with halves of two pairs, are empty files explained? |

Bounds, and why they are enough.

- *Queue*: batches of 3 in a queue of 4 with 5 bytes, sizes 0 and 2: the timer
  coalesces with one or two entries claimed while one to three more are posted
  before it wakes; 6 entries fill the queue while a batch is sent, by number and
  by bytes; the retry budget of 2 with delays of 1 and handlers of 0 or 1 allows
  attempts before, at and after the budget. `queue_bytes` has no restriction on
  producers, batches as large as the capacity (3), sizes 0, 1, 2 and 5 against 4
  bytes: one enqueue may drop several entries, be refused after making room, meet
  a coalescing timer at either limit, raise, and leave counts that kill the timer.
- *ClusterEvents*: one page holds one row and two rows are inserted, so a second
  page exists and may shift; intervals of 3 ticks, offset 1, commits one tick
  late, timers one tick late, 10 ticks: a row is inside three polls. One node's
  polling is followed (`Pollers`), since nodes meet only in the table.
- *MlCache*: two workers, three clients of which one warms up: a holder, a
  waiter in its worker and one in the other. One write (two versions) and one
  crash; the versions include one in which the entity does not exist.
- *RouterRebuild*: two routes, a timer and a request that may bypass the mutex,
  routes that are there when the worker starts or not, two more writes, two
  seconds: enough for a route rewritten in its second behind a later one of the
  other route, without whose excuse three properties fail.
- *Reconfigure*: three configurations between which a route changes, another
  route and the plugin come and go, and the upstream goes or changes, and four
  loads: the configurations may alternate, which is what hashes could get wrong.
  One worker, since workers meet in LMDB and the announcements only; the theorems
  are about any number. `reconfigure_balancer` needs one load, which changes the
  upstream alone, so that no read is stale.
- *HybridSync*: two workers (a data plane can move to one that is behind), two
  data planes (one can be connected while the other is not), two configurations,
  one failure, broken connection or restart. Exports of both connections and the
  loop can overlap. The theorems about safety have no such bound.
- *ExplainManifest*: seventy packages, a sound one for either architecture and
  thirty-four variants of each that differ in one or two files, chosen so that
  every sentence of the suites is false of one, every attribute is missing in
  one, and every way to raise occurs; thirteen command lines, with four targets
  that differ in architecture, rpath, libc maximum and fixture, and all outputs.
  Nothing is concurrent: the states are those of 910 runs of the program.
- *EhsmPlugin*: two workers, two enrollments beside the committed one and a
  created key and one encrypted text: two enrollments can overlap, one of them can
  lack its apikey and be flushed over the other, a key can be one the file no longer
  names. The theorems have no such bound.

Every property has a mutant in `PROJECT.json` that the run reports.

What the properties excuse. Some failures have no remedy in the code; a ghost
variable records them and the property speaks of the rest: `excused` and
`unheard` (MlCache: an invalidation lost in a crash, or passed while a client
held the old value; the L1 of a worker that an event did not reach), `failed` and
`torn` (ClusterEvents: a poll failed or a worker was started; the rows that a page
divided from one of the same time), `bypassed`
and `behind` (RouterRebuild: a strict request built without the mutex; the
versions committed behind a later `updated_at`), `off` (Reconfigure:
a section a failure left behind, or an upstream whose old balancer was kept, until
it is rebuilt from what was announced),
`overtaken`, `unpushed`, `refused` (HybridSync: an export of a worker that began
earlier ended later; an export failed or an event was not posted, and the worker
has not pushed the latest since; a configuration that a data plane could not load), `Waived` and `Unread` (ExplainManifest: a sentence
about an attribute that one of its files lacks, and the files from the first
without the key on: the code checks neither), `wiped` (EhsmPlugin: the last
writer of a file gave up between truncation and write) and `alone` (the appids
that came without an apikey). Each of them is a documented hazard.
`RunsAtMostOnce` needs timers that are late by less than half an interval
(2 * Slack < PollInterval): the mark of a row lives for two intervals.

## 4. Fairness

- *Queue*: weak fairness of the timer's steps: nginx runs a timer that is due,
  a semaphore's wait ends by a post or its timeout, handlers have timeouts.
  None for producers, nor for the success of a handler.
- *MlCache*: weak fairness of a client's next step (the wait for the lock is
  bounded by its timeout, a callback by the database's), of deletions and
  deliveries, and of a lock's expiry. None for expiry and eviction of entries.
- *RouterRebuild*: weak fairness of the invalidation; strong fairness of a
  build's steps and of the timers that start them, because reads may fail and
  a request may take the mutex any number of times, but not for ever.
- *Reconfigure*: weak fairness of the announcement, of each handler and of a request
  that makes a balancer (targets are resolved or fail in time). None for requests.
- *HybridSync*: weak fairness of each worker's push loop and, together, of the
  data planes' connections and loads: some of what can go on does (they reconnect,
  sockets deliver, loads end). None for writes, losses or failures.
- *ExplainManifest* and *EhsmPlugin* have no fairness: the first is a sequential
  program whose every stage ends, the second waits for servers without timeouts,
  so that nothing may be promised to happen.
- *ClusterEvents* has no liveness property: its deadlines are safety properties
  over the clock (`HandledByNextPoll`).

## 5. Proofs

TLAPS checks every theorem below for all values of the constants that satisfy
the modules' ASSUMEs (`QueueAssumption`, `ClusterEventsAssumption`,
`MlCacheAssumption`, `RouterRebuildAssumption`, `ReconfigureAssumption`,
`HybridSyncAssumption`, `BoundsAssumption`, `ArgumentsAssumption`,
`PackagesAssumption`), which only state what kinds of values they are. (A package
is a sequence of entries; an ELF file requires finitely many versions of a library.) A theorem that needs more of the constants says so in its statement.

`QueueProofs`:

- `TypeCorrect`: `Spec => []TypeOK`, by induction. The semaphore and the
  claimed count never go below zero, whatever producers and timer do.
- `SemaphoreAgrees`, `NoAssertionFails`: `RoomySpec => []...`, for every
  configuration. `SemaphoreTracksEntries` alone is not inductive; `CountsInv` adds
  what the timer's wait means (at most `MaxBatchSize - 1` entries are claimed) and
  that the capacity holds. `DefaultIsRoomy`: where the timer never waits (batches
  of one, as by default, or no coalescing delay) `Spec => RoomySpec`, so that
  these theorems hold there whatever producers do. Otherwise the counts can come
  apart (see Disagreements).
- `NoBusyTimer`, `RaisesWhereItWaits`: what is left then, for `Spec` and every
  configuration. `CoverInv`: the semaphore and the claimed count never fall short
  of the entries stored (a drop that takes no resource leaves them too high), and
  deletions run past the back only of an empty array. So whatever the loop counts
  it can claim, and a drop fails only where the waiter hides the resources.
- `RetryBudget`: an attempt never starts later than one capped delay after
  `max_retry_time`. The strengthening (`RetryInv`) bounds elapsed time and the
  delay while the timer sleeps.

- `CapacityHolds`: `Spec => []CapacityRespected`, for every configuration, also those
  in which the semaphore can lose count. The bytes of a queue are a recursive
  function; what dropping and appending does to them (`BytesDrop`, `BytesAppend`)
  is proved by induction over the length. That induction is itself a lemma
  (`NatInd`, from the least element of a set of numbers, `LeastNat`), in a form
  that needs no operator as a parameter. `CapacityInv` adds that deletions only
  run past the back of a queue that is empty and has no `max_bytes`, and that a queue
  not created yet is empty.

For its order: every step of the queue has one of five shapes as far as its entries go (`Shapes`: it stores one behind those it drops, discards
some without storing, starts a batch, settles it, or touches none).

- `NothingVanishes`: `RoomySpec => []NoEntryVanishes`. `PartInv` is
  inductive: ids ascend along the queue, and those given out so far are divided,
  without overlap, among the queue, the batch, and what was delivered, lost or
  dropped.
- `QueueIsFifo`: if no entry is longer than `max_bytes`, the initial states of
  `RoomySpec` are those of `LossyFifo` and every step is one of its steps or a
  stutter, through the refinement mapping that `Queue` states. A refused entry may
  cost an accepted one, which no step of the buffer does. `LossyFifo` leaves open
  when and how many of the oldest entries a store discards (by number, by bytes);
  its fairness stays with TLC.

`ClusterEventsProofs`, for any number of nodes, rows, pages and times:

- `TypeCorrect`. That a poll never asks for a page behind the last row
  (`PageBound`) needs that a full page was there before the next one is asked for.
- `RunsOnce`: `2 * Slack < PollInterval => (Spec => []RunsAtMostOnce)`. `OnceAt`
  relates a row's mark to the polls that can still select the row: while it has run,
  the mark outlives every poll whose interval reaches back to it (`TimeInv` bounds
  how late such a poll begins); what waits for its nbf is a foreign row (`DueInv`).
- `HandledInTime`: `MaxCommitDelay <= PollOffset => (Spec => []HandledByNextPoll)`.
  `CoverInv`: a committed row that was not handled is still to come (`ToCome`),
  either with the next poll, whose interval reaches behind its timestamp, or on a
  page of the present one that has not been read. Pages are separate queries with
  an offset; the second holds because no row leaves the interval, so that a commit
  between two pages can only put more rows of an earlier time before it, and because
  a page that ends before a row, with none of the same time on it, has earlier rows
  only (`PageLeaves`). It needs nothing of the order of equal times, but a page that
  divides them is excused (`torn`). The condition is what `db_update_propagation` is
  for; its default 0 meets it only if rows commit in the millisecond of their stamp.

`MlCacheProofs`:

- `TypeCorrect`, which includes that each dictionary has only versions of its
  kind; the others need it.
- `OneCallback`: `SingleFlight`, from the stronger `HolderHasLock` (theorem
  `LockIsHeld`): whoever runs the callback or has yet to store holds the lock.
  Crashes and expiry preserve it because a lock only expires under a coroutine
  that is gone, unless callbacks outlast it (`SlowReads`).
- `OldIsOnItsWayOut`: `StaleIsPending`. Inductive is `FreshInv`: not only what is
  cached but also what a client holds and may yet store is current or has a
  pending invalidation that will remove that kind of version after it is stored.
  Lemmas show separately that moves of clients and environment
  (`MovesKeepFresh`, `ClientsKeepFresh`) and the steps of a write
  (`WritesKeepFresh`) keep it.

`RouterRebuildProofs`:

- `TypeCorrect`, from `Types`, which also bounds versions by the writes made and
  a build's target by the version the worker sees.
- `OneRebuild`: `OneRebuildInPlace`, from `MarkInv`: two coroutines in the update
  are one, and the mark says whether there is one. The mutex is not needed: it
  holds also when a request bypassed it.
- `CachesAgree`: `NoStaleMatch`; a coroutine that changes the router is why the
  router is marked (`MarkInv`), and `Install` flushes the caches.
- `EveryMatchFindsARoute` and `TableLosesNoWrite` say what holds for any number of
  pages, and behind a build that bypassed the mutex too. `MatchersFindRoutes`: engine
  and table have the same routes in every yield, so that a match has its route and
  the assertions on `remove_matcher` hold; a matcher that is behind its route is so
  within one second. It is inductive as it stands. `RoutesAreCurrent`: the table
  of a router built for the version the worker sees is the database. `PagesInv`
  has the reason, which is not that pages are consistent (they are not): a build whose
  target is still the version of the worker, when no write is on its way, has seen
  no write since it began, so all it has read is what is there. What several pages
  can lose is thus the expression the engine matches a route by, when it was
  rewritten within the second of its predecessor.
- `EveryMatchHasItsRoute` and `RebuildLosesNoWrite`: `MatchersHaveRoutes` and
  `RouterIsCurrent` if `NumRoutes <= PageSize`. Inductive is `OnePageInv`: while
  no request has bypassed the mutex, whoever builds has it (`MutexInv`); what the
  router has, and what a build has found, is the database as it was at one time,
  so that a later write of a route, unless it is `behind`, has a second not before
  any of those seen (`SnapshotInv`, `GatheredInv`), which is why "not older than
  the newest of the last build" recognizes it; and an update has got as far as
  `next` (`ProgressInv`). What is `behind` the router has in its table, but perhaps
  with the matcher of the version before (`Fits`).
  With more pages what is found is not the database at one time:
  `router_pages` is the counterexample.

`ReconfigureProofs`, for any number of workers, routes, configurations and loads:

- `TypeCorrect`, which includes that a worker has no more announcements to come
  than were loaded.
- `WorkersServe`: `WorkersServeConfig`. What a worker reads may be newer than the
  hash it notes down beside it, so the obvious statement (what a worker serves has
  the section's hash as its label) is not inductive. `ServeInv` is: for each section
  that no failure left behind, the hashes still to come end with that of LMDB; and
  if all of them are the one the worker has or works on, then what it serves or has
  gathered is what is in LMDB. A balancer that a request is still making counts as
  served (`Has`), which is sound because none is made where there is one (`Place`).
  The proof found an excuse that was too narrow: a
  section rebuilt after a failure stays excused (`off`) until what was read is what
  was announced (`AsAnnounced`), because announcements queued before the failure
  can bring back an older hash.

`HybridSyncProofs`, for any number of workers, data planes, writes and losses. `BaseInv`
is inductive by itself: types, nothing newer than the database (`Bounds`), and
what the places of loop and connections say of the rest (`Places`). On it rest

- `TypeCorrect`: `TypeOK`, with the bounds of both semaphores;
- `SlotAlwaysWatched`: `SlotIsWatched`. Inductive is `WatchInv`, which also holds
  while something else is loaded: that is when a wake-up could be saved wrongly;
- `GoesBackOnlyElsewhere`: the action property `BackOnlyElsewhere`. `OrderInv`, for
  each worker: from what it sent to LMDB over load, slot and wire to its payload
  configurations only get newer (`Behind`, `InLine`, `Covers`). Before there is a
  payload every export under way in it must have found something at least as new
  as all that it has sent, which a restart of the worker relies on;
- `QuietIsInSync`: `QuietMeansInSync`. `FlowInv`: unless a push of the worker is
  still to come (`Pending`), its payload is the newest configuration and the last one
  on the way to each data plane connected to it (`OnItsWay`).

`ExplainManifestProofs`, for any packages, command lines and fixtures, and for the
twenty-one targets as they are:

- `TypeCorrect`.
- `NothingElseLeft`, `DeliversManifest`: `LeftBehindExplained`, `ManifestDelivered`.
  `ExitInv` says at each stage what of temporary directory, container, output and
  exit code is settled.
- `ReportsOnlyFailures` and `PassingMeansTrue`: `FailuresAreReal` and
  `PassMeansHolds`, from the invariant `CheckInv`. The two properties read a
  sentence of the suite from its words alone: who was named last, what was said
  since. The chain has only its four variables. `Remembered` is the relation between
  the two: the files are those of the last `expect`, the negation is set exactly if
  a `not` stands behind the last name, the attribute is the last one and the key the
  one behind it. It is kept by every word (`RememberedNext`), but what a verb then
  does with it is only right for a suite in which a verb or a comparison follows
  an attribute with at most one key in between, a comparison has a version to compare
  with and a key, and `exists` comes with nothing said since its `expect`. Those are properties of the scripts: `Begun` and `Speech` are a
  grammar, closed under putting sentences behind each other (`Joins`), and
  `SpeechTargets` derives the script of every target in it, arm64 twins included.
  `SentencePoised` concludes how the chain stands at each verb.
  The other half is about data: an attribute that is there has a value, and versions
  are finitely many (`InfoGood`), so that the ends of a list which `_less_than` and
  `_greater_than` look at exist (`Extremes`) and a verb judges a value as its meaning
  in English does (`JudgedVerbs`); and `_compare`, which stops at the first file that
  fails, raises or lacks the key, records nothing exactly when all the files it read
  are as the sentence says, and otherwise the first one that is not (`CompareSays`).

`EhsmProofs`, for any number of workers, enrollments and keys:

- `TypeCorrect`, which says that nothing names an enrollment or a key that the
  server has not granted.
- `OnePair`: `CredPairs`. Inductive is `IInv`, which adds `Halves`: what `CredPairs`
  says of the clients holds of the file and of curl's answers, and the buffers of
  files left open hold appids that came alone and nothing else.
- `FilesAreExplained`: `FilesExplained`, inductive beside `TypeOK`; the history
  variable carries what writers that gave up leave behind.

Only model-checked: the liveness properties (`EveryEntrySettled`, `GetReturns`,
`EventuallyNew`, `RouterCatchesUp`, `WorkersCatchUp`, `InSync`) and the fairness part of `ImplementsFifo`: temporal
reasoning under fairness and ENABLED are beyond this prover. Every invariant of a
passing run is a theorem, eight of them under a stated condition on the
constants that the configurations of their runs satisfy. The modules use recursive
functions and folds, no RECURSIVE operator.

## 6. Disagreements between the code and what is said of it

Those with a run; `PROJECT.json` ("findings") has the quotes and lines.

1. `router_pages`: an incremental rebuild that read a torn set of pages can take
   a changed route for unmodified, in this and every later rebuild. (A write that
   is committed behind a later second can be lost in the same way with one page:
   the ghost `behind` excuses it, see "What the properties excuse".)
2. `reconfigure_balancer`: a request served between the stop of the balancers and
   `balancer.init` makes the balancer again from the upstream's old version, which
   `create_balancer` without `recreate` keeps (`balancer/init.lua:259`) under the
   new hash. The log says the balancer is reinitialized with a new configuration.
3. `manifest_versions`: `greater_than` looks at the smallest item of a list, so
   that "libc version is less than" a maximum (`suites.py:89`) is only tested of
   the oldest version a library needs: one that needs an old and a too new one
   passes.

Four more have no run beside these, but their properties are in the modules and
TLC finds each violated under the constants given:

- An enqueue that needs room while the timer coalesces can fail the assertion of
  `drop_oldest_entry` (`queue.lua:214`): the timer has taken the resources of the
  entries it claimed, and a post it has not woken to is hidden by its own wait. The
  header (`queue.lua:46`) says the oldest entry is discarded and the new one is
  queued. `EnqueueNeverRaises` of `MCQueue` with `SPECIFICATION Spec`,
  `MaxBatchSize = 3`, `MaxEntries = 3`, `MaxBytes = 0`, `Coalesce = TRUE`,
  `MaxRetryTime = 1`, `InitialRetryDelay = 1`, `MaxRetryDelay = 1`, `Sizes = {1}`,
  `HandlerTimes = {1}`, `MaxId = 6`.
- Where that assertion holds, `wait(0)` takes nothing because the timer waits, and
  the entry is deleted all the same: a later batch claims an entry too many, `front`
  passes `back`, and an entry whose enqueue returned true is stored where nothing
  reads it, without a message. `NoEntryVanishes` with the same constants.
- With the default `db_update_propagation = 0` an event that commits later than
  its timestamp can be passed over for good. `NoEventSkipped` of
  `MCClusterEvents` with `PollInterval = 2`, `PollOffset = 0`, `PollDelay = 0`,
  `PageSize = 2`, `MaxCommitDelay = 2`, `Slack = 1`, `Failures = FALSE`,
  `Reloads = 0`, `MaxEvents = 2`, `MaxTime = 8`, `Pollers = {n1}`.
- A value read before a write and stored after its invalidation stays until its
  TTL, which by default is for ever. `OldIsPurged` of `MCMlCache` with two
  clients, `WorkerOf <- MCWorkerOf2`, `Warmers = {}`, no expiry, failing reads or
  posts, nor slow reads, `MaxWrites = 1`, `MaxCrashes = 0`.

Seen while modelling, without a property of their own. In Kong: a worker that
starts moves the polling interval of the node past rows not yet polled (`Reload`
in `ClusterEvents`, `cluster_events/init.lua:123`); a row is marked as run before
its callbacks run (`:229`); `init_cache` reads `resurrect_ttl` where the property
is called `db_resurrect_ttl` (`global.lua:257`); an expired entity hides a cached
miss (`mlcache/init.lua:445`); `stop_healthcheckers` asks a cache that the load
has purged and leaves the checkers of deleted upstreams running
(`healthcheckers.lua:421`); the lock of a load (`import.lua:582`) is deleted by
whoever ends, also after it passed to another loader; an error inside
`new_from_previous` (`atc.lua:332`) leaves its mark set; exports
read through the read-only connection and may find a replica that lags behind
(`export.lua:73`).

Each worker of a control plane sends its own payload, so that a data plane that
reconnects may get an older configuration than it has, for as long as the worker's
loop sleeps or exports (`control_plane.lua:289`).

In `scripts/explain_manifest`: the help of `--path` speaks of a directory, but
one is always refused (`main.py:25`, `:172`); `--merge_rpaths_runpaths` has no
effect; alpine and several arm64 targets have no fixture and are compared with
an empty file (`diff -N`, `expect.py:317`); the check of CXXABI fails a library
that needs GLIBCXX versions only; a verb on a missing attribute prints `[FAIL]`
and records nothing (`expect.py:297`). In `api-version`: the create client
prints its working directory behind the key id, which the handler joins to it
(`ehsm_CLI_createkey.py:27`, `ehsm.lua:186`), so that `Encrypt` and `Decrypt`
with a created key are refused; `base64` is not defined in the handler
(`ehsm.lua:151`), so that `GenerateQuote` raises behind its client;
an answer with an appid alone raises behind the write of the first line (`:120`), and
the collector writes that appid later over whatever pair is in the file;
`text_to_decrypt` is a global (`:282`); the decrypt client ignores its `aad`; the
clients read two different trees.

## 7. Plan

Modules, in order of importance; each with its MC module and theorems.

1. *Proofs* for what is there: under which condition on a package
   `VersionsBelowMax` holds after all.
2. `Invalidation`: `ClusterEvents` and `MlCache` composed over two nodes,
   refined by a specification of eventual consistency of caches.
3. `Balancer`: creation under a lock, targets and their renewal by DNS, events
   of health checkers against the replacement of a balancer.
4. `DnsClient`: one query per name in flight, waiters, timeouts, stale answers.
5. `RateLimiting`: counters with asynchronous sync, how much may be admitted.
6. `VaultRotation`, `WorkerMutex` (with the migrations lock), `PluginServers`,
   `ProxyCache`, `Compatibility` of data planes; pure operators: the collection
   of plugins and the priorities of routes against reference definitions.
7. Parameters of existing modules: the expressions flavor in `RouterRebuild`, the
   DB-less `POST /config` in `Reconfigure`, the plugins of configurations in
   `HybridSync`.

With every new module the runs are reconsidered: one whose question another run
answers as well is dropped.
