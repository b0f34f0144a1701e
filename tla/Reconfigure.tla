---------------------------- MODULE Reconfigure ----------------------------
(***************************************************************************)
(* How the workers of a data plane take over a declarative configuration:  *)
(* update (kong/clustering/config_helper.lua) writes it to LMDB and        *)
(* announces it (kong/db/declarative/import.lua, kong/runloop/events.lua); *)
(* every worker then rebuilds what changed (reconfigure_handler,           *)
(* kong/runloop/handler.lua) from what it reads in LMDB.                   *)
(*                                                                         *)
(* A configuration has three sections: the routes (with their services), a *)
(* plugin and an upstream.  An entity is a version, 0 if it is absent, and *)
(* the hash of a section is the section.  The handler yields between the   *)
(* list of entities and the entities, and after each route it updates; the *)
(* router of the default flavor is updated in place.  Upstreams are read   *)
(* through core_cache, which a load purges with its commit, and which thus *)
(* answers what is in LMDB.  Requests that find no balancer make one.      *)
(***************************************************************************)
EXTENDS Naturals, Sequences

CONSTANTS
  Workers,
  Routes,
  Configs,      \* the configurations the control plane may send
  NoHash,       \* CURRENT_*_HASH before the first reconfigure
  FailingPosts, \* whether an announcement may be lost
  MaxLoads      \* bound: configurations written to LMDB

Sections == {"routes", "plugin", "upstream"}

ASSUME ReconfigureAssumption ==
  /\ Configs \subseteq [routes : [Routes -> Nat], plugin : Nat, upstream : Nat]
  /\ \A c \in Configs, s \in Sections : c[s] # NoHash
  /\ NoHash \notin Configs
  /\ FailingPosts \in BOOLEAN /\ MaxLoads \in Nat

VARIABLES
  lmdb,     \* the configuration in LMDB
  loads,    \* how many were written
  loader,   \* the config thread: "idle", or "committed" and not announced
  events,   \* events[w]: reconfigure events (their hashes) not handled yet
  router,   \* router[w]: version of each route's matcher, 0 if none
  plugins,  \* plugins[w]: version in the plugins iterator
  balancer, \* balancer[w]: version of the upstream that the balancer and its
            \* health checker were made from, 0 if there is none
  known,    \* known[w]: upstream_by_name, 0 if it has none
  making,   \* making[w]: what a request is making a balancer from, or 0
  label,    \* label[w]: CURRENT_ROUTER_HASH, _PLUGINS_HASH, _BALANCER_HASH
  pc,       \* "idle", "stop", "routes", "load_routes", "updating", "plugins",
            \* "load_plugins", "install", "balancers", "create"
  job,      \* job[w]: the event handled and what was gathered for it
  last,     \* ghost: whether the last reconfigure succeeded
  off       \* ghost: off[w]: the sections that a failure left behind, and the
            \* upstream if the balancer a request made meanwhile was kept

node == <<lmdb, loads, loader>>
requests == <<known, making>>
vars == <<node, requests, events, router, plugins, balancer, label, pc, job, last, off>>

NoJob == [hash |-> NoHash, listed |-> {}, routes |-> [r \in Routes |-> 0],
          plugin |-> 0, upstream |-> 0]

\* Workers have built what they serve from the configuration in LMDB.
Init ==
  /\ lmdb \in Configs /\ loads = 0 /\ loader = "idle"
  /\ events = [w \in Workers |-> <<>>]
  /\ router = [w \in Workers |-> lmdb.routes]
  /\ plugins = [w \in Workers |-> lmdb.plugin]
  /\ balancer = [w \in Workers |-> lmdb.upstream]
  /\ known = balancer /\ making = [w \in Workers |-> 0]
  /\ label = [w \in Workers |-> [s \in Sections |-> NoHash]]
  /\ pc = [w \in Workers |-> "idle"]
  /\ job = [w \in Workers |-> NoJob]
  /\ last = [w \in Workers |-> "ok"]
  /\ off = [w \in Workers |-> {}]

-----------------------------------------------------------------------------
(* The config thread, in worker 0: it alone loads, so its lock is free. *)

\* Mutant: the load announces what update announces again.
CommitAnnounces(c) ==
  /\ loader = "idle" /\ loads < MaxLoads
  /\ c # lmdb
  /\ lmdb' = c /\ loads' = loads + 1
  /\ loader' = "committed"
  /\ events' = [w \in Workers |-> Append(events[w], c)]
  /\ UNCHANGED <<requests, router, plugins, balancer, label, pc, job, last, off>>
\* One LMDB transaction; the configuration that is there is not loaded again.
Commit(c) ==
  /\ loader = "idle" /\ loads < MaxLoads
  /\ c # lmdb
  /\ lmdb' = c /\ loads' = loads + 1
  /\ loader' = "committed"
  /\ UNCHANGED <<requests, events, router, plugins, balancer, label, pc, job, last, off>>

\* Mutant: a worker that is busy with an event misses the next one.
AnnounceToIdle ==
  /\ loader = "committed"
  /\ loader' = "idle"
  /\ events' = [w \in Workers |->
       IF pc[w] = "idle" THEN Append(events[w], lmdb) ELSE events[w]]
  /\ UNCHANGED <<lmdb, loads, requests, router, plugins, balancer, label, pc, job, last, off>>
\* declarative_reconfigure_notify, after a yield: does not wait for workers.
Announce ==
  /\ loader = "committed"
  /\ loader' = "idle"
  /\ events' = [w \in Workers |-> Append(events[w], lmdb)]
  /\ UNCHANGED <<lmdb, loads, requests, router, plugins, balancer, label, pc, job, last, off>>

\* The broadcast fails, or worker 0 dies before it: nobody tries again, and
\* the same configuration is not loaded again either.
AnnounceFails ==
  /\ FailingPosts /\ loader = "committed"
  /\ loader' = "idle"
  /\ off' = [w \in Workers |-> Sections]
  /\ UNCHANGED <<lmdb, loads, requests, events, router, plugins, balancer, label, pc, job, last>>

-----------------------------------------------------------------------------
(* reconfigure_handler: the events of a worker are handled one at a time. *)

Changed(w, s) == label[w][s] # job[w].hash[s]

Upstreams == IF lmdb.upstream # 0 THEN {lmdb.upstream} ELSE {}

\* Where the handler goes after the router, and after the stop of balancers.
AfterRouter(w, e) == IF e.plugin # label[w].plugin THEN "plugins" ELSE "install"
AfterStop(w, e) == IF e.routes # label[w].routes THEN "routes" ELSE AfterRouter(w, e)

\* If the upstreams change, stop_healthcheckers lists them, and yields.
Receive(w) ==
  /\ pc[w] = "idle" /\ events[w] # <<>>
  /\ LET e == Head(events[w])
         stop == e.upstream # label[w].upstream
     IN  /\ job' = [job EXCEPT ![w] =
              [NoJob EXCEPT !.hash = e, !.listed = IF stop THEN Upstreams ELSE {}]]
         /\ pc' = [pc EXCEPT ![w] = IF stop THEN "stop" ELSE AfterStop(w, e)]
  /\ events' = [events EXCEPT ![w] = Tail(@)]
  /\ UNCHANGED <<node, requests, router, plugins, balancer, label, last, off>>

\* The callback returns an error or raises: it is logged, nothing is undone.
Fail(w) ==
  /\ pc' = [pc EXCEPT ![w] = "idle"]
  /\ job' = [job EXCEPT ![w] = NoJob]
  /\ last' = [last EXCEPT ![w] = "failed"]
  /\ off' = [off EXCEPT ![w] = Sections]

\* No list: stop_healthcheckers raises.
StopIsStale(w) ==
  /\ pc[w] = "stop" /\ job[w].listed # {} /\ lmdb.upstream = 0
  /\ Fail(w)
  /\ UNCHANGED <<node, requests, events, router, plugins, balancer, label>>

\* The balancer of an upstream that is in LMDB by now is given up.
StopCheckers(w) ==
  /\ pc[w] = "stop"
  /\ job[w].listed # {} => lmdb.upstream # 0
  /\ balancer' = [balancer EXCEPT ![w] = IF job[w].listed # {} THEN 0 ELSE @]
  /\ pc' = [pc EXCEPT ![w] = AfterStop(w, job[w].hash)]
  /\ UNCHANGED <<node, requests, events, router, plugins, label, job, last, off>>

\* page_for_key reads the list of keys, and yields.
ListRoutes(w) ==
  /\ pc[w] = "routes"
  /\ job' = [job EXCEPT ![w].listed = {r \in Routes : lmdb.routes[r] # 0}]
  /\ pc' = [pc EXCEPT ![w] = "load_routes"]
  /\ UNCHANGED <<node, requests, events, router, plugins, balancer, label, last, off>>

\* "stale data detected while paginating"
RoutesAreStale(w) ==
  /\ pc[w] = "load_routes"
  /\ \E r \in job[w].listed : lmdb.routes[r] = 0
  /\ Fail(w)
  /\ UNCHANGED <<node, requests, events, router, plugins, balancer, label>>

LoadRoutes(w) ==
  /\ pc[w] = "load_routes"
  /\ \A r \in job[w].listed : lmdb.routes[r] # 0
  /\ job' = [job EXCEPT ![w].routes =
               [r \in Routes |-> IF r \in job[w].listed THEN lmdb.routes[r] ELSE 0]]
  /\ pc' = [pc EXCEPT ![w] = "updating"]
  /\ UNCHANGED <<node, requests, events, router, plugins, balancer, label, last, off>>

\* new_from_previous, one route between two yields (in any order); ROUTER is
\* what it updates.
UpdateRoute(w) ==
  /\ pc[w] = "updating"
  /\ \E r \in Routes :
       /\ router[w][r] # job[w].routes[r]
       /\ router' = [router EXCEPT ![w][r] = job[w].routes[r]]
  /\ UNCHANGED <<node, requests, events, plugins, balancer, label, pc, job, last, off>>

RouterBuilt(w) ==
  /\ pc[w] = "updating" /\ router[w] = job[w].routes
  /\ pc' = [pc EXCEPT ![w] = AfterRouter(w, job[w].hash)]
  /\ UNCHANGED <<node, requests, events, router, plugins, balancer, label, job, last, off>>

\* PluginsIterator.new: again the list, and the entities after a yield.
ListPlugins(w) ==
  /\ pc[w] = "plugins"
  /\ job' = [job EXCEPT ![w].listed = IF lmdb.plugin # 0 THEN {lmdb.plugin} ELSE {}]
  /\ pc' = [pc EXCEPT ![w] = "load_plugins"]
  /\ UNCHANGED <<node, requests, events, router, plugins, balancer, label, last, off>>

PluginsAreStale(w) ==
  /\ pc[w] = "load_plugins"
  /\ job[w].listed # {} /\ lmdb.plugin = 0
  /\ Fail(w)
  /\ UNCHANGED <<node, requests, events, router, plugins, balancer, label>>

LoadPlugins(w) ==
  /\ pc[w] = "load_plugins"
  /\ job[w].listed # {} => lmdb.plugin # 0
  /\ job' = [job EXCEPT ![w].plugin = IF job[w].listed = {} THEN 0 ELSE lmdb.plugin]
  /\ pc' = [pc EXCEPT ![w] = "install"]
  /\ UNCHANGED <<node, requests, events, router, plugins, balancer, label, last, off>>

\* Ghost: section s is rebuilt as it was announced and as it is in LMDB, and
\* what w is still told ends there (after a lost announcement it may not).
AsAnnounced(w, s) ==
  /\ job[w].hash[s] = lmdb[s]
  /\ loader = "idle" /\ events[w] # <<>> => events[w][Len(events[w])][s] = lmdb[s]
  /\ s = "routes" => router[w] = lmdb.routes
  /\ s = "plugin" => job[w].plugin = lmdb.plugin

Finish(w) ==
  /\ last' = [last EXCEPT ![w] = "ok"]
  /\ pc' = [pc EXCEPT ![w] = "idle"]
  /\ job' = [job EXCEPT ![w] = NoJob]

\* Mutant: the hashes are those of LMDB by now.
InstallCurrentHash(w) ==
  LET new == {s \in Sections \ {"upstream"} : Changed(w, s)}
  IN  /\ pc[w] = "install"
      /\ plugins' = [plugins EXCEPT ![w] = IF "plugin" \in new THEN job[w].plugin ELSE @]
      /\ label' = [label EXCEPT ![w] = [lmdb EXCEPT !.upstream = label[w].upstream]]
      /\ off' = [off EXCEPT ![w] = @ \ {s \in new : AsAnnounced(w, s)}]
      /\ IF Changed(w, "upstream")
         THEN /\ known' = [known EXCEPT ![w] = 0]
              /\ job' = [job EXCEPT ![w].listed = Upstreams]
              /\ pc' = [pc EXCEPT ![w] = "balancers"]
              /\ UNCHANGED last
         ELSE Finish(w) /\ UNCHANGED known
      /\ UNCHANGED <<node, making, events, router, balancer>>
\* "below you are not supposed to yield": what was built is put in place, and
\* balancer.init forgets the upstreams' names and lists the upstreams.
Install(w) ==
  LET new == {s \in Sections \ {"upstream"} : Changed(w, s)}
  IN  /\ pc[w] = "install"
      /\ plugins' = [plugins EXCEPT ![w] = IF "plugin" \in new THEN job[w].plugin ELSE @]
      /\ label' = [label EXCEPT ![w] = [job[w].hash EXCEPT !.upstream = label[w].upstream]]
      /\ off' = [off EXCEPT ![w] = @ \ {s \in new : AsAnnounced(w, s)}]
      /\ IF Changed(w, "upstream")
         THEN /\ known' = [known EXCEPT ![w] = 0]
              /\ job' = [job EXCEPT ![w].listed = Upstreams]
              /\ pc' = [pc EXCEPT ![w] = "balancers"]
              /\ UNCHANGED last
         ELSE Finish(w) /\ UNCHANGED known
      /\ UNCHANGED <<node, making, events, router, balancer>>

-----------------------------------------------------------------------------
(* balancer.init: it yields for the page of upstreams and for what a new    *)
(* balancer needs.  Its errors are logged, and the hash is set.             *)

LabelBalancer(w) ==
  /\ label' = [label EXCEPT ![w].upstream = job[w].hash.upstream]
  /\ Finish(w)

\* No upstream is there, or the list that was read is stale.
NoUpstream(w) ==
  /\ pc[w] = "balancers" /\ (job[w].listed = {} \/ lmdb.upstream = 0)
  /\ LabelBalancer(w)
  /\ off' = [off EXCEPT ![w] =
       @ \ {s \in {"upstream"} : AsAnnounced(w, s) /\ lmdb.upstream = 0}]
  /\ UNCHANGED <<node, requests, events, router, plugins, balancer>>

\* The list was read, the upstream is gone when it is: create_balancer(nil).
InitRaises(w) ==
  /\ pc[w] = "balancers" /\ job[w].listed # {} /\ lmdb.upstream = 0
  /\ Fail(w)
  /\ UNCHANGED <<node, requests, events, router, plugins, balancer, label>>

\* create_balancer does not recreate: one that a request made since the stop,
\* or is making (its end, or 30 seconds, are waited for), is the balancer.
KeepBalancer(w) ==
  /\ pc[w] = "balancers" /\ job[w].listed # {} /\ lmdb.upstream # 0
  /\ balancer[w] # 0 \/ making[w] # 0
  /\ LabelBalancer(w)
  /\ off' = [off EXCEPT ![w] =
       IF lmdb.upstream \notin {balancer[w], making[w]} THEN @ \cup {"upstream"} ELSE @]
  /\ UNCHANGED <<node, requests, events, router, plugins, balancer>>

ReadUpstream(w) ==
  /\ pc[w] = "balancers" /\ job[w].listed # {} /\ lmdb.upstream # 0
  /\ balancer[w] = 0 /\ making[w] = 0
  /\ job' = [job EXCEPT ![w].upstream = lmdb.upstream]
  /\ pc' = [pc EXCEPT ![w] = "create"]
  /\ UNCHANGED <<node, requests, events, router, plugins, balancer, label, last, off>>

CreateBalancer(w) ==
  /\ pc[w] = "create"
  /\ balancer' = [balancer EXCEPT ![w] = job[w].upstream]
  /\ known' = [known EXCEPT ![w] = job[w].upstream]
  /\ LabelBalancer(w)
  /\ off' = [off EXCEPT ![w] =
       @ \ {s \in {"upstream"} : AsAnnounced(w, s) /\ job[w].upstream = lmdb.upstream}]
  /\ UNCHANGED <<node, making, events, router, plugins>>

\* The page of its targets is stale, or they cannot be resolved: there is no
\* balancer until a request.
CreateFails(w) ==
  /\ pc[w] = "create"
  /\ known' = [known EXCEPT ![w] = job[w].upstream]
  /\ LabelBalancer(w)
  /\ off' = [off EXCEPT ![w] = @ \cup {"upstream"}]
  /\ UNCHANGED <<node, making, events, router, plugins, balancer>>

-----------------------------------------------------------------------------
(* get_balancer: requests for the upstream *)

\* It is found by its name, or through core_cache; while the handler makes
\* a balancer requests wait.
Request(w) ==
  LET upstream == IF known[w] # 0 THEN known[w] ELSE lmdb.upstream
      makes == balancer[w] = 0 /\ making[w] = 0 /\ pc[w] # "create"
  IN  /\ upstream # 0 /\ (makes \/ known[w] = 0)
      /\ known' = [known EXCEPT ![w] = upstream]
      /\ making' = [making EXCEPT ![w] = IF makes THEN upstream ELSE @]
      /\ UNCHANGED <<node, events, router, plugins, balancer, label, pc, job, last, off>>

\* Its targets are loaded and resolved.
RequestMakes(w) ==
  /\ making[w] # 0
  /\ balancer' = [balancer EXCEPT ![w] = making[w]]
  /\ known' = [known EXCEPT ![w] = making[w]]
  /\ making' = [making EXCEPT ![w] = 0]
  /\ UNCHANGED <<node, events, router, plugins, label, pc, job, last, off>>

RequestFails(w) ==
  /\ making[w] # 0
  /\ known' = [known EXCEPT ![w] = making[w]]
  /\ making' = [making EXCEPT ![w] = 0]
  /\ off' = [off EXCEPT ![w] = @ \cup {"upstream"}]
  /\ UNCHANGED <<node, events, router, plugins, balancer, label, pc, job, last>>

-----------------------------------------------------------------------------
Handle(w) ==
  \/ Receive(w) \/ StopIsStale(w) \/ StopCheckers(w)
  \/ ListRoutes(w) \/ RoutesAreStale(w) \/ LoadRoutes(w)
  \/ UpdateRoute(w) \/ RouterBuilt(w)
  \/ ListPlugins(w) \/ PluginsAreStale(w) \/ LoadPlugins(w)
  \/ Install(w)
  \/ NoUpstream(w) \/ InitRaises(w) \/ KeepBalancer(w) \/ ReadUpstream(w)
  \/ CreateBalancer(w) \/ CreateFails(w)

Settled(w) == loader = "idle" /\ pc[w] = "idle" /\ events[w] = <<>> /\ making[w] = 0

Next ==
  \/ \E c \in Configs : Commit(c)
  \/ Announce \/ AnnounceFails
  \/ \E w \in Workers : Handle(w) \/ Request(w) \/ RequestMakes(w) \/ RequestFails(w)
  \/ (\A w \in Workers : Settled(w)) /\ UNCHANGED vars  \* nothing to do

Spec == Init /\ [][Next]_vars

\* Threads that can run do.
FairSpec ==
  /\ Spec
  /\ WF_vars(Announce)
  /\ \A w \in Workers : WF_vars(Handle(w)) /\ WF_vars(RequestMakes(w))

-----------------------------------------------------------------------------
(* Properties *)

Hashes == {NoHash} \cup Configs

TypeOK ==
  /\ lmdb \in Configs /\ loads \in 0..MaxLoads /\ loader \in {"idle", "committed"}
  /\ \A w \in Workers :
       /\ Len(events[w]) <= loads /\ \A i \in 1..Len(events[w]) : events[w][i] \in Configs
       /\ router[w] \in [Routes -> Nat] /\ plugins[w] \in Nat
       /\ balancer[w] \in Nat /\ known[w] \in Nat /\ making[w] \in Nat
       /\ \A s \in Sections : label[w][s] \in {NoHash} \cup {c[s] : c \in Configs}
       /\ pc[w] = "idle" <=> job[w].hash = NoHash
       /\ job[w].hash \in Hashes /\ off[w] \subseteq Sections
       /\ last[w] \in {"ok", "failed"}

Serves(w, s) ==
  CASE s = "routes"   -> router[w] = lmdb.routes
    [] s = "plugin"   -> plugins[w] = lmdb.plugin
    [] s = "upstream" -> lmdb.upstream # 0 => balancer[w] = lmdb.upstream

\* A worker that has handled every announcement routes by the configuration in
\* LMDB, runs its plugins and balances by its upstream, although it skips
\* sections by their hashes, reads entities of configurations that are newer
\* than the hashes, and gives up the balancer first, which requests may make
\* again.  Sections are excused from a failure, and the upstream from a kept
\* balancer of an old version, until they are rebuilt from what is announced.
WorkersServeConfig ==
  \A w \in Workers : Settled(w) =>
    \A s \in Sections \ off[w] : Serves(w, s)

\* Every worker finishes what was announced to it.
WorkersCatchUp ==
  <>[](\A w \in Workers : \A s \in Sections \ off[w] : Serves(w, s))

\* "reinitializing balancer with a new configuration": a worker whose last
\* reconfigure succeeded has no balancer of a version of the upstream that is
\* not in LMDB any more.
BalancerReinitialized ==
  \A w \in Workers : Settled(w) /\ last[w] = "ok" /\ balancer[w] # 0 =>
    Serves(w, "upstream")
=============================================================================
