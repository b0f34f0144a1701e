------------------------- MODULE ReconfigureProofs -------------------------
(***************************************************************************)
(* Theorems about Reconfigure, for any number of workers, routes and       *)
(* configurations.  That a worker which has handled every announcement     *)
(* serves what is in LMDB is inductive as ServeInv: for every section that *)
(* no failure left behind, the hashes still to come end with the one of    *)
(* LMDB, and if all of them are the one the worker has or is about to      *)
(* have, what it has gathered so far is what is in LMDB.                   *)
(***************************************************************************)
EXTENDS Reconfigure, SequenceTheorems, TLAPS

Job == [hash : Hashes, listed : SUBSET (Routes \cup Nat),
        routes : [Routes -> Nat], plugin : Nat, upstream : Nat]

Points == {"idle", "stop", "routes", "load_routes", "updating", "plugins",
           "load_plugins", "install", "balancers", "create"}

Labels == {NoHash} \cup {c[s] : c \in Configs, s \in Sections}

Types ==
  /\ lmdb \in Configs /\ loads \in 0..MaxLoads /\ loader \in {"idle", "committed"}
  /\ loader = "committed" => loads > 0
  /\ events \in [Workers -> Seq(Configs)]
  /\ \A w \in Workers : Len(events[w]) + (IF loader = "idle" THEN 0 ELSE 1) <= loads
  /\ router \in [Workers -> [Routes -> Nat]]
  /\ plugins \in [Workers -> Nat] /\ balancer \in [Workers -> Nat]
  /\ known \in [Workers -> Nat] /\ making \in [Workers -> Nat]
  /\ label \in [Workers -> [Sections -> Labels]]
  /\ pc \in [Workers -> Points]
  /\ job \in [Workers -> Job]
  /\ last \in [Workers -> {"ok", "failed"}]
  /\ off \in [Workers -> SUBSET Sections]

(* What the place of a handler says of its job, of the worker's labels and *)
(* of its balancer: nothing makes a balancer where there is one.           *)
Place(w) ==
  /\ pc[w] = "idle" <=> job[w].hash = NoHash
  /\ \A s \in Sections : label[w][s] \in {NoHash} \cup {c[s] : c \in Configs}
  /\ pc[w] = "stop" => Changed(w, "upstream")
  /\ pc[w] \in {"routes", "load_routes", "updating"} => Changed(w, "routes")
  /\ pc[w] \in {"plugins", "load_plugins"} => Changed(w, "plugin")
  /\ pc[w] \in {"balancers", "create"} =>
       Changed(w, "upstream") /\ ~Changed(w, "routes") /\ ~Changed(w, "plugin")
  /\ making[w] # 0 \/ pc[w] = "create" => balancer[w] = 0
  /\ making[w] # 0 => pc[w] # "create"

Places == \A w \in Workers : Place(w)

(* The hash of section s that worker w hears of last is that of LMDB.      *)
EndsWithLmdb(w, s) ==
  CASE loader = "committed" -> TRUE
    [] loader = "idle" /\ events[w] # <<>> -> events[w][Len(events[w])][s] = lmdb[s]
    [] loader = "idle" /\ events[w] = <<>> /\ pc[w] # "idle" -> job[w].hash[s] = lmdb[s]
    [] OTHER -> label[w][s] \in {NoHash, lmdb[s]}

(* All that w has still to hear of section s is h.                         *)
OnlyHears(w, s, h) ==
  /\ loader = "committed" => lmdb[s] = h
  /\ \A i \in 1..Len(events[w]) : events[w][i][s] = h

(* The handler of w has section s from LMDB, as far as it has got.         *)
Gathered(w, s) ==
  CASE s = "routes" ->
         /\ pc[w] = "load_routes" => job[w].listed = {r \in Routes : lmdb.routes[r] # 0}
         /\ pc[w] = "updating" => job[w].routes = lmdb.routes
         /\ pc[w] \in {"plugins", "load_plugins", "install"} => router[w] = lmdb.routes
    [] s = "plugin" ->
         /\ pc[w] = "load_plugins" => (job[w].listed = {} <=> lmdb.plugin = 0)
         /\ pc[w] = "install" => job[w].plugin = lmdb.plugin
    [] s = "upstream" ->
         /\ pc[w] = "balancers" => (job[w].listed = {} <=> lmdb.upstream = 0)
         /\ pc[w] = "create" => job[w].upstream = lmdb.upstream

(* w has section s as it is in LMDB, or a request is making its balancer.  *)
Has(w, s) ==
  CASE s = "upstream" -> lmdb.upstream # 0 => lmdb.upstream \in {balancer[w], making[w]}
    [] OTHER -> Serves(w, s)

Sound(w, s) ==
  /\ EndsWithLmdb(w, s)
  /\ IF pc[w] = "idle"
     THEN OnlyHears(w, s, label[w][s]) => Has(w, s)
     ELSE OnlyHears(w, s, job[w].hash[s]) =>
            IF Changed(w, s) THEN Gathered(w, s) ELSE Has(w, s)

ServeInv == \A w \in Workers : \A s \in Sections \ off[w] : Sound(w, s)

-----------------------------------------------------------------------------
(* Sequences *)

LEMMA NoneIsEmpty == <<>> \in Seq(Configs) /\ Len(<<>>) = 0
  BY EmptySeq

LEMMA TailFacts ==
  ASSUME NEW s \in Seq(Configs), s # <<>>
  PROVE  /\ Head(s) \in Configs /\ Head(s) = s[1] /\ Tail(s) \in Seq(Configs)
         /\ Len(s) \in Nat \ {0} /\ Len(Tail(s)) = Len(s) - 1
         /\ \A i \in 1..Len(Tail(s)) : i + 1 \in 1..Len(s) /\ Tail(s)[i] = s[i + 1]
         /\ Tail(s) # <<>> <=> Len(s) > 1
<1>1. /\ Len(s) \in Nat \ {0} /\ Head(s) = s[1] /\ Head(s) \in Configs
      /\ Tail(s) \in Seq(Configs) /\ Len(Tail(s)) = Len(s) - 1
      /\ \A i \in 1..Len(Tail(s)) : Tail(s)[i] = s[i + 1]
  BY HeadTailProperties, LenProperties, ElementOfSeq, EmptySeq
<1>2. \A i \in 1..Len(Tail(s)) : i + 1 \in 1..Len(s)
  BY <1>1
<1>3. Tail(s) # <<>> <=> Len(Tail(s)) # 0
  BY <1>1, EmptySeq
<1> QED BY <1>1, <1>2, <1>3

LEMMA AppendFacts ==
  ASSUME NEW s \in Seq(Configs), NEW e \in Configs
  PROVE  /\ Append(s, e) \in Seq(Configs) /\ Append(s, e) # <<>>
         /\ Len(s) \in Nat /\ Len(Append(s, e)) = Len(s) + 1
         /\ \A i \in 1..Len(s) : Append(s, e)[i] = s[i]
         /\ Append(s, e)[Len(s) + 1] = e
  BY AppendProperties, LenProperties

(* What an announcement does to the queue of a worker, and what handling   *)
(* an event does.                                                          *)
LEMMA AnnounceFacts ==
  ASSUME Types, Announce, NEW w \in Workers
  PROVE  /\ events' \in [Workers -> Seq(Configs)] /\ events'[w] # <<>>
         /\ Len(events[w]) \in Nat /\ Len(events'[w]) = Len(events[w]) + 1
         /\ \A i \in 1..Len(events[w]) : events'[w][i] = events[w][i]
         /\ events'[w][Len(events'[w])] = lmdb
<1>1. \A v \in Workers : events[v] \in Seq(Configs) /\ lmdb \in Configs
  BY DEF Types
<1>2. events' = [v \in Workers |-> Append(events[v], lmdb)]
  BY DEF Announce
<1>3. events' \in [Workers -> Seq(Configs)]
  BY <1>1, <1>2, AppendFacts
<1>4. events'[w] = Append(events[w], lmdb)
  BY <1>2
<1> QED BY <1>1, <1>3, <1>4, AppendFacts

LEMMA ReceiveFacts ==
  ASSUME Types, NEW w \in Workers, Receive(w)
  PROVE  /\ events' \in [Workers -> Seq(Configs)]
         /\ Head(events[w]) \in Configs /\ Head(events[w]) = events[w][1]
         /\ Len(events[w]) \in Nat \ {0} /\ Len(events'[w]) = Len(events[w]) - 1
         /\ \A i \in 1..Len(events'[w]) : events'[w][i] = events[w][i + 1]
         /\ events'[w] # <<>> <=> Len(events[w]) > 1
         /\ \A v \in Workers \ {w} : events'[v] = events[v]
<1>1. /\ events \in [Workers -> Seq(Configs)] /\ events[w] \in Seq(Configs)
  BY DEF Types
<1>2. events' = [events EXCEPT ![w] = Tail(events[w])] /\ events[w] # <<>>
  BY DEF Receive
<1>3. events'[w] = Tail(events[w])
  BY <1>1, <1>2
<1>4. events' \in [Workers -> Seq(Configs)]
  BY <1>1, <1>2, TailFacts
<1>5. \A v \in Workers \ {w} : events'[v] = events[v]
  BY <1>1, <1>2
<1> QED BY <1>1, <1>2, <1>3, <1>4, <1>5, TailFacts

-----------------------------------------------------------------------------
(* Types *)

LEMMA ConfigType ==
  ASSUME NEW c \in Configs
  PROVE  /\ c.routes \in [Routes -> Nat] /\ c.plugin \in Nat /\ c.upstream \in Nat
         /\ c.routes = c["routes"] /\ c.plugin = c["plugin"] /\ c.upstream = c["upstream"]
  BY ReconfigureAssumption

LEMMA BaseInit == Init => Types /\ Places
<1> SUFFICES ASSUME Init PROVE Types /\ Places
  OBVIOUS
<1>1. /\ lmdb \in Configs /\ lmdb.routes \in [Routes -> Nat] /\ lmdb.plugin \in Nat
      /\ lmdb.upstream \in Nat
  BY ConfigType DEF Init
<1>2. NoJob \in Job /\ NoJob.hash = NoHash
  BY DEF NoJob, Job, Hashes
<1>3. events \in [Workers -> Seq(Configs)] /\ \A w \in Workers : Len(events[w]) = 0
  BY NoneIsEmpty DEF Init
<1>4. Types
  <2>1. label \in [Workers -> [Sections -> Labels]]
    BY DEF Init, Labels
  <2>2. 0 \in 0..MaxLoads
    BY ReconfigureAssumption
  <2> QED BY <1>1, <1>2, <1>3, <2>1, <2>2 DEF Init, Types, Points
<1>5. Places
  BY <1>2 DEF Init, Places, Place
<1> QED BY <1>4, <1>5

(* The steps of the config thread.                                         *)
LEMMA NodeKeepsBase ==
  ASSUME Types, Places, (\E c \in Configs : Commit(c)) \/ Announce \/ AnnounceFails
  PROVE  Types' /\ Places'
<1> USE ReconfigureAssumption
<1>1. ASSUME NEW c \in Configs, Commit(c) PROVE Types' /\ Places'
  <2>1. \A w \in Workers : Len(events[w]) \in Nat /\ Len(events[w]) <= loads
    BY <1>1, LenProperties DEF Commit, Types
  <2>2. loads' \in 0..MaxLoads /\ loads' = loads + 1 /\ loads \in Nat
    BY <1>1 DEF Commit, Types
  <2>3. Types'
    BY <1>1, <2>1, <2>2 DEF Commit, Types, requests
  <2>4. Places'
    BY <1>1 DEF Commit, Places, Place, Changed, requests
  <2> QED BY <2>3, <2>4
<1>2. CASE Announce
  <2>1. /\ events' \in [Workers -> Seq(Configs)]
        /\ \A w \in Workers : Len(events'[w]) = Len(events[w]) + 1 /\ Len(events[w]) \in Nat
    <3>1. CASE Workers = {}
      BY <1>2, <3>1 DEF Announce
    <3>2. CASE Workers # {}
      <4>1. PICK v \in Workers : TRUE
        BY <3>2
      <4>2. events' \in [Workers -> Seq(Configs)]
        BY <1>2, <4>1, AnnounceFacts
      <4>3. \A w \in Workers : Len(events'[w]) = Len(events[w]) + 1 /\ Len(events[w]) \in Nat
        BY <1>2, AnnounceFacts
      <4> QED BY <4>2, <4>3
    <3> QED BY <3>1, <3>2
  <2>2. Types'
    BY <1>2, <2>1 DEF Announce, Types, requests
  <2>3. Places'
    BY <1>2 DEF Announce, Places, Place, Changed, requests
  <2> QED BY <2>2, <2>3
<1>3. CASE AnnounceFails
  <2>1. Types'
    BY <1>3 DEF AnnounceFails, Types, requests
  <2>2. Places'
    BY <1>3 DEF AnnounceFails, Places, Place, Changed, requests
  <2> QED BY <2>1, <2>2
<1> QED BY <1>1, <1>2, <1>3

(* The fields of jobs as a handler fills them.                             *)
LEMMA JobType ==
  ASSUME NEW j \in Job, NEW h \in Configs, NEW S \in SUBSET (Routes \cup Nat),
         NEW R \in [Routes -> Nat], NEW n \in Nat
  PROVE  /\ NoJob \in Job /\ NoJob.hash = NoHash
         /\ [NoJob EXCEPT !.hash = h, !.listed = S] \in Job
         /\ [NoJob EXCEPT !.hash = h, !.listed = S].hash = h
         /\ [j EXCEPT !.listed = S] \in Job /\ [j EXCEPT !.listed = S].hash = j.hash
         /\ [j EXCEPT !.routes = R] \in Job /\ [j EXCEPT !.routes = R].hash = j.hash
         /\ [j EXCEPT !.plugin = n] \in Job /\ [j EXCEPT !.plugin = n].hash = j.hash
         /\ [j EXCEPT !.upstream = n] \in Job /\ [j EXCEPT !.upstream = n].hash = j.hash
  BY DEF NoJob, Job, Hashes

LEMMA JobReceived ==
  ASSUME NEW h, NEW S
  PROVE  [NoJob EXCEPT !.hash = h, !.listed = S].hash = h
  BY DEF NoJob

LEMMA HashRecord ==
  ASSUME NEW h \in Configs, NEW l \in [Sections -> Labels]
  PROVE  /\ [h EXCEPT !.upstream = l.upstream] \in [Sections -> Labels]
         /\ \A s \in Sections \ {"upstream"} : [h EXCEPT !.upstream = l.upstream][s] = h[s]
         /\ [h EXCEPT !.upstream = l.upstream]["upstream"] = l["upstream"]
         /\ h.upstream \in Labels
  BY ReconfigureAssumption DEF Labels, Sections

(* The four ways a handler fails.                                          *)
Fails(w) == StopIsStale(w) \/ RoutesAreStale(w) \/ PluginsAreStale(w) \/ InitRaises(w)

LEMMA FailsFact ==
  ASSUME NEW w \in Workers, Fails(w)
  PROVE  Fail(w) /\ UNCHANGED <<node, requests, events, router, plugins, balancer, label>>
  BY DEF Fails, StopIsStale, RoutesAreStale, PluginsAreStale, InitRaises

LEMMA HandlerKeepsTypes ==
  ASSUME Types, Places, NEW w \in Workers, Handle(w)
  PROVE  Types'
<1>0. /\ lmdb \in Configs /\ lmdb.routes \in [Routes -> Nat] /\ lmdb.plugin \in Nat
      /\ lmdb.upstream \in Nat /\ job[w] \in Job /\ job \in [Workers -> Job]
      /\ {r \in Routes : lmdb.routes[r] # 0} \in SUBSET (Routes \cup Nat)
      /\ (IF lmdb.plugin # 0 THEN {lmdb.plugin} ELSE {}) \in SUBSET (Routes \cup Nat)
      /\ Upstreams \in SUBSET (Routes \cup Nat)
  BY ConfigType DEF Types, Upstreams
<1>1. CASE Receive(w)
  <2>1. /\ events' \in [Workers -> Seq(Configs)]
        /\ \A v \in Workers : Len(events[v]) \in Nat /\ Len(events'[v]) \in Nat
                              /\ Len(events'[v]) <= Len(events[v])
    <3>1. events' \in [Workers -> Seq(Configs)] /\ events \in [Workers -> Seq(Configs)]
      BY <1>1, ReceiveFacts DEF Types
    <3>2. \A v \in Workers : Len(events[v]) \in Nat /\ Len(events'[v]) \in Nat
      BY <3>1, LenProperties
    <3>3. Len(events'[w]) = Len(events[w]) - 1
          /\ \A v \in Workers \ {w} : events'[v] = events[v]
      BY <1>1, ReceiveFacts
    <3>4. \A v \in Workers : Len(events'[v]) <= Len(events[v])
      BY <3>2, <3>3
    <3> QED BY <3>1, <3>2, <3>4
  <2>2. job' \in [Workers -> Job]
    <3>1. Head(events[w]) \in Configs
      BY <1>1, ReceiveFacts
    <3>2. PICK S \in SUBSET (Routes \cup Nat) :
            job' = [job EXCEPT ![w] = [NoJob EXCEPT !.hash = Head(events[w]), !.listed = S]]
      BY <1>0, <1>1 DEF Receive
    <3>3. [NoJob EXCEPT !.hash = Head(events[w]), !.listed = S] \in Job
      BY <1>0, <3>1, JobType
    <3> QED BY <1>0, <3>2, <3>3
  <2>3. AfterStop(w, Head(events[w])) \in Points /\ "stop" \in Points
    BY DEF AfterStop, AfterRouter, Points
  <2>4. pc' \in [Workers -> Points]
    BY <1>1, <2>3 DEF Receive, Types
  <2>5. UNCHANGED <<node, requests, router, plugins, balancer, label, last, off>>
    BY <1>1 DEF Receive
  <2>6. \A v \in Workers : Len(events'[v]) + (IF loader' = "idle" THEN 0 ELSE 1) <= loads'
    <3>1. loads \in Nat /\ loads' = loads /\ loader' = loader
      BY <2>5 DEF Types, node
    <3>2. \A v \in Workers : Len(events[v]) + (IF loader = "idle" THEN 0 ELSE 1) <= loads
      BY DEF Types
    <3>3. ASSUME NEW v \in Workers
          PROVE  Len(events'[v]) + (IF loader' = "idle" THEN 0 ELSE 1) <= loads'
      <4>1. Len(events[v]) \in Nat /\ Len(events'[v]) \in Nat /\ Len(events'[v]) <= Len(events[v])
        BY <2>1
      <4>2. Len(events[v]) + (IF loader = "idle" THEN 0 ELSE 1) <= loads
        BY <3>2
      <4>3. CASE loader = "idle"
        BY <3>1, <4>1, <4>2, <4>3
      <4>4. CASE loader # "idle"
        BY <3>1, <4>1, <4>2, <4>4
      <4> QED BY <4>3, <4>4
    <3> QED BY <3>3
  <2>7. /\ lmdb' \in Configs /\ loads' \in 0..MaxLoads /\ loader' \in {"idle", "committed"}
        /\ loader' = "committed" => loads' > 0
    BY <2>5 DEF Types, node
  <2> QED BY <2>1, <2>2, <2>4, <2>5, <2>6, <2>7 DEF Types, requests
<1>2. CASE ListRoutes(w)
  <2>1. job' \in [Workers -> Job]
    BY <1>0, <1>2, JobType DEF ListRoutes
  <2>2. UNCHANGED <<node, requests, events, router, plugins, balancer, label, last, off>>
        /\ pc' \in [Workers -> Points]
    BY <1>2 DEF ListRoutes, Types, Points
  <2> QED BY <2>1, <2>2 DEF Types, node, requests
<1>3. CASE Fails(w)
  <2>1. job' \in [Workers -> Job]
    <3>1. job' = [job EXCEPT ![w] = NoJob]
      BY <1>3, FailsFact DEF Fail
    <3>2. NoJob \in Job
      BY DEF NoJob, Job, Hashes
    <3> QED BY <1>0, <3>1, <3>2
  <2>2. off' \in [Workers -> SUBSET Sections] /\ last' \in [Workers -> {"ok", "failed"}]
        /\ pc' \in [Workers -> Points]
    <3>1. Fail(w)
      BY <1>3, FailsFact
    <3>2. /\ off' = [off EXCEPT ![w] = Sections]
          /\ last' = [last EXCEPT ![w] = "failed"]
          /\ pc' = [pc EXCEPT ![w] = "idle"]
      BY <3>1 DEF Fail
    <3>3. /\ off \in [Workers -> SUBSET Sections] /\ last \in [Workers -> {"ok", "failed"}]
          /\ pc \in [Workers -> Points]
      BY DEF Types
    <3> QED BY <3>2, <3>3 DEF Points
  <2>3. UNCHANGED <<node, requests, events, router, plugins, balancer, label>>
    BY <1>3, FailsFact
  <2> QED BY <2>1, <2>2, <2>3 DEF Types, node, requests
<1>4. CASE LoadRoutes(w)
  <2>1. [r \in Routes |-> IF r \in job[w].listed THEN lmdb.routes[r] ELSE 0]
          \in [Routes -> Nat]
    BY <1>0
  <2>2. job' \in [Workers -> Job]
    BY <1>0, <1>4, <2>1, JobType DEF LoadRoutes
  <2> QED BY <1>4, <2>2 DEF LoadRoutes, Types, node, requests, Points
<1>5. CASE UpdateRoute(w)
  <2>1. \A r \in Routes : job[w].routes[r] \in Nat
    BY <1>0 DEF Job
  <2>2. router' \in [Workers -> [Routes -> Nat]]
    BY <1>5, <2>1 DEF UpdateRoute, Types
  <2> QED BY <1>5, <2>2 DEF UpdateRoute, Types, node, requests
<1>6. CASE RouterBuilt(w)
  BY <1>6 DEF RouterBuilt, AfterRouter, Types, node, requests, Points
<1>7. CASE ListPlugins(w)
  <2>1. job' \in [Workers -> Job]
    BY <1>0, <1>7, JobType DEF ListPlugins
  <2>2. UNCHANGED <<node, requests, events, router, plugins, balancer, label, last, off>>
        /\ pc' \in [Workers -> Points]
    BY <1>7 DEF ListPlugins, Types, Points
  <2> QED BY <2>1, <2>2 DEF Types, node, requests
<1>8. CASE LoadPlugins(w)
  <2>1. job' \in [Workers -> Job]
    <3> DEFINE p == IF job[w].listed = {} THEN 0 ELSE lmdb.plugin
    <3>1. p \in Nat
      BY <1>0
    <3>2. job' = [job EXCEPT ![w] = [job[w] EXCEPT !.plugin = p]]
      BY <1>8 DEF LoadPlugins
    <3> HIDE DEF p
    <3>3. [job[w] EXCEPT !.plugin = p] \in Job
      BY <1>0, <3>1, JobType
    <3> QED BY <1>0, <3>2, <3>3
  <2> QED BY <1>8, <2>1 DEF LoadPlugins, Types, node, requests, Points
<1>9. CASE Install(w)
  <2>1. job[w].hash \in Configs /\ job[w].plugin \in Nat
    BY <1>0, <1>9 DEF Install, Places, Place, Job, Hashes
  <2>2. job' \in [Workers -> Job]
    <3>1. NoJob \in Job /\ [job[w] EXCEPT !.listed = Upstreams] \in Job
      BY <1>0, JobType
    <3>2. \/ job' = [job EXCEPT ![w] = NoJob]
          \/ job' = [job EXCEPT ![w] = [job[w] EXCEPT !.listed = Upstreams]]
      BY <1>9 DEF Install, Finish
    <3> QED BY <1>0, <3>1, <3>2
  <2>4. label' \in [Workers -> [Sections -> Labels]]
    <3>1. [job[w].hash EXCEPT !.upstream = label[w].upstream] \in [Sections -> Labels]
      BY <2>1, HashRecord DEF Types
    <3> QED BY <1>9, <3>1 DEF Install, Types
  <2>5. plugins' \in [Workers -> Nat] /\ known' \in [Workers -> Nat]
    <3>1. PICK n \in Nat : plugins' = [plugins EXCEPT ![w] = n]
      <4>1. plugins[w] \in Nat
        BY DEF Types
      <4> QED BY <1>9, <2>1, <4>1 DEF Install
    <3>2. known' = known \/ known' = [known EXCEPT ![w] = 0]
      BY <1>9 DEF Install
    <3> QED BY <3>1, <3>2 DEF Types
  <2>6. off' \in [Workers -> SUBSET Sections]
    BY <1>9 DEF Install, Types
  <2>7. last' \in [Workers -> {"ok", "failed"}] /\ pc' \in [Workers -> Points]
    BY <1>9 DEF Install, Finish, Types, Points
  <2>8. UNCHANGED <<node, making, events, router, balancer>>
    BY <1>9 DEF Install
  <2> QED BY <2>2, <2>4, <2>5, <2>6, <2>7, <2>8 DEF Types, node
<1>10. CASE StopCheckers(w)
  <2>1. AfterStop(w, job[w].hash) \in Points
    BY DEF AfterStop, AfterRouter, Points
  <2> QED BY <1>10, <2>1 DEF StopCheckers, Types, node, requests
<1>11. CASE ReadUpstream(w)
  <2>1. [job[w] EXCEPT !.upstream = lmdb.upstream] \in Job
    BY <1>0, JobType
  <2> QED BY <1>11, <2>1 DEF ReadUpstream, Types, node, requests, Points
<1>12. CASE NoUpstream(w) \/ KeepBalancer(w) \/ CreateBalancer(w) \/ CreateFails(w)
  <2>1. LabelBalancer(w) /\ pc[w] # "idle" /\ UNCHANGED <<node, making, events, router, plugins>>
    BY <1>12 DEF NoUpstream, KeepBalancer, CreateBalancer, CreateFails, requests
  <2>2. job[w].hash \in Configs /\ job[w].upstream \in Nat /\ NoJob \in Job
    <3>1. job[w].hash # NoHash
      BY <2>1 DEF Places, Place
    <3>2. job[w].hash \in Hashes /\ job[w].upstream \in Nat
      BY <1>0 DEF Job
    <3>3. NoJob \in Job
      BY <1>0, JobType DEF NoJob, Job, Hashes
    <3> QED BY <3>1, <3>2, <3>3 DEF Hashes
  <2>3. label' \in [Workers -> [Sections -> Labels]]
    <3>1. job[w].hash.upstream \in Labels
      BY <2>2, HashRecord DEF Types
    <3> QED BY <2>1, <3>1 DEF LabelBalancer, Types
  <2>4. /\ job' \in [Workers -> Job] /\ pc' \in [Workers -> Points]
        /\ last' \in [Workers -> {"ok", "failed"}]
    BY <1>0, <2>1, <2>2 DEF LabelBalancer, Finish, Types, Points
  <2>5. balancer' \in [Workers -> Nat] /\ known' \in [Workers -> Nat]
    BY <1>12, <2>2 DEF NoUpstream, KeepBalancer, CreateBalancer, CreateFails, requests, Types
  <2>6. off' \in [Workers -> SUBSET Sections]
    <3>1. off[w] \in SUBSET Sections /\ "upstream" \in Sections
      BY DEF Types, Sections
    <3>2. PICK D : off' = [off EXCEPT ![w] = D] /\ D \subseteq off[w] \cup {"upstream"}
      BY <1>12 DEF NoUpstream, KeepBalancer, CreateBalancer, CreateFails
    <3> QED BY <3>1, <3>2 DEF Types
  <2> QED BY <2>1, <2>3, <2>4, <2>5, <2>6 DEF Types, node
<1> QED BY <1>1, <1>2, <1>3, <1>4, <1>5, <1>6, <1>7, <1>8, <1>9, <1>10, <1>11, <1>12
        DEF Handle, Fails

(* A handler moves on, with its job, and labels nothing.                   *)
MovesOn(w, from, to) ==
  /\ pc[w] = from /\ pc'[w] = to
  /\ job'[w].hash = job[w].hash /\ label' = label

LEMMA Moves ==
  ASSUME Types, Places, NEW w \in Workers
  PROVE  /\ StopCheckers(w) => MovesOn(w, "stop", AfterStop(w, job[w].hash))
         /\ ListRoutes(w) => MovesOn(w, "routes", "load_routes")
         /\ LoadRoutes(w) => MovesOn(w, "load_routes", "updating")
         /\ UpdateRoute(w) => MovesOn(w, "updating", "updating")
         /\ RouterBuilt(w) => MovesOn(w, "updating", AfterRouter(w, job[w].hash))
         /\ ListPlugins(w) => MovesOn(w, "plugins", "load_plugins")
         /\ LoadPlugins(w) => MovesOn(w, "load_plugins", "install")
         /\ ReadUpstream(w) => MovesOn(w, "balancers", "create")
<1>1. job[w] \in Job /\ job \in [Workers -> Job] /\ pc \in [Workers -> Points]
  BY DEF Types
<1> QED
  BY <1>1 DEF MovesOn, StopCheckers, ListRoutes, LoadRoutes, UpdateRoute, RouterBuilt,
              ListPlugins, LoadPlugins, ReadUpstream, Job

LEMMA WhereNext ==
  ASSUME NEW w \in Workers, NEW e \in Configs
  PROVE  /\ AfterRouter(w, e) =
              IF e["plugin"] # label[w]["plugin"] THEN "plugins" ELSE "install"
         /\ AfterStop(w, e) =
              IF e["routes"] # label[w]["routes"] THEN "routes" ELSE AfterRouter(w, e)
  BY DEF AfterRouter, AfterStop

LEMMA HandlerKeepsPlaces ==
  ASSUME Types, Places, NEW w \in Workers, Handle(w)
  PROVE  Places'
<1> USE ReconfigureAssumption
<1>0. /\ job[w] \in Job /\ job \in [Workers -> Job] /\ lmdb \in Configs
      /\ NoJob.hash = NoHash /\ label \in [Workers -> [Sections -> Labels]]
      /\ pc[w] # "idle" => job[w].hash \in Configs
      /\ \A v \in Workers : Place(v)
  BY ConfigType DEF Types, Places, Place, Job, Hashes, NoJob
<1>1. \A v \in Workers \ {w} : UNCHANGED <<pc[v], job[v], label[v], balancer[v], making[v]>>
  BY DEF Handle, Receive, StopIsStale, StopCheckers, ListRoutes, RoutesAreStale, LoadRoutes,
         UpdateRoute, RouterBuilt, ListPlugins, PluginsAreStale, LoadPlugins, Install,
         NoUpstream, InitRaises, KeepBalancer, ReadUpstream, CreateBalancer, CreateFails,
         LabelBalancer, Finish, Fail, Types, requests
<1>2. \A v \in Workers \ {w} : Place(v)'
  BY <1>0, <1>1 DEF Place, Changed
<1> SUFFICES Place(w)'
  BY <1>2 DEF Places
<1>m. making' = making
  BY DEF Handle, Receive, StopIsStale, StopCheckers, ListRoutes, RoutesAreStale, LoadRoutes,
         UpdateRoute, RouterBuilt, ListPlugins, PluginsAreStale, LoadPlugins, Install,
         NoUpstream, InitRaises, KeepBalancer, ReadUpstream, CreateBalancer, CreateFails, requests
<1>3. CASE Receive(w)
  <2>1. PICK e \in Configs : e = Head(events[w]) /\ e # NoHash
    BY <1>3, ReceiveFacts
  <2>2. label' = label /\ balancer' = balancer
        /\ pc'[w] = IF e["upstream"] # label[w]["upstream"] THEN "stop" ELSE AfterStop(w, e)
    BY <1>3, <2>1 DEF Receive, Types
  <2>3. job'[w].hash = e
    <3>1. PICK S \in SUBSET (Routes \cup Nat) :
            job' = [job EXCEPT ![w] = [NoJob EXCEPT !.hash = e, !.listed = S]]
      BY <1>0, <1>3, <2>1, ConfigType DEF Receive, Upstreams
    <3> QED BY <1>0, <3>1, JobReceived
  <2> QED BY <1>0, <1>m, <2>1, <2>2, <2>3, WhereNext DEF Place, Changed
<1>4. CASE StopCheckers(w)
  <2>1. MovesOn(w, "stop", AfterStop(w, job[w].hash))
    BY <1>4, Moves
  <2>2. balancer'[w] \in {0, balancer[w]}
    BY <1>4 DEF StopCheckers, Types
  <2> QED BY <1>0, <1>m, <2>1, <2>2, WhereNext DEF Place, MovesOn, Changed
<1>5. CASE ListRoutes(w) \/ LoadRoutes(w) \/ UpdateRoute(w) \/ RouterBuilt(w)
             \/ ListPlugins(w) \/ LoadPlugins(w)
  <2>1. balancer' = balancer
    BY <1>5 DEF ListRoutes, LoadRoutes, UpdateRoute, RouterBuilt, ListPlugins, LoadPlugins
  <2>2. \/ MovesOn(w, "routes", "load_routes") \/ MovesOn(w, "load_routes", "updating")
        \/ MovesOn(w, "updating", "updating")
        \/ MovesOn(w, "updating", AfterRouter(w, job[w].hash))
        \/ MovesOn(w, "plugins", "load_plugins") \/ MovesOn(w, "load_plugins", "install")
    BY <1>5, Moves
  <2> QED BY <1>0, <1>m, <2>1, <2>2, WhereNext DEF Place, MovesOn, Changed
<1>6. CASE Fails(w)
  <2>1. pc'[w] = "idle" /\ job'[w] = NoJob /\ label' = label /\ balancer' = balancer
    BY <1>0, <1>6, FailsFact DEF Fail, Types
  <2> QED BY <1>0, <1>m, <2>1 DEF Place
<1>7. CASE Install(w)
  <2>1. /\ job[w].hash \in Configs /\ balancer' = balancer /\ pc[w] = "install"
        /\ label'[w] = [job[w].hash EXCEPT !.upstream = label[w].upstream]
    BY <1>0, <1>7 DEF Install, Types
  <2>2. \/ pc'[w] = "balancers" /\ job'[w].hash = job[w].hash /\ Changed(w, "upstream")
        \/ pc'[w] = "idle" /\ job'[w].hash = NoHash
    BY <1>0, <1>7 DEF Install, Finish, Types, Job
  <2>3. /\ label'[w]["upstream"] = label[w]["upstream"]
        /\ \A s \in {"routes", "plugin"} : label'[w][s] = job[w].hash[s]
    BY <1>0, <2>1, HashRecord DEF Sections
  <2> QED BY <1>0, <1>m, <2>1, <2>2, <2>3 DEF Place, Changed, Sections
<1>8. CASE ReadUpstream(w)
  <2>1. MovesOn(w, "balancers", "create")
    BY <1>8, Moves
  <2>2. balancer'[w] = 0 /\ making[w] = 0
    BY <1>8 DEF ReadUpstream
  <2> QED BY <1>0, <1>m, <2>1, <2>2 DEF Place, MovesOn, Changed
<1>9. CASE NoUpstream(w) \/ KeepBalancer(w) \/ CreateBalancer(w) \/ CreateFails(w)
  <2>1. pc[w] # "idle" /\ LabelBalancer(w) /\ (making[w] # 0 => balancer' = balancer)
    BY <1>0, <1>9 DEF NoUpstream, KeepBalancer, CreateBalancer, CreateFails, requests, Place
  <2>2. /\ pc'[w] = "idle" /\ job'[w].hash = NoHash /\ job[w].hash \in Configs
        /\ label'[w]["upstream"] = job[w].hash["upstream"]
        /\ \A s \in {"routes", "plugin"} : label'[w][s] = label[w][s]
    BY <1>0, <2>1 DEF LabelBalancer, Finish, Types, Sections
  <2> QED BY <1>0, <1>m, <2>1, <2>2 DEF Place, Sections
<1> QED BY <1>3, <1>4, <1>5, <1>6, <1>7, <1>8, <1>9 DEF Handle, Fails

(* The steps of requests.                                                  *)
Requests(w) == Request(w) \/ RequestMakes(w) \/ RequestFails(w)

LEMMA RequestsKeepBase ==
  ASSUME Types, Places, NEW w \in Workers, Requests(w)
  PROVE  Types' /\ Places'
<1>1. UNCHANGED <<node, events, router, plugins, label, pc, job, last>>
  BY DEF Requests, Request, RequestMakes, RequestFails
<1>2. off' \in [Workers -> SUBSET Sections]
  BY DEF Requests, Request, RequestMakes, RequestFails, Types, Sections
<1>3. /\ known' \in [Workers -> Nat] /\ making' \in [Workers -> Nat]
      /\ balancer' \in [Workers -> Nat]
  <2>1. lmdb.upstream \in Nat
    BY ConfigType DEF Types
  <2>2. CASE Request(w)
    <3>1. PICK u \in Nat : known' = [known EXCEPT ![w] = u]
                           /\ (making' = making \/ making' = [making EXCEPT ![w] = u])
      <4>1. known[w] \in Nat /\ making[w] \in Nat
        BY DEF Types
      <4> DEFINE u == IF known[w] # 0 THEN known[w] ELSE lmdb.upstream
      <4>2. known' = [known EXCEPT ![w] = u]
            /\ (making' = [making EXCEPT ![w] = making[w]] \/ making' = [making EXCEPT ![w] = u])
        BY <2>2 DEF Request
      <4>3. u \in Nat
        BY <2>1, <4>1
      <4>4. [making EXCEPT ![w] = making[w]] = making
        BY DEF Types
      <4> QED BY <4>2, <4>3, <4>4
    <3>2. balancer' = balancer
      BY <2>2 DEF Request
    <3> QED BY <3>1, <3>2 DEF Types
  <2>3. CASE RequestMakes(w) \/ RequestFails(w)
    <3>1. PICK u \in Nat : known' = [known EXCEPT ![w] = u]
                           /\ (balancer' = balancer \/ balancer' = [balancer EXCEPT ![w] = u])
      BY <2>3 DEF RequestMakes, RequestFails, Types
    <3>2. making' = [making EXCEPT ![w] = 0]
      BY <2>3 DEF RequestMakes, RequestFails
    <3> QED BY <3>1, <3>2 DEF Types
  <2> QED BY <2>2, <2>3 DEF Requests
<1>4. Types'
  BY <1>1, <1>2, <1>3 DEF Types, node
<1>5. \A v \in Workers \ {w} : UNCHANGED <<making[v], balancer[v]>>
  BY DEF Requests, Request, RequestMakes, RequestFails, Types
<1>6. /\ making'[w] # 0 \/ pc[w] = "create" => balancer'[w] = 0
      /\ making'[w] # 0 => pc[w] # "create"
  BY DEF Requests, Request, RequestMakes, RequestFails, Types, Places, Place
<1>7. Places'
  BY <1>1, <1>5, <1>6 DEF Places, Place, Changed
<1> QED BY <1>4, <1>7

LEMMA BaseStep == Types /\ Places /\ [Next]_vars => Types' /\ Places'
<1> SUFFICES ASSUME Types, Places, [Next]_vars PROVE Types' /\ Places'
  OBVIOUS
<1>1. CASE UNCHANGED vars
  BY <1>1 DEF vars, node, requests, Types, Places, Place, Changed
<1>2. CASE Next
  BY <1>1, <1>2, NodeKeepsBase, HandlerKeepsTypes, HandlerKeepsPlaces, RequestsKeepBase
     DEF Next, Requests
<1> QED BY <1>1, <1>2

LEMMA BaseHolds == Spec => [](Types /\ Places)
  BY BaseInit, BaseStep, PTL DEF Spec

(* Every state has its types, for any number of workers, routes and        *)
(* configurations: a worker is told no more often than was loaded, a       *)
(* handler has a job exactly while it runs, and labels are hashes.         *)
THEOREM TypeCorrect == Spec => []TypeOK
<1>1. Types /\ Places => TypeOK
  <2> SUFFICES ASSUME Types, Places PROVE TypeOK
    OBVIOUS
  <2>1. \A w \in Workers : Len(events[w]) \in Nat /\ Len(events[w]) <= loads
          /\ \A i \in 1..Len(events[w]) : events[w][i] \in Configs
    <3> SUFFICES ASSUME NEW w \in Workers
                 PROVE  Len(events[w]) \in Nat /\ Len(events[w]) <= loads
                        /\ \A i \in 1..Len(events[w]) : events[w][i] \in Configs
      OBVIOUS
    <3>1. events[w] \in Seq(Configs) /\ loads \in Nat
          /\ Len(events[w]) + (IF loader = "idle" THEN 0 ELSE 1) <= loads
      BY DEF Types
    <3>2. Len(events[w]) \in Nat /\ \A i \in 1..Len(events[w]) : events[w][i] \in Configs
      BY <3>1, LenProperties, ElementOfSeq
    <3>3. Len(events[w]) <= loads
      <4>1. CASE loader = "idle"
        BY <3>1, <3>2, <4>1
      <4>2. CASE loader # "idle"
        BY <3>1, <3>2, <4>2
      <4> QED BY <4>1, <4>2
    <3> QED BY <3>2, <3>3
  <2>2. ASSUME NEW w \in Workers PROVE job[w].hash \in Hashes
    <3>1. job[w] \in Job
      BY DEF Types
    <3> QED BY <3>1 DEF Job
  <2> QED BY <2>1, <2>2 DEF Types, Places, Place, TypeOK
<1> QED BY <1>1, BaseHolds, PTL

-----------------------------------------------------------------------------
(* What a worker serves *)

LEMMA ServeInit == Init => ServeInv
<1> SUFFICES ASSUME Init, NEW w \in Workers, NEW s \in Sections PROVE Sound(w, s)
  BY DEF ServeInv
<1>1. /\ loader = "idle" /\ events[w] = <<>> /\ pc[w] = "idle" /\ label[w][s] = NoHash
      /\ router[w] = lmdb.routes /\ plugins[w] = lmdb.plugin /\ balancer[w] = lmdb.upstream
  BY DEF Init
<1>2. EndsWithLmdb(w, s)
  BY <1>1 DEF EndsWithLmdb
<1>3. Has(w, s)
  BY <1>1 DEF Has, Serves, Sections
<1> QED BY <1>1, <1>2, <1>3 DEF Sound

(* Nothing changes for a worker of which, and for a section of LMDB of     *)
(* which nothing changes.                                                  *)
LEMMA SectionUntouched ==
  ASSUME NEW w \in Workers, NEW s \in Sections, lmdb \in Configs, lmdb' \in Configs,
         lmdb'[s] = lmdb[s],
         UNCHANGED <<router[w], plugins[w], balancer[w], making[w], pc[w], job[w]>>
  PROVE  (Has(w, s) => Has(w, s)') /\ (Gathered(w, s) => Gathered(w, s)')
<1>1. CASE s = "routes"
  <2>1. lmdb'.routes = lmdb.routes
    BY <1>1, ConfigType
  <2> QED BY <1>1, <2>1 DEF Has, Serves, Gathered
<1>2. CASE s = "plugin"
  <2>1. lmdb'.plugin = lmdb.plugin
    BY <1>2, ConfigType
  <2> QED BY <1>2, <2>1 DEF Has, Serves, Gathered
<1>3. CASE s = "upstream"
  <2>1. lmdb'.upstream = lmdb.upstream
    BY <1>3, ConfigType
  <2> QED BY <1>3, <2>1 DEF Has, Serves, Gathered
<1> QED BY <1>1, <1>2, <1>3 DEF Sections

(* If all that w hears of is the hash it has, or works on, LMDB has it.    *)
LEMMA HashIsLmdb ==
  ASSUME Types, NEW w \in Workers, NEW s \in Sections, NEW h,
         h = IF pc[w] = "idle" THEN label[w][s] ELSE job[w].hash[s],
         EndsWithLmdb(w, s), OnlyHears(w, s, h)
  PROVE  h \in {NoHash, lmdb[s]}
<1>1. CASE loader = "committed"
  BY <1>1 DEF OnlyHears
<1>2. CASE loader = "idle" /\ events[w] # <<>>
  <2>1. Len(events[w]) \in 1..Len(events[w])
    BY <1>2, EmptySeq, LenProperties DEF Types
  <2>2. events[w][Len(events[w])][s] = lmdb[s]
    BY <1>2 DEF EndsWithLmdb
  <2> QED BY <2>1, <2>2 DEF OnlyHears
<1>3. CASE loader = "idle" /\ events[w] = <<>>
  BY <1>3 DEF EndsWithLmdb
<1> QED BY <1>1, <1>2, <1>3 DEF Types

LEMMA NodeKeepsServing ==
  ASSUME Types, Places, ServeInv, Types',
         (\E c \in Configs : Commit(c)) \/ Announce \/ AnnounceFails
  PROVE  ServeInv'
<1> SUFFICES ASSUME NEW w \in Workers, NEW s \in Sections, s \notin off'[w]
             PROVE  Sound(w, s)'
  BY DEF ServeInv
<1> DEFINE h == IF pc[w] = "idle" THEN label[w][s] ELSE job[w].hash[s]
<1>0. UNCHANGED <<router, plugins, balancer, making, label, pc, job>>
      /\ lmdb \in Configs /\ lmdb' \in Configs
  BY DEF Commit, Announce, AnnounceFails, Types, requests
<1>1. ~AnnounceFails
  BY DEF AnnounceFails
<1>2. Sound(w, s)
  BY <1>1 DEF ServeInv, Commit, Announce
<1>3. ASSUME NEW c \in Configs, Commit(c) PROVE Sound(w, s)'
  <2>1. EndsWithLmdb(w, s)'
    BY <1>3 DEF Commit, EndsWithLmdb
  <2>2. ASSUME OnlyHears(w, s, h)' PROVE OnlyHears(w, s, h) /\ lmdb'[s] = lmdb[s]
    <3>1. c[s] = h /\ lmdb' = c /\ c[s] # NoHash
      BY <1>0, <1>3, <2>2, ReconfigureAssumption DEF OnlyHears, Commit
    <3>2. OnlyHears(w, s, h)
      BY <1>0, <1>3, <2>2 DEF OnlyHears, Commit
    <3>3. h \in {NoHash, lmdb[s]}
      BY <1>2, <3>2, HashIsLmdb DEF Sound
    <3> QED BY <3>1, <3>2, <3>3
  <2> QED BY <1>0, <1>2, <2>1, <2>2, SectionUntouched DEF Sound, Changed
<1>4. CASE Announce
  <2>1. /\ events'[w] # <<>> /\ events'[w][Len(events'[w])] = lmdb
        /\ Len(events[w]) \in Nat /\ Len(events'[w]) = Len(events[w]) + 1
        /\ \A i \in 1..Len(events[w]) : events'[w][i] = events[w][i]
        /\ lmdb' = lmdb /\ loader' = "idle"
    BY <1>4, AnnounceFacts DEF Announce
  <2>2. EndsWithLmdb(w, s)'
    BY <2>1 DEF EndsWithLmdb
  <2>3. ASSUME OnlyHears(w, s, h)' PROVE OnlyHears(w, s, h)
    <3>1. \A i \in 1..Len(events'[w]) : events'[w][i][s] = h
      BY <1>0, <2>3 DEF OnlyHears
    <3>2. lmdb[s] = h
      BY <2>1, <3>1
    <3>3. \A i \in 1..Len(events[w]) : events[w][i][s] = h
      BY <2>1, <3>1
    <3> QED BY <3>2, <3>3 DEF OnlyHears
  <2> QED BY <1>0, <1>2, <2>1, <2>2, <2>3, SectionUntouched DEF Sound, Changed
<1> QED BY <1>1, <1>3, <1>4

(* A handler that stops, reads or builds, in the middle of its job.        *)
Middle(w) ==
  \/ StopCheckers(w) \/ ListRoutes(w) \/ LoadRoutes(w) \/ UpdateRoute(w) \/ RouterBuilt(w)
  \/ ListPlugins(w) \/ LoadPlugins(w) \/ ReadUpstream(w)

LEMMA MiddleKeepsServing ==
  ASSUME Types, Places, NEW w \in Workers, NEW s \in Sections, Sound(w, s), Middle(w)
  PROVE  Sound(w, s)'
<1>1. UNCHANGED <<lmdb, loader, events, plugins, making, label>>
  BY DEF Middle, StopCheckers, ListRoutes, LoadRoutes, UpdateRoute, RouterBuilt, ListPlugins,
         LoadPlugins, ReadUpstream, node, requests
<1>2. job'[w].hash = job[w].hash /\ pc[w] # "idle" /\ pc'[w] # "idle"
  BY Moves DEF Middle, MovesOn, AfterStop, AfterRouter
<1>3. Changed(w, s)' <=> Changed(w, s)
  BY <1>1, <1>2 DEF Changed
<1>4. EndsWithLmdb(w, s)'
  BY <1>1, <1>2 DEF Sound, EndsWithLmdb
<1>5. OnlyHears(w, s, job[w].hash[s])' => OnlyHears(w, s, job[w].hash[s])
  BY <1>1, <1>2 DEF OnlyHears
<1>6. ASSUME ~Changed(w, s), Has(w, s) PROVE Has(w, s)'
  <2>1. s = "routes" => router'[w] = router[w]
    BY <1>6 DEF Middle, StopCheckers, ListRoutes, LoadRoutes, UpdateRoute, RouterBuilt,
                ListPlugins, LoadPlugins, ReadUpstream, Places, Place
  <2>2. s = "upstream" => balancer'[w] = balancer[w]
    BY <1>6 DEF Middle, StopCheckers, ListRoutes, LoadRoutes, UpdateRoute, RouterBuilt,
                ListPlugins, LoadPlugins, ReadUpstream, Places, Place
  <2> QED BY <1>1, <1>6, <2>1, <2>2 DEF Has, Serves, Sections
<1>7. ASSUME Changed(w, s), Gathered(w, s) PROVE Gathered(w, s)'
  <2>0. lmdb.routes \in [Routes -> Nat] /\ job[w] \in Job /\ lmdb' = lmdb
    BY <1>1, ConfigType DEF Types
  <2>1. CASE ListRoutes(w)
    <3>1. pc'[w] = "load_routes" /\ job'[w].listed = {r \in Routes : lmdb.routes[r] # 0}
      BY <2>0, <2>1 DEF ListRoutes, Types, Job
    <3> QED BY <2>0, <3>1 DEF Gathered, Sections
  <2>2. CASE LoadRoutes(w)
    <3>1. pc[w] = "load_routes" /\ pc'[w] = "updating"
          /\ job'[w].routes = [r \in Routes |-> IF r \in job[w].listed THEN lmdb.routes[r] ELSE 0]
      BY <2>0, <2>2 DEF LoadRoutes, Types, Job
    <3>2. ASSUME s = "routes" PROVE job'[w].routes = lmdb.routes
      <4>1. job[w].listed = {r \in Routes : lmdb.routes[r] # 0}
        BY <1>7, <3>1, <3>2 DEF Gathered
      <4>2. \A r \in Routes :
              (IF r \in job[w].listed THEN lmdb.routes[r] ELSE 0) = lmdb.routes[r]
        BY <4>1
      <4> QED BY <2>0, <3>1, <4>2
    <3> QED BY <2>0, <3>1, <3>2 DEF Gathered, Sections
  <2>3. CASE UpdateRoute(w)
    <3>1. pc[w] = "updating" /\ pc' = pc /\ job' = job
      BY <2>3 DEF UpdateRoute
    <3> QED BY <1>7, <2>0, <3>1 DEF Gathered, Sections
  <2>4. CASE RouterBuilt(w)
    <3>1. pc[w] = "updating" /\ router[w] = job[w].routes /\ UNCHANGED <<router, job>>
          /\ pc'[w] = (IF Changed(w, "plugin") THEN "plugins" ELSE "install")
      BY <2>4 DEF RouterBuilt, AfterRouter, Changed, Types
    <3>2. s = "routes" => router'[w] = lmdb.routes
      BY <1>7, <3>1 DEF Gathered
    <3>3. s = "plugin" => pc'[w] = "plugins"
      BY <1>7, <3>1
    <3> QED BY <2>0, <3>1, <3>2, <3>3 DEF Gathered, Sections
  <2>5. CASE ListPlugins(w)
    <3>1. pc[w] = "plugins" /\ pc'[w] = "load_plugins" /\ router' = router
          /\ job'[w].listed = IF lmdb.plugin # 0 THEN {lmdb.plugin} ELSE {}
      BY <2>0, <2>5 DEF ListPlugins, Types, Job
    <3> QED BY <1>7, <2>0, <3>1 DEF Gathered, Sections
  <2>6. CASE LoadPlugins(w)
    <3>1. pc[w] = "load_plugins" /\ pc'[w] = "install" /\ router' = router
          /\ job'[w].plugin = IF job[w].listed = {} THEN 0 ELSE lmdb.plugin
      BY <2>0, <2>6 DEF LoadPlugins, Types, Job
    <3> QED BY <1>7, <2>0, <3>1 DEF Gathered, Sections
  <2>7. CASE StopCheckers(w)
    <3>1. pc'[w] = AfterStop(w, job[w].hash) /\ job[w].hash \in Configs
      BY <1>2, <2>0, <2>7, Moves DEF MovesOn, Places, Place, Job, Hashes
    <3>2. /\ pc'[w] \in {"routes", "plugins", "install"}
          /\ s = "routes" => pc'[w] = "routes"
          /\ s = "plugin" => pc'[w] # "install"
      BY <1>7, <3>1, WhereNext DEF Changed
    <3> QED BY <3>2 DEF Gathered, Sections
  <2>8. CASE ReadUpstream(w)
    <3>1. pc'[w] = "create" /\ job'[w].upstream = lmdb.upstream
      BY <2>0, <2>8 DEF ReadUpstream, Types, Job
    <3> QED BY <2>0, <3>1 DEF Gathered, Sections
  <2> QED BY <2>1, <2>2, <2>3, <2>4, <2>5, <2>6, <2>7, <2>8 DEF Middle
<1> QED BY <1>2, <1>3, <1>4, <1>5, <1>6, <1>7 DEF Sound

(* An event's section is skipped only if the worker has that hash.         *)
LEMMA ReceiveKeepsServing ==
  ASSUME Types, Places, NEW w \in Workers, NEW s \in Sections, Sound(w, s), Receive(w)
  PROVE  Sound(w, s)'
<1>0. PICK e \in Configs : e = Head(events[w])
  BY ReceiveFacts
<1>1. /\ e = events[w][1] /\ events[w] # <<>>
      /\ Len(events[w]) \in Nat \ {0} /\ Len(events'[w]) = Len(events[w]) - 1
      /\ \A i \in 1..Len(events'[w]) : events'[w][i] = events[w][i + 1]
      /\ events'[w] # <<>> <=> Len(events[w]) > 1
  BY <1>0, ReceiveFacts DEF Receive
<1>2. UNCHANGED <<lmdb, loader, router, plugins, balancer, making, label>>
  BY DEF Receive, node, requests
<1>3. /\ pc[w] = "idle"
      /\ pc'[w] = IF e["upstream"] # label[w]["upstream"] THEN "stop" ELSE AfterStop(w, e)
  BY <1>0 DEF Receive, Types
<1>4. job'[w].hash = e
  <2>1. PICK S \in SUBSET (Routes \cup Nat) :
          job' = [job EXCEPT ![w] = [NoJob EXCEPT !.hash = e, !.listed = S]]
    BY <1>0, ConfigType DEF Receive, Upstreams, Types
  <2> QED BY <2>1, JobReceived DEF Types
<1>5. /\ pc'[w] \in {"stop", "routes", "plugins", "install"}
      /\ label[w]["routes"] # e["routes"] => pc'[w] \in {"stop", "routes"}
      /\ label[w]["plugin"] # e["plugin"] => pc'[w] # "install"
      /\ label[w]["upstream"] # e["upstream"] => pc'[w] = "stop"
  BY <1>3, WhereNext
<1>6. EndsWithLmdb(w, s)'
  <2>1. CASE loader = "idle"
    <3>1. events[w][Len(events[w])][s] = lmdb[s]
      BY <1>1, <2>1 DEF Sound, EndsWithLmdb
    <3>2. CASE events'[w] = <<>>
      <4>1. Len(events[w]) = 1
        BY <1>1, <3>2
      <4> QED BY <1>1, <1>2, <1>4, <1>5, <2>1, <3>1, <3>2, <4>1 DEF EndsWithLmdb
    <3>3. CASE events'[w] # <<>>
      <4>1. events'[w][Len(events'[w])] = events[w][Len(events[w])]
        BY <1>1, <3>3
      <4> QED BY <1>2, <2>1, <3>1, <3>3, <4>1 DEF EndsWithLmdb
    <3> QED BY <3>2, <3>3
  <2>2. CASE loader = "committed"
    BY <1>2, <2>2 DEF EndsWithLmdb
  <2> QED BY <2>1, <2>2 DEF Types
<1>7. ASSUME label[w][s] = e[s], OnlyHears(w, s, e[s])' PROVE Has(w, s)'
  <2>1. ASSUME NEW i \in 1..Len(events[w]) PROVE events[w][i][s] = e[s]
    <3>1. CASE i = 1
      BY <1>1, <3>1
    <3>2. CASE i # 1
      <4>1. i - 1 \in 1..Len(events'[w]) /\ events'[w][i - 1] = events[w][i]
        BY <1>1, <3>2
      <4> QED BY <1>7, <4>1 DEF OnlyHears
    <3> QED BY <3>1, <3>2
  <2>2. OnlyHears(w, s, label[w][s])
    BY <1>2, <1>7, <2>1 DEF OnlyHears
  <2>3. Has(w, s)
    BY <1>3, <2>2 DEF Sound
  <2> QED BY <1>2, <2>3 DEF Has, Serves, Sections
<1>8. ASSUME label[w][s] # e[s] PROVE Gathered(w, s)'
  <2>1. CASE s = "routes"
    <3>1. pc'[w] \in {"stop", "routes"}
      BY <1>5, <1>8, <2>1
    <3> QED BY <2>1, <3>1 DEF Gathered
  <2>2. CASE s = "plugin"
    <3>1. pc'[w] \in {"stop", "routes", "plugins"}
      BY <1>5, <1>8, <2>2
    <3> QED BY <2>2, <3>1 DEF Gathered
  <2>3. CASE s = "upstream"
    <3>1. pc'[w] = "stop"
      BY <1>5, <1>8, <2>3
    <3> QED BY <2>3, <3>1 DEF Gathered
  <2> QED BY <2>1, <2>2, <2>3 DEF Sections
<1>9. pc'[w] # "idle"
  BY <1>5
<1> QED BY <1>2, <1>4, <1>6, <1>7, <1>8, <1>9 DEF Sound, Changed

(* Where a handler has set the hash of a section and the worker has heard  *)
(* nothing else of it, its hashes still end with the one of LMDB.          *)
LEMMA LabelEndsWithLmdb ==
  ASSUME Types, NEW w \in Workers, NEW s \in Sections, pc[w] # "idle",
         UNCHANGED <<lmdb, loader, events>>, EndsWithLmdb(w, s),
         \/ pc'[w] = "idle" /\ label'[w][s] = job[w].hash[s]
         \/ pc'[w] # "idle" /\ job'[w].hash = job[w].hash
  PROVE  EndsWithLmdb(w, s)'
<1>1. CASE loader = "committed"
  BY <1>1 DEF EndsWithLmdb
<1>2. CASE loader = "idle" /\ events[w] # <<>>
  BY <1>2 DEF EndsWithLmdb
<1>3. CASE loader = "idle" /\ events[w] = <<>>
  <2>1. job[w].hash[s] = lmdb[s]
    BY <1>3 DEF EndsWithLmdb
  <2> QED BY <1>3, <2>1 DEF EndsWithLmdb
<1> QED BY <1>1, <1>2, <1>3 DEF Types

(* A section that is rebuilt as announced ends with the hash of LMDB.      *)
LEMMA AnnouncedEndsWithLmdb ==
  ASSUME Types, NEW w \in Workers, NEW s \in Sections, pc[w] # "idle", AsAnnounced(w, s)
  PROVE  EndsWithLmdb(w, s)
<1>1. job[w].hash[s] = lmdb[s]
  BY DEF AsAnnounced
<1>2. loader = "idle" /\ events[w] # <<>> => events[w][Len(events[w])][s] = lmdb[s]
  BY DEF AsAnnounced
<1>3. CASE loader = "committed"
  BY <1>3 DEF EndsWithLmdb
<1>4. CASE loader = "idle" /\ events[w] # <<>>
  BY <1>2, <1>4 DEF EndsWithLmdb
<1>5. CASE loader = "idle" /\ events[w] = <<>>
  BY <1>1, <1>5 DEF EndsWithLmdb
<1> QED BY <1>3, <1>4, <1>5 DEF Types

LEMMA InstallKeepsServing ==
  ASSUME Types, Places, NEW w \in Workers, NEW s \in Sections, Install(w),
         s \notin off'[w], s \notin off[w] => Sound(w, s)
  PROVE  Sound(w, s)'
<1>1. /\ UNCHANGED <<lmdb, loader, events, router, balancer, making>>
      /\ pc[w] = "install"
  BY DEF Install, node
<1>2. PICK h : h = job[w].hash /\ h \in Configs
  BY <1>1 DEF Types, Places, Place, Job, Hashes
<1>3. /\ label'[w] = [h EXCEPT !.upstream = label[w].upstream]
      /\ label'[w]["upstream"] = label[w]["upstream"]
      /\ \A t \in Sections \ {"upstream"} : label'[w][t] = h[t]
  <2>1. label'[w] = [h EXCEPT !.upstream = label[w].upstream]
    BY <1>2 DEF Install, Types
  <2>2. label[w] \in [Sections -> Labels]
    BY DEF Types
  <2>3. /\ \A t \in Sections \ {"upstream"} : [h EXCEPT !.upstream = label[w].upstream][t] = h[t]
        /\ [h EXCEPT !.upstream = label[w].upstream]["upstream"] = label[w]["upstream"]
    BY <1>2, <2>2, HashRecord
  <2> QED BY <2>1, <2>3
<1>4. /\ \/ Changed(w, "upstream") /\ pc'[w] = "balancers" /\ job'[w].hash = h
            /\ job'[w].listed = Upstreams
         \/ ~Changed(w, "upstream") /\ pc'[w] = "idle"
      /\ s = "plugin" /\ Changed(w, s) => plugins'[w] = job[w].plugin
      /\ s = "plugin" /\ ~Changed(w, s) => plugins'[w] = plugins[w]
  BY <1>2 DEF Install, Finish, Types, Job
<1>5. pc'[w] = "idle" => label'[w][s] = h[s]
  BY <1>2, <1>3, <1>4 DEF Changed
<1>6. EndsWithLmdb(w, s)'
  <2>1. EndsWithLmdb(w, s)
    <3>1. CASE s \in off[w]
      <4>1. AsAnnounced(w, s)
        BY <3>1 DEF Install, Types
      <4> QED BY <1>1, <4>1, AnnouncedEndsWithLmdb
    <3>2. CASE s \notin off[w]
      BY <3>2 DEF Sound
    <3> QED BY <3>1, <3>2
  <2> QED BY <1>1, <1>2, <1>4, <1>5, <2>1, LabelEndsWithLmdb
<1>7. ASSUME OnlyHears(w, s, h[s])', s # "upstream" PROVE Has(w, s)'
  <2>1. OnlyHears(w, s, job[w].hash[s])
    BY <1>1, <1>2, <1>7 DEF OnlyHears
  <2>2. CASE s \in off[w]
    <3>1. Changed(w, s) /\ AsAnnounced(w, s)
      BY <2>2 DEF Install, Types
    <3> QED BY <1>1, <1>4, <1>7, <3>1 DEF Has, Serves, AsAnnounced, Sections
  <2>3. CASE s \notin off[w] /\ Changed(w, s)
    BY <1>1, <1>4, <1>7, <2>1, <2>3 DEF Sound, Gathered, Has, Serves, Sections
  <2>4. CASE s \notin off[w] /\ ~Changed(w, s)
    BY <1>1, <1>4, <1>7, <2>1, <2>4 DEF Sound, Has, Serves, Sections
  <2> QED BY <2>2, <2>3, <2>4
<1>8. ASSUME OnlyHears(w, s, h[s])', s = "upstream", pc'[w] = "idle" PROVE Has(w, s)'
  <2>1. OnlyHears(w, s, job[w].hash[s]) /\ ~Changed(w, s)
    BY <1>1, <1>2, <1>4, <1>8 DEF OnlyHears
  <2>2. s \notin off[w]
    BY <1>8 DEF Install, Types
  <2> QED BY <1>1, <1>8, <2>1, <2>2 DEF Sound, Has
<1>9. ASSUME s = "upstream", pc'[w] # "idle" PROVE Gathered(w, s)' /\ Changed(w, s)'
  <2>1. Changed(w, s)'
    BY <1>2, <1>3, <1>4, <1>9 DEF Changed
  <2>2. pc'[w] = "balancers" /\ job'[w].listed = Upstreams
    BY <1>4, <1>9
  <2>3. Gathered(w, s)'
    BY <1>1, <1>9, <2>2 DEF Gathered, Upstreams
  <2> QED BY <2>1, <2>3
<1>10. CASE pc'[w] = "idle"
  BY <1>5, <1>6, <1>7, <1>8, <1>10 DEF Sound
<1>11. CASE pc'[w] # "idle"
  <2>1. job'[w].hash = h /\ (s # "upstream" => ~Changed(w, s)')
    BY <1>3, <1>4, <1>11 DEF Changed
  <2> QED BY <1>6, <1>7, <1>9, <1>11, <2>1 DEF Sound
<1> QED BY <1>10, <1>11

(* The end of balancer.init.                                               *)
BalancersDone(w) ==
  NoUpstream(w) \/ KeepBalancer(w) \/ CreateBalancer(w) \/ CreateFails(w)

LEMMA LabelKeepsServing ==
  ASSUME Types, Places, NEW w \in Workers, NEW s \in Sections, BalancersDone(w),
         s \notin off'[w], s \notin off[w] => Sound(w, s)
  PROVE  Sound(w, s)'
<1>1. /\ UNCHANGED <<lmdb, loader, events, router, plugins, making>>
      /\ pc[w] \in {"balancers", "create"} /\ LabelBalancer(w)
  BY DEF BalancersDone, NoUpstream, KeepBalancer, CreateBalancer, CreateFails, node, requests
<1>2. PICK h : h = job[w].hash /\ h \in Configs
  BY <1>1 DEF Types, Places, Place, Job, Hashes
<1>3. /\ pc'[w] = "idle" /\ label'[w]["upstream"] = h["upstream"]
      /\ \A t \in Sections \ {"upstream"} : label'[w][t] = label[w][t]
  BY <1>1, <1>2 DEF LabelBalancer, Finish, Types, Sections
<1>4. ~Changed(w, "routes") /\ ~Changed(w, "plugin") /\ Changed(w, "upstream")
  BY <1>1 DEF Places, Place
<1>5. label'[w][s] = h[s]
  BY <1>2, <1>3, <1>4 DEF Changed, Sections
<1>6. s \in off[w] => s = "upstream" /\ AsAnnounced(w, s)
  BY DEF BalancersDone, NoUpstream, KeepBalancer, CreateBalancer, CreateFails, Types
<1>7. EndsWithLmdb(w, s)'
  <2>1. EndsWithLmdb(w, s)
    BY <1>1, <1>6, AnnouncedEndsWithLmdb DEF Sound
  <2> QED BY <1>1, <1>2, <1>3, <1>5, <2>1, LabelEndsWithLmdb
<1>8. ASSUME OnlyHears(w, s, h[s])' PROVE Has(w, s)'
  <2>1. OnlyHears(w, s, job[w].hash[s])
    BY <1>1, <1>2, <1>8 DEF OnlyHears
  <2>2. CASE s # "upstream"
    BY <1>1, <1>4, <1>6, <2>1, <2>2 DEF Sound, Has, Serves, Sections
  <2>3. CASE s = "upstream"
    <3>1. s \notin off[w] => Gathered(w, s)
      BY <1>1, <1>4, <2>1, <2>3 DEF Sound
    <3>2. CASE NoUpstream(w)
      <4>1. lmdb.upstream = 0
        BY <2>3, <3>1, <3>2 DEF NoUpstream, Gathered, Types
      <4> QED BY <1>1, <2>3, <4>1 DEF Has
    <3>3. CASE KeepBalancer(w)
      <4>1. lmdb.upstream \in {balancer[w], making[w]} /\ balancer' = balancer
        BY <2>3, <3>3 DEF KeepBalancer, Types
      <4> QED BY <1>1, <2>3, <4>1 DEF Has
    <3>4. CASE CreateBalancer(w)
      <4>1. balancer'[w] = job[w].upstream /\ job[w].upstream = lmdb.upstream
        BY <2>3, <3>1, <3>4 DEF CreateBalancer, Gathered, Types
      <4> QED BY <1>1, <2>3, <4>1 DEF Has
    <3>5. CASE CreateFails(w)
      BY <2>3, <3>5 DEF CreateFails, Types
    <3> QED BY <3>2, <3>3, <3>4, <3>5 DEF BalancersDone
  <2> QED BY <2>2, <2>3
<1> QED BY <1>3, <1>5, <1>7, <1>8 DEF Sound

(* A request makes a balancer only where there is none.                    *)
LEMMA RequestsKeepServing ==
  ASSUME Types, Places, ServeInv, NEW w \in Workers, Requests(w)
  PROVE  ServeInv'
<1> SUFFICES ASSUME NEW v \in Workers, NEW s \in Sections, s \notin off'[v]
             PROVE  Sound(v, s)'
  BY DEF ServeInv
<1>1. UNCHANGED <<lmdb, loader, events, router, plugins, label, pc, job>>
  BY DEF Requests, Request, RequestMakes, RequestFails, node
<1>2. s \notin off[v] /\ Sound(v, s)
  <2>1. off[v] \subseteq off'[v]
    BY DEF Requests, Request, RequestMakes, RequestFails, Types
  <2> QED BY <2>1 DEF ServeInv
<1>3. ASSUME Has(v, s) PROVE Has(v, s)'
  <2>1. CASE s # "upstream"
    BY <1>1, <1>3, <2>1 DEF Has, Serves, Sections
  <2>2. CASE s = "upstream" /\ v # w
    <3>1. UNCHANGED <<balancer[v], making[v]>>
      BY <2>2 DEF Requests, Request, RequestMakes, RequestFails, Types
    <3> QED BY <1>1, <1>3, <2>2, <3>1 DEF Has
  <2>3. CASE s = "upstream" /\ v = w /\ Request(w)
    <3>1. balancer' = balancer /\ (making'[w] = making[w] \/ (balancer[w] = 0 /\ making[w] = 0))
      <4>1. CASE balancer[w] = 0 /\ making[w] = 0
        BY <2>3, <4>1 DEF Request
      <4>2. CASE ~(balancer[w] = 0 /\ making[w] = 0)
        <5>1. making' = [making EXCEPT ![w] = making[w]] /\ balancer' = balancer
          BY <2>3, <4>2 DEF Request
        <5>2. making \in [Workers -> Nat]
          BY DEF Types
        <5>3. making'[w] = making[w]
          BY <5>1, <5>2
        <5> QED BY <5>1, <5>3
      <4> QED BY <4>1, <4>2
    <3> QED BY <1>1, <1>3, <2>3, <3>1 DEF Has
  <2>4. CASE s = "upstream" /\ v = w /\ RequestMakes(w)
    <3>1. balancer[w] = 0 /\ balancer'[w] = making[w]
      BY <2>4 DEF RequestMakes, Types, Places, Place
    <3> QED BY <1>1, <1>3, <2>4, <3>1 DEF Has
  <2>5. CASE s = "upstream" /\ v = w /\ RequestFails(w)
    BY <2>5 DEF RequestFails, Types
  <2> QED BY <2>1, <2>2, <2>3, <2>4, <2>5 DEF Requests
<1>4. EndsWithLmdb(v, s)'
  BY <1>1, <1>2 DEF Sound, EndsWithLmdb
<1>5. Gathered(v, s) => Gathered(v, s)'
  BY <1>1 DEF Gathered, Sections
<1> QED BY <1>1, <1>2, <1>3, <1>4, <1>5 DEF Sound, OnlyHears, Changed

LEMMA HandlerKeepsServing ==
  ASSUME Types, Places, ServeInv, NEW w \in Workers, Handle(w)
  PROVE  ServeInv'
<1> SUFFICES ASSUME NEW v \in Workers, NEW s \in Sections, s \notin off'[v]
             PROVE  Sound(v, s)'
  BY DEF ServeInv
<1>1. CASE v # w
  <2>1. UNCHANGED <<lmdb, loader, events[v], router[v], plugins[v], balancer[v], making[v],
                    label[v], pc[v], job[v], off[v]>>
    BY <1>1 DEF Handle, Receive, StopIsStale, StopCheckers, ListRoutes, RoutesAreStale,
         LoadRoutes, UpdateRoute, RouterBuilt, ListPlugins, PluginsAreStale, LoadPlugins,
         Install, NoUpstream, InitRaises, KeepBalancer, ReadUpstream, CreateBalancer,
         CreateFails, LabelBalancer, Finish, Fail, Types, node, requests
  <2>2. Sound(v, s) /\ lmdb \in Configs
    BY <2>1 DEF ServeInv, Types
  <2> QED BY <2>1, <2>2, SectionUntouched
          DEF Sound, EndsWithLmdb, OnlyHears, Changed
<1>2. CASE v = w
  <2>1. CASE Install(w)
    BY <1>2, <2>1, InstallKeepsServing DEF ServeInv
  <2>2. CASE Receive(w)
    BY <1>2, <2>2, ReceiveKeepsServing DEF ServeInv, Receive
  <2>3. CASE Fails(w)
    <3>1. off'[w] = Sections
      BY <2>3, FailsFact DEF Fail, Types
    <3> QED BY <1>2, <3>1
  <2>4. CASE Middle(w)
    <3>1. off' = off
      BY <2>4 DEF Middle, StopCheckers, ListRoutes, LoadRoutes, UpdateRoute, RouterBuilt,
                  ListPlugins, LoadPlugins, ReadUpstream
    <3> QED BY <1>2, <2>4, <3>1, MiddleKeepsServing DEF ServeInv
  <2>5. CASE BalancersDone(w)
    BY <1>2, <2>5, LabelKeepsServing DEF ServeInv
  <2> QED BY <2>1, <2>2, <2>3, <2>4, <2>5 DEF Handle, Fails, Middle, BalancersDone
<1> QED BY <1>1, <1>2

LEMMA ServeStep == Types /\ Places /\ ServeInv /\ [Next]_vars => ServeInv'
<1> SUFFICES ASSUME Types, Places, ServeInv, [Next]_vars PROVE ServeInv'
  OBVIOUS
<1>1. CASE UNCHANGED vars
  <2> SUFFICES ASSUME NEW w \in Workers, NEW s \in Sections, s \notin off'[w]
               PROVE  Sound(w, s)'
    BY DEF ServeInv
  <2>1. UNCHANGED <<lmdb, loader, events, router, plugins, balancer, making, label, pc, job, off>>
    BY <1>1 DEF vars, node, requests
  <2>2. Sound(w, s) /\ lmdb \in Configs
    BY <2>1 DEF ServeInv, Types
  <2> QED BY <2>1, <2>2, SectionUntouched DEF Sound, EndsWithLmdb, OnlyHears, Changed
<1>2. CASE Next
  BY <1>1, <1>2, BaseStep, NodeKeepsServing, HandlerKeepsServing, RequestsKeepServing
     DEF Next, Requests
<1> QED BY <1>1, <1>2

(* A worker that has handled every announcement routes by what is in LMDB, *)
(* runs its plugins and balances by its upstream, whatever configurations  *)
(* were loaded while it read and whatever balancers requests made, but for *)
(* the sections a failure left behind and an old balancer that was kept.   *)
THEOREM WorkersServe == Spec => []WorkersServeConfig
<1>1. ServeInv => WorkersServeConfig
  <2> SUFFICES ASSUME ServeInv, NEW w \in Workers, Settled(w), NEW s \in Sections \ off[w]
               PROVE  Serves(w, s)
    BY DEF WorkersServeConfig
  <2>1. Sound(w, s) /\ loader = "idle" /\ pc[w] = "idle" /\ events[w] = <<>> /\ making[w] = 0
    BY DEF ServeInv, Settled
  <2>2. OnlyHears(w, s, label[w][s])
    BY <2>1, NoneIsEmpty DEF OnlyHears
  <2>3. Has(w, s)
    BY <2>1, <2>2 DEF Sound
  <2> QED BY <2>1, <2>3 DEF Has, Serves, Sections
<1> QED BY <1>1, BaseHolds, ServeInit, ServeStep, PTL DEF Spec
=============================================================================
