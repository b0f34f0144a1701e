-------------------------- MODULE HybridSyncProofs --------------------------
(***************************************************************************)
(* Theorems about HybridSync, for any number of workers, data planes,      *)
(* writes and failures.  BaseInv has the types and what the places of the  *)
(* control flow say of each other; three properties rest on it, each with  *)
(* an inductive invariant of its own:                                      *)
(*   WatchInv  a wake-up waits for a configuration that is not being       *)
(*             loaded, whatever happened while another one was;            *)
(*   OrderInv  along the way from a worker's payload to LMDB               *)
(*             configurations only get older, and a worker will publish    *)
(*             nothing older than what a data plane has from it, also      *)
(*             while the data plane is connected to another one;           *)
(*   FlowInv   a data plane that is connected to a worker has the newest   *)
(*             configuration on its way, or a push is still to come.       *)
(***************************************************************************)
EXTENDS HybridSync, SequenceTheorems, TLAPS

ControlTypes ==
  /\ db \in 1..MaxWrites /\ failures \in 0..MaxFailures
  /\ payload \in [Workers -> Nat] /\ notices \in [Workers -> Nat]
  /\ posts \in [Workers -> 0..2]
  /\ loop \in [Workers -> {"start", "exporting", "waiting", "sleeping"}]
  /\ snapshot \in [Exporters -> Nat]
  /\ at \in [DataPlanes -> Workers \cup {Nobody}]
  /\ conn \in [DataPlanes -> {"down", "exporting", "up"}]
  /\ marks \in [DataPlanes -> Nat]
  /\ overtaken \in [Workers -> BOOLEAN] /\ unpushed \in [Workers -> BOOLEAN]

DataTypes ==
  /\ wire \in [DataPlanes -> Seq(Nat)]
  /\ next \in [DataPlanes -> Nat] /\ loading \in [DataPlanes -> Nat]
  /\ lmdb \in [DataPlanes -> Nat] /\ refused \in [DataPlanes -> Nat]
  /\ wakeups \in [DataPlanes -> 0..2]
  /\ from \in [DataPlanes -> Workers \cup {Nobody}]

Types == ControlTypes /\ DataTypes

(* Nothing is newer than the database.                                     *)
Bounds ==
  /\ \A v \in Workers : payload[v] <= db /\ notices[v] <= db
  /\ \A x \in Exporters : snapshot[x] <= db
  /\ \A d \in DataPlanes :
       /\ next[d] <= db /\ loading[d] <= db /\ lmdb[d] <= db /\ refused[d] <= db
       /\ \A i \in 1..Len(wire[d]) : wire[d][i] <= db

(* What a loop's and a connection's states say of the rest.  A loop that   *)
(* exports has found what is newest, or will be told again.                *)
LoopPlaces ==
  \A v \in Workers :
    /\ loop[v] # "waiting" => posts[v] <= 1
    /\ loop[v] = "exporting" =>
         /\ snapshot[v] # 0
         /\ snapshot[v] = db \/ notices[v] > 0 \/ posts[v] > 0 \/ unpushed[v]

ConnPlaces ==
  \A d \in DataPlanes :
    /\ conn[d] = "exporting" <=> snapshot[d] # 0
    /\ conn[d] # "up" => marks[d] = 0 /\ wire[d] = <<>> /\ next[d] = 0
    /\ conn[d] # "down" \/ loading[d] # 0 => at[d] \in Workers
    /\ marks[d] > 0 => payload[at[d]] # 0

Places == LoopPlaces /\ ConnPlaces

BaseInv == Types /\ Bounds /\ Places

WatchInv ==
  \A d \in DataPlanes : next[d] # 0 /\ next[d] # loading[d] => wakeups[d] > 0

(* The exports of worker v, and that it will publish nothing older than c: *)
(* while it has no payload, its exports began after c was exported.        *)
Exports(v) == {v} \cup {d \in DataPlanes : at[d] = v}

Covers(v, c) ==
  /\ payload[v] # 0 => c <= payload[v]
  /\ payload[v] = 0 => \A x \in Exports(v) : snapshot[x] # 0 => c <= snapshot[x]

(* What is on its way to data plane d is in line, and is what its worker   *)
(* has published.                                                          *)
InLine(d) ==
  /\ next[d] # 0 => loading[d] <= next[d]
  /\ \A i \in 1..Len(wire[d]) :
       /\ loading[d] <= wire[d][i] /\ next[d] <= wire[d][i]
       /\ \A j \in 1..i : wire[d][j] <= wire[d][i]

OnTheWay(d) == {next[d], loading[d]} \cup {wire[d][i] : i \in 1..Len(wire[d])}

(* What data plane d has is not newer than what is on its way.             *)
Behind(d) ==
  /\ loading[d] # 0 => lmdb[d] <= loading[d]
  /\ next[d] # 0 => lmdb[d] <= next[d]
  /\ \A i \in 1..Len(wire[d]) : lmdb[d] <= wire[d][i]

Order(d, v) ==
  /\ at[d] = v => InLine(d) /\ \A c \in OnTheWay(d) : Covers(v, c)
  /\ from[d] = v => Covers(v, lmdb[d])
  /\ at[d] = v /\ from[d] = v => Behind(d)

OrderInv == \A d \in DataPlanes : \A v \in Workers : ~overtaken[v] => Order(d, v)

(* A push of the newest configuration by worker v is still to come.        *)
Pending(v) ==
  \/ notices[v] > 0 \/ posts[v] > 0
  \/ loop[v] = "sleeping"
  \/ loop[v] = "exporting" /\ snapshot[v] = db

(* The newest configuration is what data plane d gets last.                *)
OnItsWay(d) ==
  /\ marks[d] > 0 => payload[at[d]] = db
  /\ marks[d] = 0 =>
       /\ wire[d] # <<>> => wire[d][Len(wire[d])] = db
       /\ wire[d] = <<>> =>
            /\ next[d] # 0 => next[d] = db
            /\ next[d] = 0 => /\ loading[d] # 0 => loading[d] = db
                              /\ loading[d] = 0 => db \in {lmdb[d], refused[d]}

FlowInv ==
  \A v \in Workers : ~overtaken[v] /\ ~unpushed[v] /\ ~Pending(v) =>
    /\ payload[v] # 0 => payload[v] = db
    /\ \A x \in Exports(v) : snapshot[x] # 0 => snapshot[x] = db \/ payload[v] = db
    /\ \A d \in DataPlanes : conn[d] = "up" /\ at[d] = v => OnItsWay(d)

-----------------------------------------------------------------------------
(* Sequences *)

LEMMA NoneIsEmpty == <<>> \in Seq(Nat) /\ Len(<<>>) = 0
  BY EmptySeq

LEMMA TailFacts ==
  ASSUME NEW s \in Seq(Nat), s # <<>>
  PROVE  /\ Head(s) \in Nat /\ Head(s) = s[1] /\ Tail(s) \in Seq(Nat)
         /\ Len(s) \in Nat \ {0} /\ Len(Tail(s)) = Len(s) - 1
         /\ \A i \in 1..Len(Tail(s)) : i + 1 \in 1..Len(s) /\ Tail(s)[i] = s[i + 1]
         /\ Tail(s) # <<>> => Len(Tail(s)) > 0
         /\ Tail(s) = <<>> => Len(s) = 1
<1>1. /\ Len(s) \in Nat \ {0} /\ Head(s) = s[1] /\ Head(s) \in Nat
      /\ Tail(s) \in Seq(Nat) /\ Len(Tail(s)) = Len(s) - 1
      /\ \A i \in 1..Len(Tail(s)) : Tail(s)[i] = s[i + 1]
  BY HeadTailProperties, LenProperties, ElementOfSeq, EmptySeq
<1>2. \A i \in 1..Len(Tail(s)) : i + 1 \in 1..Len(s)
  BY <1>1
<1>3. Tail(s) # <<>> => Len(Tail(s)) > 0
  BY <1>1, EmptySeq
<1>4. Tail(s) = <<>> => Len(s) = 1
  <2>1. Tail(s) = <<>> => Len(Tail(s)) = 0
    BY NoneIsEmpty
  <2> QED BY <1>1, <2>1
<1> QED BY <1>1, <1>2, <1>3, <1>4

LEMMA AppendFacts ==
  ASSUME NEW s \in Seq(Nat), NEW e \in Nat
  PROVE  /\ Append(s, e) \in Seq(Nat) /\ Append(s, e) # <<>>
         /\ Len(s) \in Nat /\ Len(Append(s, e)) = Len(s) + 1
         /\ \A i \in 1..Len(s) : Append(s, e)[i] = s[i]
         /\ Append(s, e)[Len(s) + 1] = e
  BY AppendProperties, LenProperties

-----------------------------------------------------------------------------
(* Types, bounds and places *)

LEMMA BaseInit == Init => BaseInv
<1> SUFFICES ASSUME Init PROVE BaseInv
  OBVIOUS
<1>1. Types
  <2>1. ControlTypes
    BY HybridSyncAssumption DEF Init, ControlTypes, Exporters
  <2>2. DataTypes
    BY NoneIsEmpty DEF Init, DataTypes
  <2> QED BY <2>1, <2>2 DEF Types
<1>2. Bounds
  BY NoneIsEmpty DEF Init, Bounds, Exporters
<1>3. Places
  BY HybridSyncAssumption DEF Init, Places, LoopPlaces, ConnPlaces, Exporters
<1> QED BY <1>1, <1>2, <1>3 DEF BaseInv

LEMMA WhoExports ==
  /\ Workers \subseteq Exporters /\ DataPlanes \subseteq Exporters
  /\ \A x \in Exporters : x \in Workers \/ x \in DataPlanes
  /\ \A v \in Workers, d \in DataPlanes : v # d /\ v # Nobody
  /\ MaxWrites \in Nat /\ MaxFailures \in Nat
BY HybridSyncAssumption DEF Exporters

(* The data planes' bounds when only the control plane takes a step.       *)
LEMMA DataFrame ==
  ASSUME BaseInv, UNCHANGED <<wire, dp>>, db' \in {db, db + 1}
  PROVE  /\ DataTypes'
         /\ \A d \in DataPlanes :
              /\ next'[d] <= db' /\ loading'[d] <= db' /\ lmdb'[d] <= db'
              /\ refused'[d] <= db'
              /\ \A i \in 1..Len(wire'[d]) : wire'[d][i] <= db'
<1>1. DataTypes /\ db \in Nat
  BY HybridSyncAssumption DEF BaseInv, Types, ControlTypes
<1>2. UNCHANGED <<wire, next, wakeups, loading, lmdb, from, refused>>
  BY DEF dp
<1>3. DataTypes'
  BY <1>1, <1>2 DEF DataTypes
<1>4. \A n \in Nat : n <= db => n <= db'
  BY <1>1
<1>5. ASSUME NEW d \in DataPlanes
      PROVE  /\ next[d] \in Nat /\ loading[d] \in Nat /\ lmdb[d] \in Nat /\ refused[d] \in Nat
             /\ \A i \in 1..Len(wire[d]) : wire[d][i] \in Nat
  <2>1. wire[d] \in Seq(Nat)
    BY <1>1 DEF DataTypes
  <2>2. \A i \in 1..Len(wire[d]) : wire[d][i] \in Nat
    BY <2>1, ElementOfSeq
  <2> QED BY <1>1, <2>2 DEF DataTypes
<1>6. \A d \in DataPlanes :
        /\ next[d] <= db' /\ loading[d] <= db' /\ lmdb[d] <= db' /\ refused[d] <= db'
        /\ \A i \in 1..Len(wire[d]) : wire[d][i] <= db'
  BY <1>4, <1>5 DEF BaseInv, Bounds
<1> QED BY <1>2, <1>3, <1>6

LEMMA WriteKeepsBase ==
  ASSUME BaseInv, Write \/ PostFails
  PROVE  BaseInv'
<1>1. /\ db' = db + 1 /\ db < MaxWrites /\ db \in 1..MaxWrites
      /\ MaxWrites \in Nat /\ MaxFailures \in Nat
      /\ UNCHANGED <<wire, dp, posts, loop, snapshot, payload, at, conn, marks, overtaken>>
  BY HybridSyncAssumption DEF Write, PostFails, BaseInv, Types, ControlTypes
<1>2. notices' = [w \in Workers |-> notices[w] + 1] \/ notices' = notices
  BY DEF Write, PostFails
<1>3. \/ failures' = failures
      \/ failures < MaxFailures /\ failures' = failures + 1
  BY DEF Write, PostFails, Fails
<1>4. unpushed' = unpushed \/ unpushed' = [w \in Workers |-> TRUE]
  BY DEF Write, PostFails
<1>5. \A w \in Workers : notices'[w] > 0 \/ unpushed'[w]
  BY DEF Write, PostFails, BaseInv, Types, ControlTypes
<1>6. ControlTypes'
  <2>1. unpushed' \in [Workers -> BOOLEAN]
    BY <1>4 DEF BaseInv, Types, ControlTypes
  <2>2. notices' \in [Workers -> Nat]
    BY <1>2 DEF BaseInv, Types, ControlTypes
  <2>3. failures' \in 0..MaxFailures /\ db' \in 1..MaxWrites
    BY <1>1, <1>3 DEF BaseInv, Types, ControlTypes
  <2> QED BY <1>1, <2>1, <2>2, <2>3 DEF BaseInv, Types, ControlTypes
<1>7. DataTypes'
  BY <1>1, DataFrame
<1>8. Bounds'
  <2>1. \A w \in Workers : payload'[w] <= db' /\ notices'[w] <= db'
    BY <1>1, <1>2 DEF BaseInv, Types, ControlTypes, Bounds
  <2>2. \A x \in Exporters : snapshot'[x] <= db'
    BY <1>1 DEF BaseInv, Types, ControlTypes, Bounds
  <2> QED BY <1>1, <2>1, <2>2, DataFrame DEF Bounds
<1>9. Places'
  BY <1>1, <1>5 DEF BaseInv, Places, LoopPlaces, ConnPlaces, dp
<1> QED BY <1>6, <1>7, <1>8, <1>9 DEF BaseInv, Types

LEMMA SnapshotFacts ==
  ASSUME BaseInv, NEW x \in Exporters, NEW c \in {0, db},
         snapshot' = [snapshot EXCEPT ![x] = c]
  PROVE  /\ snapshot' \in [Exporters -> Nat] /\ \A y \in Exporters : snapshot'[y] <= db
         /\ snapshot'[x] = c /\ \A y \in Exporters \ {x} : snapshot'[y] = snapshot[y]
<1>1. db \in Nat /\ snapshot \in [Exporters -> Nat] /\ \A y \in Exporters : snapshot[y] <= db
  BY HybridSyncAssumption DEF BaseInv, Types, ControlTypes, Bounds
<1>2. snapshot'[x] = c /\ \A y \in Exporters \ {x} : snapshot'[y] = snapshot[y]
  BY <1>1
<1>3. \A y \in Exporters : snapshot'[y] <= db
  BY <1>1, <1>2
<1>4. snapshot' \in [Exporters -> Nat]
  BY <1>1
<1> QED BY <1>2, <1>3, <1>4

(* The steps of worker v.                                                  *)
LEMMA ControlKeepsBase ==
  ASSUME BaseInv, NEW v \in Workers, ControlStep(v) \/ LoopExportFails(v)
  PROVE  BaseInv'
<1>t. /\ db \in 1..MaxWrites /\ db \in Nat /\ failures \in 0..MaxFailures
      /\ payload \in [Workers -> Nat] /\ notices \in [Workers -> Nat]
      /\ posts \in [Workers -> 0..2]
      /\ loop \in [Workers -> {"start", "exporting", "waiting", "sleeping"}]
      /\ snapshot \in [Exporters -> Nat]
      /\ marks \in [DataPlanes -> Nat]
      /\ overtaken \in [Workers -> BOOLEAN] /\ unpushed \in [Workers -> BOOLEAN]
      /\ MaxFailures \in Nat
  BY HybridSyncAssumption DEF BaseInv, Types, ControlTypes
<1>e. /\ v \in Exporters /\ DataPlanes \subseteq Exporters /\ Workers \subseteq Exporters
      /\ \A d \in DataPlanes : d # v
  BY WhoExports
<1>p. LoopPlaces /\ ConnPlaces /\ Bounds
  BY DEF BaseInv, Places
<1>u. UNCHANGED <<db, at, conn, wire, dp>>
  BY DEF ControlStep, LoopExportFails, Notice, LoopStarts, LoopStarted, LoopTakes,
         LoopRequeues, LoopPushes
<1>d. DataTypes'
  BY <1>u, DataFrame
(* What is left to show of each step. *)
<1>s. SUFFICES /\ failures' \in 0..MaxFailures
               /\ payload' \in [Workers -> Nat] /\ notices' \in [Workers -> Nat]
               /\ posts' \in [Workers -> 0..2]
               /\ loop' \in [Workers -> {"start", "exporting", "waiting", "sleeping"}]
               /\ snapshot' \in [Exporters -> Nat]
               /\ marks' \in [DataPlanes -> Nat]
               /\ overtaken' \in [Workers -> BOOLEAN] /\ unpushed' \in [Workers -> BOOLEAN]
               /\ \A w \in Workers : payload'[w] <= db /\ notices'[w] <= db
               /\ \A x \in Exporters : snapshot'[x] <= db
               /\ LoopPlaces'
               /\ \A d \in DataPlanes :
                    /\ snapshot'[d] = snapshot[d]
                    /\ conn[d] # "up" => marks'[d] = 0
                    /\ marks'[d] > 0 => payload'[at[d]] # 0
  <2>1. ControlTypes'
    BY <1>s, <1>u DEF BaseInv, Types, ControlTypes
  <2>2. Bounds'
    BY <1>s, <1>u, DataFrame DEF Bounds
  <2>3. ConnPlaces'
    BY <1>s, <1>u, <1>p DEF ConnPlaces, dp
  <2> QED BY <1>s, <1>d, <2>1, <2>2, <2>3 DEF BaseInv, Types, Places
<1>1. CASE Notice(v)
  <2>1. /\ notices[v] > 0 /\ notices' = [notices EXCEPT ![v] = @ - 1]
        /\ UNCHANGED <<loop, snapshot, payload, marks, failures, overtaken, unpushed>>
    BY <1>1 DEF Notice
  <2>2. posts' = [posts EXCEPT ![v] =
          IF @ - (IF loop[v] = "waiting" THEN 1 ELSE 0) <= 0 THEN @ + 1 ELSE @]
    BY <1>1 DEF Notice
  <2>3. posts' \in [Workers -> 0..2] /\ posts'[v] > 0
        /\ (loop[v] # "waiting" => posts'[v] <= 1)
    BY <1>t, <1>p, <2>2 DEF LoopPlaces
  <2>4. \A w \in Workers \ {v} : posts'[w] = posts[w] /\ notices'[w] = notices[w]
    BY <1>t, <2>1, <2>2
  <2>5. notices' \in [Workers -> Nat] /\ \A w \in Workers : notices'[w] <= db
    BY <1>t, <1>p, <2>1 DEF Bounds
  <2>6. LoopPlaces'
    BY <1>t, <1>p, <1>u, <2>1, <2>3, <2>4 DEF LoopPlaces
  <2> QED BY <1>t, <1>p, <2>1, <2>3, <2>5, <2>6 DEF Bounds, ConnPlaces
<1>2. CASE LoopStarts(v)
  <2>1. /\ loop[v] = "start" /\ snapshot' = [snapshot EXCEPT ![v] = db]
        /\ UNCHANGED <<notices, posts, loop, payload, marks, failures, overtaken, unpushed>>
    BY <1>2 DEF LoopStarts
  <2>2. snapshot' \in [Exporters -> Nat] /\ \A x \in Exporters : snapshot'[x] <= db
    BY <1>e, <2>1, SnapshotFacts
  <2>3. LoopPlaces'
    BY <1>t, <1>e, <1>p, <1>u, <2>1 DEF LoopPlaces
  <2>4. \A d \in DataPlanes : snapshot'[d] = snapshot[d]
    BY <1>t, <1>e, <2>1
  <2> QED BY <1>t, <1>p, <2>1, <2>2, <2>3, <2>4 DEF Bounds, ConnPlaces
<1>3. CASE LoopStarted(v) \/ LoopPushes(v)
  <2>1. /\ loop[v] \in {"start", "exporting"} /\ loop' = [loop EXCEPT ![v] = "waiting"]
        /\ snapshot' = [snapshot EXCEPT ![v] = 0] /\ snapshot[v] # 0
        /\ payload' = [payload EXCEPT ![v] = snapshot[v]]
        /\ overtaken' = [overtaken EXCEPT ![v] = @ \/ snapshot[v] < payload[v]]
        /\ UNCHANGED <<notices, posts, failures>>
    BY <1>3, <1>p DEF LoopStarted, LoopPushes, Publish, LoopPlaces
  <2>2. /\ snapshot' \in [Exporters -> Nat] /\ \A x \in Exporters : snapshot'[x] <= db
        /\ payload' \in [Workers -> Nat] /\ \A w \in Workers : payload'[w] <= db
    BY <1>t, <1>e, <1>p, <2>1 DEF Bounds
  <2>3. /\ loop' \in [Workers -> {"start", "exporting", "waiting", "sleeping"}]
    BY <1>t, <2>1
  <2>4. overtaken' \in [Workers -> BOOLEAN]
    BY <1>t, <2>1
  <2>5. unpushed' \in [Workers -> BOOLEAN] /\ \A w \in Workers \ {v} : unpushed'[w] = unpushed[w]
    BY <1>t, <1>3 DEF LoopStarted, LoopPushes
  <2>6. /\ \A d \in DataPlanes : snapshot'[d] = snapshot[d]
        /\ \A w \in Workers \ {v} : snapshot'[w] = snapshot[w] /\ loop'[w] = loop[w]
                                    /\ payload'[w] = payload[w]
        /\ loop'[v] = "waiting" /\ payload'[v] # 0
    BY <1>t, <1>e, <2>1
  <2>7. LoopPlaces'
    BY <1>p, <1>u, <2>1, <2>5, <2>6 DEF LoopPlaces
  <2>8. marks' \in [DataPlanes -> Nat]
        /\ \A d \in DataPlanes : \/ marks'[d] = marks[d]
                                 \/ conn[d] = "up" /\ at[d] = v
    BY <1>t, <1>3 DEF LoopStarted, LoopPushes, Clients
  <2>9. \A d \in DataPlanes : /\ conn[d] # "up" => marks'[d] = 0
                              /\ marks'[d] > 0 => payload'[at[d]] # 0
    <3> SUFFICES ASSUME NEW d \in DataPlanes
                 PROVE  /\ conn[d] # "up" => marks'[d] = 0
                        /\ marks'[d] > 0 => payload'[at[d]] # 0
      OBVIOUS
    <3>1. conn[d] # "up" => marks[d] = 0
      BY <1>p DEF ConnPlaces
    <3>2. CASE at[d] = v
      BY <2>6, <2>8, <3>1, <3>2
    <3>3. CASE at[d] # v
      <4>1. marks'[d] = marks[d]
        BY <2>8, <3>3
      <4>2. marks[d] > 0 => at[d] \in Workers /\ payload[at[d]] # 0
        <5>1. marks[d] > 0 => conn[d] = "up"
          BY <3>1, <1>t
        <5> QED BY <1>p, <5>1 DEF ConnPlaces
      <4> QED BY <2>6, <3>1, <3>3, <4>1, <4>2
    <3> QED BY <3>2, <3>3
  <2> QED BY <1>t, <1>p, <2>1, <2>2, <2>3, <2>4, <2>5, <2>6, <2>7, <2>8, <2>9 DEF Bounds
<1>4. CASE LoopTakes(v)
  <2>1. /\ loop[v] = "waiting" /\ posts[v] > 0 /\ posts' = [posts EXCEPT ![v] = @ - 1]
        /\ UNCHANGED <<notices, payload, marks, failures, overtaken, unpushed>>
    BY <1>4 DEF LoopTakes
  <2>2. \/ /\ loop' = [loop EXCEPT ![v] = "sleeping"] /\ snapshot' = snapshot
        \/ /\ loop' = [loop EXCEPT ![v] = "exporting"]
           /\ snapshot' = [snapshot EXCEPT ![v] = db]
    <3>1. CASE Clients(v) = {}
      BY <1>t, <1>e, <1>4, <3>1 DEF LoopTakes
    <3>2. CASE Clients(v) # {}
      BY <1>4, <3>2 DEF LoopTakes
    <3> QED BY <3>1, <3>2
  <2>a. /\ posts' \in [Workers -> 0..2] /\ posts'[v] <= 1
        /\ loop' \in [Workers -> {"start", "exporting", "waiting", "sleeping"}]
    BY <1>t, <2>1, <2>2
  <2>b. snapshot' \in [Exporters -> Nat] /\ \A x \in Exporters : snapshot'[x] <= db
    BY <1>t, <1>e, <1>p, <2>2, SnapshotFacts DEF Bounds
  <2>3. /\ posts' \in [Workers -> 0..2] /\ posts'[v] <= 1
        /\ loop' \in [Workers -> {"start", "exporting", "waiting", "sleeping"}]
        /\ snapshot' \in [Exporters -> Nat] /\ \A x \in Exporters : snapshot'[x] <= db
    BY <2>a, <2>b
  <2>c. loop'[v] = "sleeping" \/ (loop'[v] = "exporting" /\ snapshot'[v] = db)
    BY <1>t, <1>e, <2>2
  <2>d. /\ \A d \in DataPlanes : snapshot'[d] = snapshot[d]
        /\ \A w \in Workers \ {v} : snapshot'[w] = snapshot[w]
    BY <1>t, <1>e, <2>2
  <2>e. \A w \in Workers \ {v} : loop'[w] = loop[w] /\ posts'[w] = posts[w]
    BY <1>t, <2>1, <2>2
  <2>4. /\ loop'[v] = "sleeping" \/ (loop'[v] = "exporting" /\ snapshot'[v] = db)
        /\ \A d \in DataPlanes : snapshot'[d] = snapshot[d]
        /\ \A w \in Workers \ {v} : snapshot'[w] = snapshot[w] /\ loop'[w] = loop[w]
                                    /\ posts'[w] = posts[w]
    BY <2>c, <2>d, <2>e
  <2>5. LoopPlaces'
    BY <1>t, <1>p, <1>u, <2>1, <2>3, <2>4 DEF LoopPlaces
  <2> QED BY <1>t, <1>p, <2>1, <2>3, <2>4, <2>5 DEF Bounds, ConnPlaces
<1>5. CASE LoopRequeues(v)
  <2>1. /\ posts' = [posts EXCEPT ![v] = IF @ <= 0 THEN @ + 1 ELSE @]
        /\ loop' = [loop EXCEPT ![v] = "waiting"]
        /\ UNCHANGED <<notices, snapshot, payload, marks, failures, overtaken, unpushed>>
    BY <1>5 DEF LoopRequeues
  <2>2. /\ posts' \in [Workers -> 0..2]
        /\ loop' \in [Workers -> {"start", "exporting", "waiting", "sleeping"}]
    BY <1>t, <2>1
  <2>3. LoopPlaces'
    BY <1>t, <1>p, <1>u, <2>1 DEF LoopPlaces
  <2> QED BY <1>t, <1>p, <2>1, <2>2, <2>3 DEF Bounds, ConnPlaces
<1>6. CASE LoopExportFails(v)
  <2>1. /\ snapshot' = [snapshot EXCEPT ![v] = 0]
        /\ loop' = [loop EXCEPT ![v] = "waiting"]
        /\ unpushed' = [unpushed EXCEPT ![v] = TRUE]
        /\ failures < MaxFailures /\ failures' = failures + 1
        /\ UNCHANGED <<notices, posts, payload, marks, overtaken>>
    BY <1>6 DEF LoopExportFails, Fails
  <2>a. snapshot' \in [Exporters -> Nat] /\ \A x \in Exporters : snapshot'[x] <= db
    BY <1>e, <2>1, SnapshotFacts
  <2>2. /\ snapshot' \in [Exporters -> Nat] /\ \A x \in Exporters : snapshot'[x] <= db
        /\ failures' \in 0..MaxFailures
    BY <1>t, <2>1, <2>a
  <2>3. unpushed' \in [Workers -> BOOLEAN]
    BY <1>t, <2>1
  <2>4. loop' \in [Workers -> {"start", "exporting", "waiting", "sleeping"}]
    BY <1>t, <2>1
  <2>5. /\ \A d \in DataPlanes : snapshot'[d] = snapshot[d]
        /\ \A w \in Workers \ {v} : snapshot'[w] = snapshot[w] /\ loop'[w] = loop[w]
                                    /\ unpushed'[w] = unpushed[w]
        /\ loop'[v] = "waiting"
    BY <1>t, <1>e, <2>1
  <2>6. LoopPlaces'
    BY <1>p, <1>u, <2>1, <2>5 DEF LoopPlaces
  <2> QED BY <1>t, <1>p, <2>1, <2>2, <2>3, <2>4, <2>5, <2>6 DEF Bounds, ConnPlaces
<1> QED BY <1>1, <1>2, <1>3, <1>4, <1>5, <1>6 DEF ControlStep

(* The end of worker v: its connections and exports end with it.           *)
LEMMA RestartFacts ==
  ASSUME BaseInv, NEW v \in Workers, Restart(v)
  PROVE  /\ UNCHANGED <<db, at, loading, lmdb, refused, from, overtaken, unpushed>>
         /\ failures' \in 0..MaxFailures
         /\ notices' = [notices EXCEPT ![v] = 0] /\ posts' = [posts EXCEPT ![v] = 0]
         /\ loop' = [loop EXCEPT ![v] = "start"] /\ payload' = [payload EXCEPT ![v] = 0]
         /\ snapshot' \in [Exporters -> Nat] /\ conn' \in [DataPlanes -> {"down", "exporting", "up"}]
         /\ marks' \in [DataPlanes -> Nat] /\ wire' \in [DataPlanes -> Seq(Nat)]
         /\ next' \in [DataPlanes -> Nat] /\ wakeups' \in [DataPlanes -> 0..2]
         /\ \A x \in Exports(v) : snapshot'[x] = 0
         /\ \A x \in Exporters \ Exports(v) : snapshot'[x] = snapshot[x]
         /\ \A d \in DataPlanes :
              \/ /\ at[d] = v /\ conn'[d] = "down" /\ marks'[d] = 0 /\ wire'[d] = <<>>
                 /\ next'[d] = 0 /\ wakeups'[d] = 0
              \/ /\ at[d] # v /\ conn'[d] = conn[d] /\ marks'[d] = marks[d]
                 /\ wire'[d] = wire[d] /\ next'[d] = next[d] /\ wakeups'[d] = wakeups[d]
<1> DEFINE closed == {d \in DataPlanes : at[d] = v}
           Reset(f, none) == [d \in DataPlanes |-> IF d \in closed THEN none ELSE f[d]]
<1>1. /\ UNCHANGED <<db, at, loading, lmdb, refused, from, overtaken, unpushed>>
      /\ failures < MaxFailures /\ failures' = failures + 1
      /\ notices' = [notices EXCEPT ![v] = 0] /\ posts' = [posts EXCEPT ![v] = 0]
      /\ loop' = [loop EXCEPT ![v] = "start"] /\ payload' = [payload EXCEPT ![v] = 0]
      /\ snapshot' = [x \in Exporters |-> IF x \in closed \cup {v} THEN 0 ELSE snapshot[x]]
      /\ conn' = Reset(conn, "down") /\ marks' = Reset(marks, 0) /\ wire' = Reset(wire, <<>>)
      /\ next' = Reset(next, 0) /\ wakeups' = Reset(wakeups, 0)
  BY DEF Restart, Fails
<1>2. /\ failures \in 0..MaxFailures /\ MaxFailures \in Nat
      /\ snapshot \in [Exporters -> Nat] /\ conn \in [DataPlanes -> {"down", "exporting", "up"}]
      /\ marks \in [DataPlanes -> Nat] /\ wire \in [DataPlanes -> Seq(Nat)]
      /\ next \in [DataPlanes -> Nat] /\ wakeups \in [DataPlanes -> 0..2]
  BY HybridSyncAssumption DEF BaseInv, Types, ControlTypes, DataTypes
<1>3. failures' \in 0..MaxFailures
  BY <1>1, <1>2
<1>4. Exports(v) = closed \cup {v} /\ Exports(v) \subseteq Exporters
  BY WhoExports DEF Exports
<1>5. /\ snapshot' \in [Exporters -> Nat] /\ \A x \in Exports(v) : snapshot'[x] = 0
      /\ \A x \in Exporters \ Exports(v) : snapshot'[x] = snapshot[x]
  BY <1>1, <1>2, <1>4
<1>6. /\ conn' \in [DataPlanes -> {"down", "exporting", "up"}]
      /\ marks' \in [DataPlanes -> Nat] /\ wire' \in [DataPlanes -> Seq(Nat)]
      /\ next' \in [DataPlanes -> Nat] /\ wakeups' \in [DataPlanes -> 0..2]
  BY <1>1, <1>2, NoneIsEmpty
<1>7. ASSUME NEW d \in DataPlanes
      PROVE  \/ /\ at[d] = v /\ conn'[d] = "down" /\ marks'[d] = 0 /\ wire'[d] = <<>>
                /\ next'[d] = 0 /\ wakeups'[d] = 0
             \/ /\ at[d] # v /\ conn'[d] = conn[d] /\ marks'[d] = marks[d]
                /\ wire'[d] = wire[d] /\ next'[d] = next[d] /\ wakeups'[d] = wakeups[d]
  BY <1>1
<1> QED BY <1>1, <1>3, <1>5, <1>6, <1>7

LEMMA RestartKeepsBase ==
  ASSUME BaseInv, NEW v \in Workers, Restart(v)
  PROVE  BaseInv'
<1>1. ControlTypes'
  <2>1. /\ payload' = [payload EXCEPT ![v] = 0] /\ notices' = [notices EXCEPT ![v] = 0]
        /\ posts' = [posts EXCEPT ![v] = 0] /\ loop' = [loop EXCEPT ![v] = "start"]
        /\ UNCHANGED <<db, at, overtaken, unpushed>>
    BY RestartFacts
  <2>2. /\ payload' \in [Workers -> Nat] /\ notices' \in [Workers -> Nat]
        /\ posts' \in [Workers -> 0..2]
        /\ loop' \in [Workers -> {"start", "exporting", "waiting", "sleeping"}]
    BY <2>1 DEF BaseInv, Types, ControlTypes
  <2>3. UNCHANGED <<db, at, overtaken, unpushed>> /\ ControlTypes
    BY <2>1 DEF BaseInv, Types
  <2>4. /\ failures' \in 0..MaxFailures /\ snapshot' \in [Exporters -> Nat]
        /\ conn' \in [DataPlanes -> {"down", "exporting", "up"}]
        /\ marks' \in [DataPlanes -> Nat]
    BY RestartFacts
  <2> QED BY <2>2, <2>3, <2>4 DEF ControlTypes
<1>2. DataTypes'
  BY RestartFacts DEF BaseInv, Types, DataTypes
<1>3. Bounds'
  <2>0. db \in Nat /\ payload \in [Workers -> Nat] /\ notices \in [Workers -> Nat] /\ db' = db
    BY RestartFacts, HybridSyncAssumption DEF BaseInv, Types, ControlTypes
  <2>1. \A w \in Workers : payload'[w] <= db' /\ notices'[w] <= db'
    <3>1. /\ payload' = [payload EXCEPT ![v] = 0] /\ notices' = [notices EXCEPT ![v] = 0]
          /\ \A w \in Workers : payload[w] <= db /\ notices[w] <= db
      BY RestartFacts DEF BaseInv, Bounds
    <3> QED BY <2>0, <3>1
  <2>2. \A x \in Exporters : snapshot'[x] <= db'
    <3>1. \A x \in Exporters : snapshot[x] <= db /\ (snapshot'[x] = 0 \/ snapshot'[x] = snapshot[x])
      BY RestartFacts DEF BaseInv, Bounds
    <3> QED BY <2>0, <3>1
  <2>3. ASSUME NEW d \in DataPlanes
        PROVE  /\ next'[d] <= db' /\ loading'[d] <= db' /\ lmdb'[d] <= db' /\ refused'[d] <= db'
               /\ \A i \in 1..Len(wire'[d]) : wire'[d][i] <= db'
    <3>1. /\ loading'[d] = loading[d] /\ lmdb'[d] = lmdb[d] /\ refused'[d] = refused[d]
          /\ \/ next'[d] = next[d] /\ wire'[d] = wire[d]
             \/ next'[d] = 0 /\ wire'[d] = <<>>
      BY RestartFacts
    <3> QED BY <2>0, <3>1, NoneIsEmpty DEF BaseInv, Bounds
  <2> QED BY <2>1, <2>2, <2>3 DEF Bounds
<1>4. LoopPlaces'
  <2>1. ASSUME NEW w \in Workers, w # v
        PROVE  /\ loop'[w] = loop[w] /\ posts'[w] = posts[w] /\ notices'[w] = notices[w]
               /\ unpushed'[w] = unpushed[w] /\ snapshot'[w] = snapshot[w] /\ db' = db
    <3>1. w \in Exporters \ Exports(v)
      BY <2>1, WhoExports DEF Exports
    <3> QED BY <2>1, <3>1, RestartFacts DEF BaseInv, Types, ControlTypes
  <2>2. loop'[v] = "start" /\ posts'[v] = 0
    BY RestartFacts DEF BaseInv, Types, ControlTypes
  <2> QED BY <2>1, <2>2 DEF BaseInv, Places, LoopPlaces
<1>5. ConnPlaces'
  <2> SUFFICES ASSUME NEW d \in DataPlanes
               PROVE  /\ conn'[d] = "exporting" <=> snapshot'[d] # 0
                      /\ conn'[d] # "up" => marks'[d] = 0 /\ wire'[d] = <<>> /\ next'[d] = 0
                      /\ conn'[d] # "down" \/ loading'[d] # 0 => at'[d] \in Workers
                      /\ marks'[d] > 0 => payload'[at'[d]] # 0
    BY DEF ConnPlaces
  <2>1. at' = at /\ loading' = loading /\ marks \in [DataPlanes -> Nat]
        /\ payload \in [Workers -> Nat] /\ payload' = [payload EXCEPT ![v] = 0]
    BY RestartFacts DEF BaseInv, Types, ControlTypes
  <2>2. CASE at[d] = v
    <3>1. snapshot'[d] = 0 /\ d \in Exports(v)
      BY <2>2, RestartFacts DEF Exports
    <3>2. conn'[d] = "down" /\ marks'[d] = 0 /\ wire'[d] = <<>> /\ next'[d] = 0
      BY <2>2, RestartFacts
    <3> QED BY <2>1, <2>2, <3>1, <3>2
  <2>3. CASE at[d] # v
    <3>1. snapshot'[d] = snapshot[d]
      BY <2>3, RestartFacts, WhoExports DEF Exports
    <3>2. /\ conn'[d] = conn[d] /\ marks'[d] = marks[d]
          /\ wire'[d] = wire[d] /\ next'[d] = next[d]
      BY <2>3, RestartFacts
    <3>3. marks[d] > 0 => at[d] \in Workers /\ payload[at[d]] # 0
      BY <2>1 DEF BaseInv, Places, ConnPlaces
    <3>4. marks[d] > 0 => payload'[at[d]] # 0
      BY <2>1, <2>3, <3>3
    <3> QED BY <2>1, <3>1, <3>2, <3>4 DEF BaseInv, Places, ConnPlaces
  <2> QED BY <2>2, <2>3
<1> QED BY <1>1, <1>2, <1>3, <1>4, <1>5 DEF BaseInv, Types, Places

(* A connection's steps leave the other data planes and the loops alone.   *)
LEMMA ConnectionFrame ==
  ASSUME BaseInv, NEW d \in DataPlanes,
         \/ Connection(d) \/ ExportFails(d) \/ Break(d)
  PROVE  /\ UNCHANGED <<db, notices, posts, loop, loading, lmdb, refused, from>>
         /\ failures' \in 0..MaxFailures
         /\ snapshot' \in [Exporters -> Nat] /\ \A x \in Exporters : snapshot'[x] <= db
         /\ at' \in [DataPlanes -> Workers \cup {Nobody}]
         /\ conn' \in [DataPlanes -> {"down", "exporting", "up"}]
         /\ marks' \in [DataPlanes -> Nat]
         /\ \A e \in DataPlanes \ {d} : /\ at'[e] = at[e] /\ conn'[e] = conn[e]
                                        /\ marks'[e] = marks[e]
         /\ \A x \in Exporters \ {d} : snapshot'[x] = snapshot[x]
<1>t. /\ db \in Nat /\ failures \in 0..MaxFailures /\ MaxFailures \in Nat
      /\ snapshot \in [Exporters -> Nat]
      /\ at \in [DataPlanes -> Workers \cup {Nobody}]
      /\ conn \in [DataPlanes -> {"down", "exporting", "up"}]
      /\ marks \in [DataPlanes -> Nat]
      /\ \A x \in Exporters : snapshot[x] <= db
      /\ d \in Exporters
  BY WhoExports, HybridSyncAssumption DEF BaseInv, Types, ControlTypes, Bounds
<1>1. ASSUME NEW v \in Workers, ConnectExports(d, v) PROVE
        /\ UNCHANGED <<db, notices, posts, loop, dp, failures, marks>>
        /\ at' = [at EXCEPT ![d] = v] /\ conn' = [conn EXCEPT ![d] = "exporting"]
        /\ snapshot' = [snapshot EXCEPT ![d] = db]
  BY <1>1 DEF ConnectExports
<1>2. ASSUME NEW v \in Workers, Connect(d, v) PROVE
        /\ UNCHANGED <<db, notices, posts, loop, dp, failures, snapshot>>
        /\ at' = [at EXCEPT ![d] = v] /\ conn' = [conn EXCEPT ![d] = "up"]
        /\ marks' = [marks EXCEPT ![d] = @ + 1]
  BY <1>2 DEF Connect, Register, Mark
<1>3. CASE ExportEnds(d)
  <2>1. /\ UNCHANGED <<db, notices, posts, loop, dp, failures, at>>
        /\ conn' = [conn EXCEPT ![d] = "up"] /\ marks' = [marks EXCEPT ![d] = @ + 1]
        /\ snapshot' = [snapshot EXCEPT ![d] = 0]
    BY <1>3 DEF ExportEnds, Publish, Register, Mark
  <2>2. snapshot' \in [Exporters -> Nat] /\ (\A x \in Exporters : snapshot'[x] <= db)
        /\ \A x \in Exporters \ {d} : snapshot'[x] = snapshot[x]
    BY <1>t, <2>1, SnapshotFacts
  <2> QED BY <1>t, <2>1, <2>2 DEF dp
<1>4. CASE Send(d)
  <2>1. /\ UNCHANGED <<db, notices, posts, loop, dp, failures, at, snapshot, conn>>
        /\ marks[d] > 0 /\ marks' = [marks EXCEPT ![d] = @ - 1]
    BY <1>4 DEF Send
  <2> QED BY <1>t, <2>1 DEF dp
<1>5. CASE ExportFails(d)
  <2>1. /\ UNCHANGED <<db, notices, posts, loop, dp, at>>
        /\ failures < MaxFailures /\ failures' = failures + 1
        /\ conn' = [conn EXCEPT ![d] = "up"]
        /\ marks' = [marks EXCEPT ![d] = @ + 1] \/ marks' = marks
        /\ snapshot' = [snapshot EXCEPT ![d] = 0]
    BY <1>5 DEF ExportFails, Register, Mark, Fails
  <2>2. snapshot' \in [Exporters -> Nat] /\ (\A x \in Exporters : snapshot'[x] <= db)
        /\ \A x \in Exporters \ {d} : snapshot'[x] = snapshot[x]
    BY <1>t, <2>1, SnapshotFacts
  <2>3. /\ marks' \in [DataPlanes -> Nat]
        /\ \A e \in DataPlanes \ {d} : marks'[e] = marks[e]
    BY <1>t, <2>1
  <2>4. /\ conn' \in [DataPlanes -> {"down", "exporting", "up"}]
        /\ \A e \in DataPlanes \ {d} : conn'[e] = conn[e]
    BY <1>t, <2>1
  <2>5. failures' \in 0..MaxFailures
    BY <1>t, <2>1
  <2>6. UNCHANGED <<db, notices, posts, loop, loading, lmdb, refused, from, at>>
    BY <2>1 DEF dp
  <2> QED BY <1>t, <2>2, <2>3, <2>4, <2>5, <2>6
<1>6. CASE Break(d)
  <2>1. /\ UNCHANGED <<db, notices, posts, loop, loading, lmdb, refused, from, at, snapshot>>
        /\ failures < MaxFailures /\ failures' = failures + 1
        /\ conn' = [conn EXCEPT ![d] = "down"] /\ marks' = [marks EXCEPT ![d] = 0]
    BY <1>6 DEF Break, Fails
  <2> QED BY <1>t, <2>1
<1>7. ASSUME NEW v \in Workers, ConnectExports(d, v) PROVE
        /\ snapshot' \in [Exporters -> Nat] /\ (\A x \in Exporters : snapshot'[x] <= db)
        /\ \A x \in Exporters \ {d} : snapshot'[x] = snapshot[x]
  BY <1>t, <1>1, <1>7, SnapshotFacts
<1>8. ASSUME NEW v \in Workers, ConnectExports(d, v)
      PROVE  /\ at' \in [DataPlanes -> Workers \cup {Nobody}]
             /\ conn' \in [DataPlanes -> {"down", "exporting", "up"}]
             /\ \A e \in DataPlanes \ {d} : at'[e] = at[e] /\ conn'[e] = conn[e]
  BY <1>t, <1>1, <1>8
<1>9. ASSUME NEW v \in Workers, Connect(d, v)
      PROVE  /\ at' \in [DataPlanes -> Workers \cup {Nobody}]
             /\ conn' \in [DataPlanes -> {"down", "exporting", "up"}]
             /\ marks' \in [DataPlanes -> Nat]
             /\ \A e \in DataPlanes \ {d} : /\ at'[e] = at[e] /\ conn'[e] = conn[e]
                                            /\ marks'[e] = marks[e]
  BY <1>t, <1>2, <1>9
<1>10. CASE \E v \in Workers : ConnectExports(d, v)
  BY <1>t, <1>1, <1>7, <1>8, <1>10 DEF dp
<1>11. CASE \E v \in Workers : Connect(d, v)
  BY <1>t, <1>2, <1>9, <1>11 DEF dp
<1> QED BY <1>3, <1>4, <1>5, <1>6, <1>10, <1>11 DEF Connection

LEMMA MarkedIsUp ==
  ASSUME BaseInv, NEW d \in DataPlanes, marks[d] > 0
  PROVE  conn[d] = "up" /\ at[d] \in Workers /\ payload[at[d]] # 0
<1>1. marks[d] # 0
  BY DEF BaseInv, Types, ControlTypes, DataTypes
<1>2. ConnPlaces
  BY DEF BaseInv, Places
<1>3. conn[d] = "up" /\ payload[at[d]] # 0
  BY <1>1, <1>2 DEF ConnPlaces
<1> QED BY <1>2, <1>3 DEF ConnPlaces

LEMMA ConnectionKeepsBase ==
  ASSUME BaseInv, NEW d \in DataPlanes,
         \/ Connection(d) \/ ExportFails(d) \/ Break(d)
  PROVE  BaseInv'
<1>f. /\ UNCHANGED <<db, notices, posts, loop, loading, lmdb, refused, from>>
      /\ failures' \in 0..MaxFailures
      /\ snapshot' \in [Exporters -> Nat] /\ \A x \in Exporters : snapshot'[x] <= db
      /\ at' \in [DataPlanes -> Workers \cup {Nobody}]
      /\ conn' \in [DataPlanes -> {"down", "exporting", "up"}]
      /\ marks' \in [DataPlanes -> Nat]
      /\ \A e \in DataPlanes \ {d} : at'[e] = at[e] /\ conn'[e] = conn[e] /\ marks'[e] = marks[e]
      /\ \A x \in Exporters \ {d} : snapshot'[x] = snapshot[x]
  BY ConnectionFrame
<1>t. /\ db \in Nat /\ payload \in [Workers -> Nat] /\ snapshot \in [Exporters -> Nat]
      /\ at \in [DataPlanes -> Workers \cup {Nobody}]
      /\ conn \in [DataPlanes -> {"down", "exporting", "up"}] /\ marks \in [DataPlanes -> Nat]
      /\ overtaken \in [Workers -> BOOLEAN] /\ unpushed \in [Workers -> BOOLEAN]
      /\ wire \in [DataPlanes -> Seq(Nat)] /\ next \in [DataPlanes -> Nat]
      /\ wakeups \in [DataPlanes -> 0..2] /\ d \in Exporters
  BY HybridSyncAssumption, WhoExports DEF BaseInv, Types, ControlTypes, DataTypes
<1>p. /\ ConnPlaces /\ \A w \in Workers : payload[w] <= db
      /\ \A x \in Exporters : snapshot[x] <= db
      /\ \A e \in DataPlanes : next[e] <= db /\ \A i \in 1..Len(wire[e]) : wire[e][i] <= db
  BY DEF BaseInv, Places, Bounds
(* What is left to show of each step. *)
<1> DEFINE Rest ==
    /\ payload' \in [Workers -> Nat] /\ \A w \in Workers : payload'[w] <= db
    /\ overtaken' \in [Workers -> BOOLEAN] /\ unpushed' \in [Workers -> BOOLEAN]
    /\ \A w \in Workers : unpushed[w] => unpushed'[w]
    /\ \A w \in Workers : payload[w] # 0 => payload'[w] # 0
    /\ wire' \in [DataPlanes -> Seq(Nat)] /\ next' \in [DataPlanes -> Nat]
    /\ wakeups' \in [DataPlanes -> 0..2]
    /\ \A e \in DataPlanes \ {d} : wire'[e] = wire[e] /\ next'[e] = next[e]
    /\ next'[d] <= db /\ \A i \in 1..Len(wire'[d]) : wire'[d][i] <= db
    /\ conn'[d] = "exporting" <=> snapshot'[d] # 0
    /\ conn'[d] # "up" => marks'[d] = 0 /\ wire'[d] = <<>> /\ next'[d] = 0
    /\ conn'[d] # "down" \/ loading[d] # 0 => at'[d] \in Workers
    /\ marks'[d] > 0 => payload'[at'[d]] # 0
<1>s. SUFFICES Rest
  <2>1. ControlTypes'
    BY <1>s, <1>f DEF BaseInv, Types, ControlTypes
  <2>2. DataTypes'
    BY <1>s, <1>f DEF BaseInv, Types, DataTypes
  <2>3. Bounds'
    <3>1. \A w \in Workers : payload'[w] <= db' /\ notices'[w] <= db'
      BY <1>s, <1>f DEF BaseInv, Bounds
    <3>2. ASSUME NEW e \in DataPlanes
          PROVE  /\ next'[e] <= db' /\ loading'[e] <= db' /\ lmdb'[e] <= db' /\ refused'[e] <= db'
                 /\ \A i \in 1..Len(wire'[e]) : wire'[e][i] <= db'
      BY <1>s, <1>f DEF BaseInv, Bounds
    <3> QED BY <1>f, <3>1, <3>2 DEF Bounds
  <2>4. LoopPlaces'
    <3>1. \A w \in Workers : snapshot'[w] = snapshot[w]
      BY <1>f, WhoExports
    <3>2. ASSUME NEW w \in Workers
          PROVE  unpushed[w] => unpushed'[w]
      BY <1>s
    <3>3. LoopPlaces /\ UNCHANGED <<db, notices, posts, loop>>
      BY <1>f DEF BaseInv, Places
    <3> HIDE DEF Rest
    <3> QED BY <3>1, <3>2, <3>3 DEF LoopPlaces
  <2>5. ConnPlaces'
    <3>1. ASSUME NEW e \in DataPlanes, e # d
          PROVE  /\ conn'[e] = "exporting" <=> snapshot'[e] # 0
                 /\ conn'[e] # "up" => marks'[e] = 0 /\ wire'[e] = <<>> /\ next'[e] = 0
                 /\ conn'[e] # "down" \/ loading[e] # 0 => at'[e] \in Workers
                 /\ marks'[e] > 0 => payload'[at'[e]] # 0
      <4>1. /\ at'[e] = at[e] /\ conn'[e] = conn[e] /\ marks'[e] = marks[e]
            /\ wire'[e] = wire[e] /\ next'[e] = next[e] /\ snapshot'[e] = snapshot[e]
        BY <1>s, <1>f, <3>1, WhoExports
      <4>2. marks[e] > 0 => payload'[at[e]] # 0
        <5>1. marks[e] > 0 => at[e] \in Workers /\ payload[at[e]] # 0
          BY MarkedIsUp
        <5> QED BY <1>s, <5>1
      <4> QED BY <1>p, <4>1, <4>2 DEF ConnPlaces
    <3> QED BY <1>s, <1>f, <3>1 DEF ConnPlaces
  <2> QED BY <2>1, <2>2, <2>3, <2>4, <2>5 DEF BaseInv, Types, Places
<1>1. ASSUME NEW v \in Workers, ConnectExports(d, v)
      PROVE  Rest
  <2>1. /\ UNCHANGED <<payload, overtaken, unpushed, wire, dp, marks>> /\ conn[d] = "down"
        /\ at' = [at EXCEPT ![d] = v] /\ conn' = [conn EXCEPT ![d] = "exporting"]
        /\ snapshot' = [snapshot EXCEPT ![d] = db]
    BY <1>1 DEF ConnectExports, CanConnect
  <2>2. at'[d] = v /\ conn'[d] = "exporting" /\ snapshot'[d] = db /\ db # 0
    BY <1>t, <2>1, HybridSyncAssumption DEF BaseInv, Types, ControlTypes
  <2> QED BY <1>t, <1>p, <2>1, <2>2 DEF ConnPlaces, dp
<1>2. ASSUME NEW v \in Workers, Connect(d, v)
      PROVE  Rest
  <2>1. /\ UNCHANGED <<payload, overtaken, unpushed, wire, dp, snapshot>>
        /\ conn[d] = "down" /\ payload[v] # 0
        /\ at' = [at EXCEPT ![d] = v] /\ conn' = [conn EXCEPT ![d] = "up"]
    BY <1>2 DEF Connect, Register, CanConnect
  <2>2. at'[d] = v /\ conn'[d] = "up"
    BY <1>t, <2>1
  <2> QED BY <1>t, <1>p, <2>1, <2>2 DEF ConnPlaces, dp
<1>3. CASE ExportEnds(d)
  <2>1. /\ UNCHANGED <<unpushed, wire, dp, at>> /\ conn[d] = "exporting"
        /\ conn' = [conn EXCEPT ![d] = "up"] /\ snapshot' = [snapshot EXCEPT ![d] = 0]
        /\ payload' = [payload EXCEPT ![at[d]] = snapshot[d]]
        /\ overtaken' = [overtaken EXCEPT ![at[d]] = @ \/ snapshot[d] < payload[at[d]]]
    BY <1>3 DEF ExportEnds, Publish, Register
  <2>2. at[d] \in Workers /\ snapshot[d] # 0 /\ snapshot[d] \in Nat /\ snapshot[d] <= db
    BY <1>t, <1>p, <2>1 DEF ConnPlaces
  <2>3. /\ payload' \in [Workers -> Nat] /\ payload'[at[d]] # 0
        /\ \A w \in Workers : payload'[w] <= db /\ (payload[w] # 0 => payload'[w] # 0)
    BY <1>t, <1>p, <2>1, <2>2
  <2>4. overtaken' \in [Workers -> BOOLEAN]
    BY <1>t, <2>1, <2>2
  <2>5. conn'[d] = "up" /\ snapshot'[d] = 0
    BY <1>t, <2>1
  <2> QED BY <1>t, <1>p, <2>1, <2>2, <2>3, <2>4, <2>5 DEF dp
<1>4. CASE Send(d)
  <2> DEFINE s == Append(wire[d], payload[at[d]])
  <2>0. /\ UNCHANGED <<payload, overtaken, unpushed, dp, snapshot, conn, at>>
        /\ wire' = [wire EXCEPT ![d] = s] /\ conn[d] = "up" /\ marks[d] > 0
    BY <1>4 DEF Send
  <2>1. at[d] \in Workers /\ payload[at[d]] \in Nat /\ payload[at[d]] <= db /\ wire[d] \in Seq(Nat)
    BY <1>t, <1>p, <2>0 DEF ConnPlaces
  <2>2. /\ s \in Seq(Nat) /\ Len(s) = Len(wire[d]) + 1 /\ Len(wire[d]) \in Nat
        /\ \A i \in 1..Len(wire[d]) : s[i] = wire[d][i]
        /\ s[Len(wire[d]) + 1] = payload[at[d]]
    BY <2>1, AppendFacts
  <2>3. \A i \in 1..Len(s) : s[i] <= db
    <3> HIDE DEF s
    <3>1. \A i \in 1..Len(s) : i \in 1..Len(wire[d]) \/ i = Len(wire[d]) + 1
      BY <2>2
    <3> QED BY <1>p, <2>1, <2>2, <3>1
  <2> HIDE DEF s
  <2>4. wire'[d] = s /\ wire' \in [DataPlanes -> Seq(Nat)]
        /\ \A e \in DataPlanes \ {d} : wire'[e] = wire[e]
    BY <1>t, <2>0, <2>2
  <2>5. payload[at[d]] # 0
    BY <1>p, <2>0 DEF ConnPlaces
  <2> QED BY <1>t, <1>p, <2>0, <2>1, <2>3, <2>4, <2>5 DEF dp, ConnPlaces
<1>5. CASE ExportFails(d)
  <2>1. /\ UNCHANGED <<payload, overtaken, wire, dp, at>> /\ conn[d] = "exporting"
        /\ conn' = [conn EXCEPT ![d] = "up"] /\ snapshot' = [snapshot EXCEPT ![d] = 0]
        /\ unpushed' = [unpushed EXCEPT ![at[d]] = TRUE]
        /\ payload[at[d]] # 0 \/ marks' = marks
    BY <1>5 DEF ExportFails, Register
  <2>2. at[d] \in Workers /\ marks[d] = 0
    BY <1>t, <1>p, <2>1 DEF ConnPlaces
  <2>3. unpushed' \in [Workers -> BOOLEAN] /\ \A w \in Workers : unpushed[w] => unpushed'[w]
    BY <1>t, <2>1, <2>2
  <2>4. conn'[d] = "up" /\ snapshot'[d] = 0
    BY <1>t, <2>1
  <2> QED BY <1>t, <1>p, <2>1, <2>2, <2>3, <2>4 DEF dp
<1>6. CASE Break(d)
  <2>1. /\ UNCHANGED <<payload, overtaken, unpushed, snapshot, at>> /\ conn[d] = "up"
        /\ conn' = [conn EXCEPT ![d] = "down"] /\ marks' = [marks EXCEPT ![d] = 0]
        /\ wire' = [wire EXCEPT ![d] = <<>>] /\ next' = [next EXCEPT ![d] = 0]
        /\ wakeups' = [wakeups EXCEPT ![d] = 0]
    BY <1>6 DEF Break
  <2>2. /\ wire' \in [DataPlanes -> Seq(Nat)] /\ wire'[d] = <<>> /\ Len(wire'[d]) = 0
        /\ \A e \in DataPlanes \ {d} : wire'[e] = wire[e]
    BY <1>t, <2>1, NoneIsEmpty
  <2>3. /\ next' \in [DataPlanes -> Nat] /\ next'[d] = 0
        /\ wakeups' \in [DataPlanes -> 0..2]
        /\ \A e \in DataPlanes \ {d} : next'[e] = next[e]
    BY <1>t, <2>1
  <2>4. conn'[d] = "down" /\ marks'[d] = 0
    BY <1>t, <2>1
  <2> QED BY <1>t, <1>p, <2>1, <2>2, <2>3, <2>4 DEF ConnPlaces
<1> QED BY <1>1, <1>2, <1>3, <1>4, <1>5, <1>6 DEF Connection

(* What a data plane does concerns its own configurations.                 *)
LEMMA DataFacts ==
  ASSUME NEW d \in DataPlanes, DataStep(d) \/ LoadFails(d)
  PROVE  /\ UNCHANGED <<db, notices, posts, loop, snapshot, payload, at, conn, marks,
                        overtaken, unpushed>>
         /\ UNCHANGED failures \/ (failures < MaxFailures /\ failures' = failures + 1)
  BY DEF DataStep, Receive, Take, Load, LoadFails, Fails, cp

LEMMA DataKeepsBase ==
  ASSUME BaseInv, NEW d \in DataPlanes, DataStep(d) \/ LoadFails(d)
  PROVE  BaseInv'
<1>u. /\ UNCHANGED <<db, notices, posts, loop, snapshot, payload, at, conn, marks,
                     overtaken, unpushed>>
      /\ failures' \in 0..MaxFailures
  BY DataFacts, HybridSyncAssumption DEF BaseInv, Types, ControlTypes
<1>t. /\ DataTypes /\ db \in Nat
      /\ wire \in [DataPlanes -> Seq(Nat)]
      /\ next \in [DataPlanes -> Nat] /\ loading \in [DataPlanes -> Nat]
      /\ lmdb \in [DataPlanes -> Nat] /\ refused \in [DataPlanes -> Nat]
      /\ wakeups \in [DataPlanes -> 0..2]
      /\ from \in [DataPlanes -> Workers \cup {Nobody}]
      /\ at \in [DataPlanes -> Workers \cup {Nobody}]
  BY HybridSyncAssumption DEF BaseInv, Types, ControlTypes, DataTypes
<1>p. /\ ConnPlaces /\ Bounds
  BY DEF BaseInv, Places
<1> DEFINE Small(e) ==
             /\ next'[e] <= db /\ loading'[e] <= db /\ lmdb'[e] <= db /\ refused'[e] <= db
             /\ \A i \in 1..Len(wire'[e]) : wire'[e][i] <= db
           Rest ==
             /\ DataTypes'
             /\ \A e \in DataPlanes : Small(e)
             /\ \A e \in DataPlanes :
                  /\ conn[e] # "up" => wire'[e] = <<>> /\ next'[e] = 0
                  /\ loading'[e] # 0 => at[e] \in Workers
<1>s. SUFFICES Rest
  <2>1. ControlTypes'
    BY <1>u DEF BaseInv, Types, ControlTypes
  <2>2. Bounds'
    BY <1>s, <1>u, <1>p DEF Bounds
  <2>3. LoopPlaces' /\ ConnPlaces'
    BY <1>s, <1>u DEF BaseInv, Places, LoopPlaces, ConnPlaces
  <2> QED BY <1>s, <2>1, <2>2, <2>3 DEF BaseInv, Types, Places
<1>1. CASE Receive(d)
  <2> DEFINE h == Head(wire[d])
             s == Tail(wire[d])
             w == IF wakeups[d] - (IF loading[d] = 0 THEN 1 ELSE 0) <= 0
                  THEN wakeups[d] + 1 ELSE wakeups[d]
  <2>1. /\ h \in Nat /\ h = wire[d][1] /\ s \in Seq(Nat)
        /\ Len(wire[d]) \in Nat \ {0} /\ Len(s) = Len(wire[d]) - 1
        /\ \A i \in 1..Len(s) : i + 1 \in 1..Len(wire[d]) /\ s[i] = wire[d][i + 1]
    <3>1. wire[d] \in Seq(Nat) /\ wire[d] # <<>>
      BY <1>t, <1>1 DEF Receive
    <3> QED BY <3>1, TailFacts
  <2>2. /\ wire' = [wire EXCEPT ![d] = s] /\ next' = [next EXCEPT ![d] = h]
        /\ wakeups' = [wakeups EXCEPT ![d] = w]
        /\ UNCHANGED <<loading, lmdb, refused, from>> /\ wire[d] # <<>>
    BY <1>1 DEF Receive
  <2>3. h <= db /\ \A i \in 1..Len(s) : s[i] <= db
    <3>1. \A i \in 1..Len(wire[d]) : wire[d][i] <= db
      BY <1>p DEF Bounds
    <3> HIDE DEF h, s
    <3>2. 1 \in 1..Len(wire[d])
      BY <2>1
    <3> QED BY <2>1, <3>1, <3>2
  <2>4. w \in 0..2
    BY <1>t
  <2>5. conn[d] = "up"
    BY <1>p, <2>2 DEF ConnPlaces
  <2> HIDE DEF h, s, w
  <2>6. DataTypes'
    <3>1. wire' \in [DataPlanes -> Seq(Nat)]
      BY <1>t, <2>1, <2>2
    <3>2. next' \in [DataPlanes -> Nat]
      BY <1>t, <2>1, <2>2
    <3>3. wakeups' \in [DataPlanes -> 0..2]
      BY <1>t, <2>4, <2>2
    <3> QED BY <1>t, <2>2, <3>1, <3>2, <3>3 DEF DataTypes
  <2>7. /\ wire'[d] = s /\ next'[d] = h
        /\ \A e \in DataPlanes \ {d} : wire'[e] = wire[e] /\ next'[e] = next[e]
    BY <1>t, <2>2
  <2>8. \A e \in DataPlanes : Small(e)
    BY <1>p, <2>2, <2>3, <2>7 DEF Bounds
  <2> HIDE DEF Small
  <2> QED BY <1>p, <2>2, <2>5, <2>6, <2>7, <2>8 DEF ConnPlaces
<1>2. CASE Take(d)
  <2>1. /\ wakeups[d] > 0 /\ wakeups' = [wakeups EXCEPT ![d] = @ - 1]
        /\ loading' = [loading EXCEPT ![d] = next[d]]
        /\ UNCHANGED <<wire, next, lmdb, refused, from>>
    BY <1>2 DEF Take
  <2>2. wakeups' \in [DataPlanes -> 0..2] /\ loading' \in [DataPlanes -> Nat]
    BY <1>t, <2>1
  <2>3. loading'[d] = next[d] /\ \A e \in DataPlanes \ {d} : loading'[e] = loading[e]
    BY <1>t, <2>1
  <2>4. DataTypes'
    BY <1>t, <2>1, <2>2 DEF DataTypes
  <2>5. \A e \in DataPlanes : Small(e)
    BY <1>p, <2>1, <2>3 DEF Bounds
  <2>6. next[d] # 0 => at[d] \in Workers
    BY <1>p DEF ConnPlaces
  <2> HIDE DEF Small
  <2> QED BY <1>p, <2>1, <2>3, <2>4, <2>5, <2>6 DEF ConnPlaces
<1>3. CASE Load(d) \/ LoadFails(d)
  <2>1. /\ \/ lmdb' = lmdb /\ from' = from /\ refused' = [refused EXCEPT ![d] = loading[d]]
           \/ /\ lmdb' = [lmdb EXCEPT ![d] = loading[d]] /\ from' = [from EXCEPT ![d] = at[d]]
              /\ refused' = [refused EXCEPT ![d] = 0]
        /\ loading' = [loading EXCEPT ![d] = 0]
        /\ next' = [next EXCEPT ![d] = IF @ = loading[d] THEN 0 ELSE @]
        /\ UNCHANGED <<wire, wakeups>>
    BY <1>3 DEF Load, LoadFails, Done
  <2>a. lmdb' \in [DataPlanes -> Nat]
    <3>1. lmdb' = lmdb \/ lmdb' = [lmdb EXCEPT ![d] = loading[d]]
      BY <2>1
    <3> QED BY <1>t, <3>1
  <2>b. refused' \in [DataPlanes -> Nat]
    <3>1. refused' = [refused EXCEPT ![d] = 0] \/ refused' = [refused EXCEPT ![d] = loading[d]]
      BY <2>1
    <3>2. /\ [refused EXCEPT ![d] = 0] \in [DataPlanes -> Nat]
          /\ [refused EXCEPT ![d] = loading[d]] \in [DataPlanes -> Nat]
      BY <1>t
    <3> QED BY <3>1, <3>2
  <2>2. lmdb' \in [DataPlanes -> Nat] /\ refused' \in [DataPlanes -> Nat]
    BY <2>a, <2>b
  <2>3. from' \in [DataPlanes -> Workers \cup {Nobody}]
    BY <1>t, <2>1
  <2>4. next' \in [DataPlanes -> Nat] /\ loading' \in [DataPlanes -> Nat]
    BY <1>t, <2>1
  <2>5. DataTypes'
    BY <1>t, <2>1, <2>2, <2>3, <2>4 DEF DataTypes
  <2>6. \A e \in DataPlanes :
          /\ lmdb'[e] = lmdb[e] \/ lmdb'[e] = loading[e]
          /\ refused'[e] = refused[e] \/ refused'[e] = loading[e] \/ refused'[e] = 0
          /\ loading'[e] = loading[e] \/ loading'[e] = 0
          /\ next'[e] = next[e] \/ next'[e] = 0
    <3>1. \A e \in DataPlanes : lmdb'[e] = lmdb[e] \/ lmdb'[e] = loading[e]
      BY <1>t, <2>1
    <3>2. \A e \in DataPlanes :
            refused'[e] = refused[e] \/ refused'[e] = loading[e] \/ refused'[e] = 0
      BY <1>t, <2>1
    <3>3. \A e \in DataPlanes : /\ loading'[e] = loading[e] \/ loading'[e] = 0
                                /\ next'[e] = next[e] \/ next'[e] = 0
      BY <1>t, <2>1
    <3> QED BY <3>1, <3>2, <3>3
  <2>7. \A e \in DataPlanes : Small(e)
    BY <1>t, <1>p, <2>1, <2>6 DEF Bounds
  <2> HIDE DEF Small
  <2> QED BY <1>p, <2>1, <2>5, <2>6, <2>7 DEF ConnPlaces
<1> QED BY <1>1, <1>2, <1>3 DEF DataStep

LEMMA BaseStep == BaseInv /\ [Next]_vars => BaseInv'
<1> SUFFICES ASSUME BaseInv, [Next]_vars PROVE BaseInv'
  OBVIOUS
<1>1. CASE UNCHANGED vars
  BY <1>1 DEF vars, cp, dp, BaseInv, Types, ControlTypes, DataTypes, Bounds, Places,
              LoopPlaces, ConnPlaces
<1>2. CASE Next
  BY <1>1, <1>2, WriteKeepsBase, ControlKeepsBase, RestartKeepsBase, ConnectionKeepsBase,
     DataKeepsBase
  DEF Next
<1> QED BY <1>1, <1>2

LEMMA BaseHolds == Spec => []BaseInv
  BY BaseInit, BaseStep, PTL DEF Spec

(* Every state has its types: the semaphores stay within their limits, as  *)
(* concurrency of posts and waits in control_plane.lua and data_plane.lua  *)
(* demands, and a thread's place agrees with what it holds.                *)
THEOREM TypeCorrect == Spec => []TypeOK
<1>1. ASSUME BaseInv PROVE TypeOK
  <2>1. \A v \in Workers :
          /\ payload[v] \in 0..db /\ notices[v] \in 0..db
          /\ loop[v] \in {"start", "exporting", "waiting", "sleeping"}
          /\ posts[v] \in 0..(IF loop[v] = "waiting" THEN 2 ELSE 1)
    <3> SUFFICES ASSUME NEW v \in Workers
                 PROVE  /\ payload[v] \in 0..db /\ notices[v] \in 0..db
                        /\ loop[v] \in {"start", "exporting", "waiting", "sleeping"}
                        /\ posts[v] \in 0..(IF loop[v] = "waiting" THEN 2 ELSE 1)
      OBVIOUS
    <3>1. /\ payload[v] \in Nat /\ notices[v] \in Nat /\ posts[v] \in 0..2 /\ db \in Nat
          /\ loop[v] \in {"start", "exporting", "waiting", "sleeping"}
      BY <1>1, HybridSyncAssumption DEF BaseInv, Types, ControlTypes
    <3>2. payload[v] <= db /\ notices[v] <= db /\ (loop[v] # "waiting" => posts[v] <= 1)
      BY <1>1 DEF BaseInv, Bounds, Places, LoopPlaces
    <3> QED BY <3>1, <3>2
  <2>2. \A x \in Exporters : snapshot[x] \in 0..db
    BY <1>1 DEF BaseInv, Types, ControlTypes, Bounds
  <2>3. \A d \in DataPlanes :
          /\ conn[d] \in {"down", "exporting", "up"}
          /\ conn[d] = "exporting" <=> snapshot[d] # 0
          /\ conn[d] # "down" => at[d] \in Workers
          /\ conn[d] # "up" => marks[d] = 0 /\ wire[d] = <<>> /\ next[d] = 0
    BY <1>1 DEF BaseInv, Types, ControlTypes, Places, ConnPlaces
  <2>4. \A d \in DataPlanes :
          wakeups[d] \in 0..2 /\ {next[d], loading[d], lmdb[d], refused[d]} \subseteq 0..db
    BY <1>1 DEF BaseInv, Types, ControlTypes, DataTypes, Bounds
  <2>5. db \in 1..MaxWrites /\ failures \in 0..MaxFailures
    BY <1>1 DEF BaseInv, Types, ControlTypes
  <2> QED BY <2>1, <2>2, <2>3, <2>4, <2>5 DEF TypeOK
<1> QED BY <1>1, BaseHolds, PTL

-----------------------------------------------------------------------------
(* What a step does to the wire *)

LEMMA SendFacts ==
  ASSUME BaseInv, NEW d \in DataPlanes, Send(d)
  PROVE  /\ Len(wire[d]) \in Nat /\ Len(wire'[d]) = Len(wire[d]) + 1
         /\ \A i \in 1..Len(wire[d]) : wire'[d][i] = wire[d][i]
         /\ wire'[d][Len(wire'[d])] = payload[at[d]]
         /\ wire'[d] # <<>>
         /\ \A e \in DataPlanes \ {d} : wire'[e] = wire[e]
         /\ at[d] \in Workers /\ payload[at[d]] \in Nat \ {0} /\ conn[d] = "up"
         /\ UNCHANGED <<payload, snapshot, at, conn, next, loading, lmdb, refused, from, overtaken,
                        unpushed>>
<1>1. wire[d] \in Seq(Nat) /\ wire \in [DataPlanes -> Seq(Nat)]
  BY DEF BaseInv, Types, DataTypes
<1>2. /\ wire' = [wire EXCEPT ![d] = Append(wire[d], payload[at[d]])]
      /\ conn[d] = "up" /\ marks[d] > 0
      /\ UNCHANGED <<payload, snapshot, at, conn, next, loading, lmdb, refused, from, overtaken,
                     unpushed>>
  BY DEF Send, dp
<1>3. wire'[d] = Append(wire[d], payload[at[d]])
  BY <1>1, <1>2
<1>4. \A e \in DataPlanes \ {d} : wire'[e] = wire[e]
  BY <1>1, <1>2
<1>5. at[d] \in Workers /\ payload[at[d]] \in Nat \ {0}
  BY <1>2 DEF BaseInv, Types, ControlTypes, Places, ConnPlaces
<1>6. /\ Append(wire[d], payload[at[d]]) # <<>>
      /\ Len(wire[d]) \in Nat /\ Len(Append(wire[d], payload[at[d]])) = Len(wire[d]) + 1
      /\ \A i \in 1..Len(wire[d]) : Append(wire[d], payload[at[d]])[i] = wire[d][i]
      /\ Append(wire[d], payload[at[d]])[Len(wire[d]) + 1] = payload[at[d]]
  BY <1>1, <1>5, AppendFacts
<1> QED BY <1>2, <1>3, <1>4, <1>5, <1>6

LEMMA ReceiveFacts ==
  ASSUME BaseInv, NEW d \in DataPlanes, Receive(d)
  PROVE  /\ next'[d] = wire[d][1] /\ next'[d] \in Nat
         /\ Len(wire[d]) \in Nat \ {0} /\ Len(wire'[d]) = Len(wire[d]) - 1
         /\ \A i \in 1..Len(wire'[d]) : wire'[d][i] = wire[d][i + 1]
         /\ wire'[d] # <<>> => Len(wire'[d]) > 0
         /\ wire'[d] = <<>> => Len(wire[d]) = 1
         /\ \A e \in DataPlanes \ {d} : wire'[e] = wire[e] /\ next'[e] = next[e]
<1>1. /\ wire[d] \in Seq(Nat) /\ wire \in [DataPlanes -> Seq(Nat)]
      /\ next \in [DataPlanes -> Nat]
  BY DEF BaseInv, Types, DataTypes
<1>2. /\ wire' = [wire EXCEPT ![d] = Tail(wire[d])] /\ wire[d] # <<>>
      /\ next' = [next EXCEPT ![d] = Head(wire[d])]
  BY DEF Receive
<1>3. wire'[d] = Tail(wire[d]) /\ next'[d] = Head(wire[d])
  BY <1>1, <1>2
<1>4. \A e \in DataPlanes \ {d} : wire'[e] = wire[e] /\ next'[e] = next[e]
  BY <1>1, <1>2
<1> QED BY <1>1, <1>2, <1>3, <1>4, TailFacts

-----------------------------------------------------------------------------
(* The slot of the config thread *)

LEMMA WatchInit == Init => WatchInv
  BY DEF Init, WatchInv

LEMMA WatchStep == BaseInv /\ WatchInv /\ [Next]_vars => WatchInv'
<1> SUFFICES ASSUME BaseInv, WatchInv, [Next]_vars PROVE WatchInv'
  OBVIOUS
<1>t. /\ next \in [DataPlanes -> Nat] /\ loading \in [DataPlanes -> Nat]
      /\ wakeups \in [DataPlanes -> 0..2]
  BY DEF BaseInv, Types, DataTypes
<1>1. ASSUME NEW v \in Workers, ControlStep(v) \/ LoopExportFails(v)
      PROVE  WatchInv'
  BY <1>1 DEF ControlStep, LoopExportFails, Notice, LoopStarts, LoopStarted,
              LoopTakes, LoopRequeues, LoopPushes, WatchInv, dp
<1>2. ASSUME NEW v \in Workers, Restart(v) PROVE WatchInv'
  BY <1>2, RestartFacts DEF WatchInv
<1>3. ASSUME NEW d \in DataPlanes, Connection(d) \/ ExportFails(d)
      PROVE  WatchInv'
  BY <1>3 DEF Connection, ConnectExports, Connect, ExportEnds, Send, ExportFails, WatchInv, dp
<1>4. ASSUME NEW d \in DataPlanes, Break(d) PROVE WatchInv'
  BY <1>t, <1>4 DEF Break, WatchInv
<1>5. ASSUME NEW d \in DataPlanes, Receive(d) PROVE WatchInv'
  <2>1. wakeups'[d] > 0
    <3> DEFINE w == IF wakeups[d] - (IF loading[d] = 0 THEN 1 ELSE 0) <= 0
                    THEN wakeups[d] + 1 ELSE wakeups[d]
    <3>1. wakeups'[d] = w
      BY <1>t, <1>5 DEF Receive
    <3>2. wakeups[d] \in 0..2
      BY <1>t
    <3>3. w > 0
      BY <3>2
    <3> QED BY <3>1, <3>3
  <2>2. \A e \in DataPlanes \ {d} :
          next'[e] = next[e] /\ wakeups'[e] = wakeups[e] /\ loading'[e] = loading[e]
    BY <1>t, <1>5 DEF Receive
  <2> QED BY <2>1, <2>2 DEF WatchInv
<1>6. ASSUME NEW d \in DataPlanes, Take(d) PROVE WatchInv'
  BY <1>t, <1>6 DEF Take, WatchInv
<1>7. ASSUME NEW d \in DataPlanes, Load(d) \/ LoadFails(d) PROVE WatchInv'
  BY <1>t, <1>7 DEF Load, LoadFails, Done, WatchInv
<1>8. CASE UNCHANGED vars
  BY <1>8 DEF vars, dp, WatchInv
<1>9. CASE Write \/ PostFails
  BY <1>9 DEF Write, PostFails, WatchInv, dp
<1> QED BY <1>1, <1>2, <1>3, <1>4, <1>5, <1>6, <1>7, <1>8, <1>9 DEF Next, DataStep

(* The config thread of a data plane always has a wake-up for the          *)
(* configuration in its slot: none waits there unseen because it arrived   *)
(* while another was loaded.                                               *)
THEOREM SlotAlwaysWatched == Spec => []SlotIsWatched
<1>1. WatchInv => SlotIsWatched
  BY DEF WatchInv, SlotIsWatched
<1> QED BY <1>1, BaseHolds, WatchInit, WatchStep, PTL DEF Spec

-----------------------------------------------------------------------------
(* The order of the configurations *)

LEMMA OrderInit == Init => OrderInv
<1> SUFFICES ASSUME Init, NEW d \in DataPlanes PROVE at[d] \notin Workers /\ from[d] \notin Workers
  BY DEF OrderInv, Order
<1> QED BY HybridSyncAssumption DEF Init

LEMMA CoversTypes ==
  ASSUME BaseInv
  PROVE  /\ payload \in [Workers -> Nat] /\ snapshot \in [Exporters -> Nat] /\ db \in Nat
         /\ overtaken \in [Workers -> BOOLEAN]
         /\ at \in [DataPlanes -> Workers \cup {Nobody}]
         /\ \A v \in Workers : payload[v] <= db
         /\ \A x \in Exporters : snapshot[x] <= db
  BY HybridSyncAssumption DEF BaseInv, Types, ControlTypes, Bounds

(* Worker v publishes nothing older than what it could have published.     *)
LEMMA PublishCovers ==
  ASSUME BaseInv, NEW v \in Workers, NEW u \in Workers, NEW c \in Nat, Covers(v, c), ~overtaken'[v],
         NEW x \in Exports(u), snapshot[x] # 0, Publish(u, x), at' = at
  PROVE  Covers(v, c)' /\ ~overtaken[v]
<1>t. /\ payload \in [Workers -> Nat] /\ snapshot \in [Exporters -> Nat]
      /\ overtaken \in [Workers -> BOOLEAN]
      /\ x \in Exporters /\ \A w \in Workers : Exports(w) \subseteq Exporters
  BY CoversTypes, WhoExports DEF Exports
<1>p. /\ payload' = [payload EXCEPT ![u] = snapshot[x]]
      /\ overtaken' = [overtaken EXCEPT ![u] = @ \/ snapshot[x] < payload[u]]
      /\ snapshot' = [snapshot EXCEPT ![x] = 0]
  BY DEF Publish
<1>1. CASE u = v
  <2>1. payload'[v] = snapshot[x]
    BY <1>t, <1>p, <1>1
  <2>2. ~overtaken[v] /\ ~(snapshot[x] < payload[v])
    BY <1>t, <1>p, <1>1
  <2>3. c <= snapshot[x]
    BY <1>t, <1>1, <2>2 DEF Covers
  <2> QED BY <2>1, <2>2, <2>3 DEF Covers
<1>2. CASE u # v
  <2>1. payload'[v] = payload[v] /\ ~overtaken[v]
    BY <1>t, <1>p, <1>2
  <2>2. x \notin Exports(v)
    BY <1>2, WhoExports DEF Exports
  <2>3. \A y \in Exports(v) : snapshot'[y] = snapshot[y]
    BY <1>t, <1>p, <2>2
  <2>4. Exports(v)' = Exports(v)
    BY DEF Exports
  <2> QED BY <2>1, <2>3, <2>4 DEF Covers
<1> QED BY <1>1, <1>2

(* An export begins with the newest configuration there is, or ends        *)
(* without a result.                                                       *)
LEMMA SnapshotCovers ==
  ASSUME BaseInv, NEW v \in Workers, NEW c \in 0..db, Covers(v, c),
         NEW x \in Exporters, NEW n \in {0, db}, snapshot' = [snapshot EXCEPT ![x] = n],
         payload' = payload, Exports(v)' \subseteq Exports(v) \cup {x}
  PROVE  Covers(v, c)'
<1>t. /\ payload \in [Workers -> Nat] /\ snapshot \in [Exporters -> Nat] /\ db \in Nat
      /\ Exports(v) \subseteq Exporters
  BY CoversTypes, WhoExports DEF Exports
<1>1. \A y \in Exports(v)' : snapshot'[y] # 0 => c <= snapshot'[y] \/ payload[v] # 0
  <2> SUFFICES ASSUME NEW y \in Exports(v)', snapshot'[y] # 0, payload[v] = 0
               PROVE  c <= snapshot'[y]
    OBVIOUS
  <2>1. CASE y = x
    BY <1>t, <2>1
  <2>2. CASE y # x
    <3>1. y \in Exports(v) /\ snapshot'[y] = snapshot[y]
      BY <1>t, <2>2
    <3> QED BY <3>1 DEF Covers
  <2> QED BY <2>1, <2>2
<1> QED BY <1>1 DEF Covers

(* No step lets a worker publish something older.                          *)
LEMMA CoversStep ==
  ASSUME BaseInv, [Next]_vars, NEW v \in Workers, ~overtaken'[v], NEW c \in 0..db, Covers(v, c)
  PROVE  Covers(v, c)' /\ ~overtaken[v]
<1>t. /\ payload \in [Workers -> Nat] /\ snapshot \in [Exporters -> Nat] /\ db \in Nat
      /\ overtaken \in [Workers -> BOOLEAN] /\ c \in Nat
      /\ at \in [DataPlanes -> Workers \cup {Nobody}]
      /\ \A w \in Workers : Exports(w) \subseteq Exporters /\ w \in Exports(w)
      /\ Workers \subseteq Exporters /\ DataPlanes \subseteq Exporters
  BY CoversTypes, WhoExports DEF Exports
<1>1. CASE UNCHANGED <<payload, snapshot, at, overtaken>>
  <2>1. Exports(v)' = Exports(v)
    BY <1>1 DEF Exports
  <2> QED BY <1>1, <2>1 DEF Covers
<1>2. CASE Write \/ PostFails
  BY <1>1, <1>2 DEF Write, PostFails
<1>3. ASSUME NEW u \in Workers, Notice(u) \/ LoopRequeues(u)
      PROVE  Covers(v, c)' /\ ~overtaken[v]
  BY <1>1, <1>3 DEF Notice, LoopRequeues
<1>4. ASSUME NEW u \in Workers, LoopStarts(u) \/ LoopExportFails(u) \/ LoopTakes(u)
      PROVE  Covers(v, c)' /\ ~overtaken[v]
  <2>1. UNCHANGED <<payload, at, overtaken>>
    BY <1>4 DEF LoopStarts, LoopExportFails, LoopTakes
  <2>2. CASE snapshot' = snapshot
    BY <1>1, <2>1, <2>2
  <2>3. snapshot' \in {snapshot, [snapshot EXCEPT ![u] = db], [snapshot EXCEPT ![u] = 0]}
    <3>1. CASE LoopTakes(u)
      <4>1. CASE Clients(u) = {}
        <5>1. snapshot' = [snapshot EXCEPT ![u] = snapshot[u]]
          BY <3>1, <4>1 DEF LoopTakes
        <5> QED BY <1>t, <5>1
      <4>2. CASE Clients(u) # {}
        BY <3>1, <4>2 DEF LoopTakes
      <4> QED BY <4>1, <4>2
    <3> QED BY <1>4, <3>1 DEF LoopStarts, LoopExportFails
  <2>4. Exports(v)' \subseteq Exports(v) \cup {u}
    BY <2>1 DEF Exports
  <2> QED BY <1>t, <2>1, <2>2, <2>3, <2>4, SnapshotCovers
<1>5. ASSUME NEW u \in Workers, LoopStarted(u) \/ LoopPushes(u)
      PROVE  Covers(v, c)' /\ ~overtaken[v]
  <2>1. snapshot[u] # 0 /\ Publish(u, u) /\ at' = at
    BY <1>5 DEF LoopStarted, LoopPushes, BaseInv, Places, LoopPlaces
  <2> QED BY <1>t, <2>1, PublishCovers
<1>6. ASSUME NEW u \in Workers, Restart(u) PROVE Covers(v, c)' /\ ~overtaken[v]
  <2>1. UNCHANGED <<at, overtaken>> /\ payload' = [payload EXCEPT ![u] = 0]
        /\ (\A x \in Exports(u) : snapshot'[x] = 0)
        /\ \A x \in Exporters \ Exports(u) : snapshot'[x] = snapshot[x]
    BY <1>6, RestartFacts
  <2>2. Exports(v)' = Exports(v)
    BY <2>1 DEF Exports
  <2>3. CASE u = v
    BY <1>t, <2>1, <2>2, <2>3 DEF Covers
  <2>4. CASE u # v
    <3>1. payload'[v] = payload[v]
      BY <1>t, <2>1, <2>4
    <3>2. \A x \in Exports(v) : x \notin Exports(u)
      BY <2>4, WhoExports DEF Exports
    <3>3. \A x \in Exports(v) : snapshot'[x] = snapshot[x]
      BY <1>t, <2>1, <3>2
    <3> QED BY <2>1, <2>2, <3>1, <3>3 DEF Covers
  <2> QED BY <2>3, <2>4
<1>7. ASSUME NEW d \in DataPlanes, NEW u \in Workers, ConnectExports(d, u)
      PROVE  Covers(v, c)' /\ ~overtaken[v]
  <2>1. /\ UNCHANGED <<payload, overtaken>> /\ snapshot' = [snapshot EXCEPT ![d] = db]
        /\ at' = [at EXCEPT ![d] = u]
    BY <1>7 DEF ConnectExports
  <2>2. Exports(v)' \subseteq Exports(v) \cup {d}
    BY <1>t, <2>1 DEF Exports
  <2> QED BY <1>t, <2>1, <2>2, SnapshotCovers
<1>8. ASSUME NEW d \in DataPlanes, NEW u \in Workers, Connect(d, u)
      PROVE  Covers(v, c)' /\ ~overtaken[v]
  <2>1. /\ UNCHANGED <<payload, overtaken, snapshot>> /\ conn[d] = "down"
        /\ at' = [at EXCEPT ![d] = u]
    BY <1>8 DEF Connect, CanConnect
  <2>2. snapshot[d] = 0
    BY <2>1 DEF BaseInv, Places, ConnPlaces
  <2>3. Exports(v)' \subseteq Exports(v) \cup {d}
    BY <1>t, <2>1 DEF Exports
  <2>4. \A x \in Exports(v)' : snapshot[x] # 0 => x \in Exports(v)
    BY <2>2, <2>3
  <2> QED BY <2>1, <2>4 DEF Covers
<1>9. ASSUME NEW d \in DataPlanes, ExportEnds(d)
      PROVE  Covers(v, c)' /\ ~overtaken[v]
  <2>1. snapshot[d] # 0 /\ at[d] \in Workers /\ Publish(at[d], d) /\ at' = at
    BY <1>9 DEF ExportEnds, BaseInv, Places, ConnPlaces
  <2>2. d \in Exports(at[d])
    BY DEF Exports
  <2> QED BY <1>t, <2>1, <2>2, PublishCovers
<1>10. ASSUME NEW d \in DataPlanes, ExportFails(d)
       PROVE  Covers(v, c)' /\ ~overtaken[v]
  <2>1. /\ UNCHANGED <<payload, overtaken, at>> /\ snapshot' = [snapshot EXCEPT ![d] = 0]
    BY <1>10 DEF ExportFails
  <2>2. Exports(v)' \subseteq Exports(v) \cup {d}
    BY <2>1 DEF Exports
  <2> QED BY <1>t, <2>1, <2>2, SnapshotCovers
<1>11. ASSUME NEW d \in DataPlanes, Send(d) \/ Break(d) \/ DataStep(d) \/ LoadFails(d)
       PROVE  Covers(v, c)' /\ ~overtaken[v]
  <2>1. UNCHANGED <<payload, snapshot, at, overtaken>>
    BY <1>11, DataFacts DEF Send, Break
  <2> QED BY <1>1, <2>1
<1>12. CASE UNCHANGED vars
  BY <1>1, <1>12 DEF vars, cp
<1> QED BY <1>2, <1>3, <1>4, <1>5, <1>6, <1>7, <1>8, <1>9, <1>10, <1>11, <1>12
    DEF Next, ControlStep, Connection

(* It is enough that what a step puts on the way was published before it.  *)
LEMMA OrderLift ==
  ASSUME BaseInv, BaseInv', [Next]_vars, NEW d \in DataPlanes, NEW v \in Workers, ~overtaken'[v],
         at'[d] = v => InLine(d)' /\ \A c \in OnTheWay(d)' : c = 0 \/ Covers(v, c),
         from'[d] = v => Covers(v, lmdb'[d]) /\ lmdb'[d] <= db,
         at'[d] = v /\ from'[d] = v => Behind(d)',
         \A c \in OnTheWay(d)' : c <= db
  PROVE  Order(d, v)'
<1>t. /\ next'[d] \in Nat /\ loading'[d] \in Nat /\ lmdb'[d] \in Nat /\ wire'[d] \in Seq(Nat)
      /\ db \in Nat /\ payload' \in [Workers -> Nat] /\ snapshot' \in [Exporters -> Nat]
      /\ Exports(v)' \subseteq Exporters
  <2>1. /\ next'[d] \in Nat /\ loading'[d] \in Nat /\ lmdb'[d] \in Nat /\ wire'[d] \in Seq(Nat)
    BY DEF BaseInv, Types, DataTypes
  <2>2. payload' \in [Workers -> Nat] /\ snapshot' \in [Exporters -> Nat]
    BY DEF BaseInv, Types, ControlTypes
  <2>3. db \in Nat
    BY CoversTypes
  <2>4. Exports(v)' \subseteq Exporters
    BY WhoExports DEF Exports
  <2> QED BY <2>1, <2>2, <2>3, <2>4
<1>1. \A c \in OnTheWay(d)' : c \in Nat
  <2>1. \A i \in 1..Len(wire'[d]) : wire'[d][i] \in Nat
    BY <1>t, ElementOfSeq
  <2> QED BY <1>t, <2>1 DEF OnTheWay
<1>2. ASSUME NEW c \in 0..db, c = 0 \/ Covers(v, c) PROVE Covers(v, c)'
  <2>1. CASE c = 0
    BY <1>t, <2>1 DEF Covers
  <2>2. CASE Covers(v, c)
    BY <2>2, CoversStep
  <2> QED BY <1>2, <2>1, <2>2
<1>3. at'[d] = v => \A c \in OnTheWay(d)' : Covers(v, c)'
  BY <1>t, <1>1, <1>2
<1>4. from'[d] = v => Covers(v, lmdb[d])'
  <2> SUFFICES ASSUME from'[d] = v PROVE Covers(v, lmdb[d])'
    OBVIOUS
  <2>1. PICK c \in 0..db : c = lmdb'[d]
    BY <1>t
  <2>2. Covers(v, c)'
    BY <1>2, <2>1
  <2> QED BY <2>1, <2>2 DEF Covers
<1> QED BY <1>3, <1>4 DEF Order

(* What is on its way, and what a data plane has, are configurations.      *)
LEMMA WayTypes ==
  ASSUME BaseInv, NEW d \in DataPlanes
  PROVE  /\ next[d] \in 0..db /\ loading[d] \in 0..db /\ lmdb[d] \in 0..db
         /\ \A i \in 1..Len(wire[d]) : wire[d][i] \in 0..db
         /\ \A c \in OnTheWay(d) : c \in 0..db
<1>1. /\ next[d] \in Nat /\ loading[d] \in Nat /\ lmdb[d] \in Nat /\ wire[d] \in Seq(Nat)
      /\ db \in Nat
  BY CoversTypes DEF BaseInv, Types, DataTypes
<1>2. \A i \in 1..Len(wire[d]) : wire[d][i] \in Nat
  BY <1>1, ElementOfSeq
<1>3. /\ next[d] <= db /\ loading[d] <= db /\ lmdb[d] <= db
      /\ \A i \in 1..Len(wire[d]) : wire[d][i] <= db
  BY DEF BaseInv, Bounds
<1>4. /\ next[d] \in 0..db /\ loading[d] \in 0..db /\ lmdb[d] \in 0..db
      /\ \A i \in 1..Len(wire[d]) : wire[d][i] \in 0..db
  BY <1>1, <1>2, <1>3
<1> QED BY <1>4 DEF OnTheWay

(* A data plane that a step does not concern.                              *)
LEMMA OrderFrame ==
  ASSUME BaseInv, BaseInv', OrderInv, [Next]_vars, NEW d \in DataPlanes, NEW v \in Workers,
         ~overtaken'[v], at'[d] = at[d], from'[d] = from[d], next'[d] = next[d],
         loading'[d] = loading[d], lmdb'[d] = lmdb[d], wire'[d] = wire[d]
  PROVE  Order(d, v)'
<1>1. Covers(v, 0) /\ ~overtaken[v]
  <2>1. payload \in [Workers -> Nat] /\ snapshot \in [Exporters -> Nat]
        /\ Exports(v) \subseteq Exporters /\ db \in Nat
    BY CoversTypes, WhoExports DEF Exports
  <2>2. Covers(v, 0)
    BY <2>1 DEF Covers
  <2>3. 0 \in 0..db
    BY <2>1
  <2> QED BY <2>2, <2>3, CoversStep
<1>2. Order(d, v)
  BY <1>1 DEF OrderInv
<1>3. OnTheWay(d)' = OnTheWay(d)
  BY DEF OnTheWay
<1>4. /\ at'[d] = v => InLine(d)' /\ \A c \in OnTheWay(d)' : c = 0 \/ Covers(v, c)
      /\ at'[d] = v /\ from'[d] = v => Behind(d)'
  BY <1>2, <1>3 DEF Order, InLine, Behind
<1>5. from'[d] = v => Covers(v, lmdb'[d]) /\ lmdb'[d] <= db
  BY <1>2 DEF Order, BaseInv, Bounds
<1>6. \A c \in OnTheWay(d)' : c <= db
  BY <1>3, WayTypes, CoversTypes
<1> QED BY <1>4, <1>5, <1>6, OrderLift

(* A connection ends or begins: nothing is left but what is being loaded.  *)
LEMMA OrderEmptied ==
  ASSUME BaseInv, BaseInv', OrderInv, [Next]_vars, NEW d \in DataPlanes, NEW v \in Workers,
         ~overtaken'[v], ~overtaken[v], at'[d] = at[d] \/ loading[d] = 0, from'[d] = from[d],
         next'[d] = 0, loading'[d] = loading[d], lmdb'[d] = lmdb[d], wire'[d] = <<>>
  PROVE  Order(d, v)'
<1>1. Order(d, v)
  BY DEF OrderInv
<1>2. OnTheWay(d)' = {0, loading[d]} /\ Len(wire'[d]) = 0
  BY NoneIsEmpty DEF OnTheWay
<1>3. at'[d] = v => InLine(d)' /\ \A c \in OnTheWay(d)' : c = 0 \/ Covers(v, c)
  BY <1>1, <1>2 DEF Order, InLine, OnTheWay
<1>4. at'[d] = v /\ from'[d] = v => Behind(d)'
  BY <1>1, <1>2 DEF Order, Behind
<1>5. from'[d] = v => Covers(v, lmdb'[d]) /\ lmdb'[d] <= db
  BY <1>1 DEF Order, BaseInv, Bounds
<1>6. \A c \in OnTheWay(d)' : c <= db
  BY <1>2, WayTypes, CoversTypes
<1> QED BY <1>3, <1>4, <1>5, <1>6, OrderLift

LEMMA OrderSend ==
  ASSUME BaseInv, BaseInv', OrderInv, [Next]_vars, NEW d \in DataPlanes, NEW v \in Workers,
         ~overtaken'[v], Send(d)
  PROVE  Order(d, v)'
<1> DEFINE s == wire'[d]
           n == Len(wire[d])
           p == payload[at[d]]
<1>1. /\ n \in Nat /\ Len(s) = n + 1 /\ s[n + 1] = p /\ \A i \in 1..n : s[i] = wire[d][i]
      /\ UNCHANGED <<payload, snapshot, at, next, loading, lmdb, from, overtaken>>
      /\ at[d] \in Workers /\ p \in Nat \ {0} /\ p <= db
  BY SendFacts DEF BaseInv, Bounds
<1>2. Order(d, v) /\ db \in Nat /\ next[d] \in 0..db /\ loading[d] \in 0..db /\ lmdb[d] \in 0..db
      /\ \A i \in 1..n : wire[d][i] \in 0..db
  BY <1>1, WayTypes, CoversTypes DEF OrderInv
<1> HIDE DEF s, n, p
<1>3. \A i \in 1..(n + 1) : i \in 1..n \/ i = n + 1
  BY <1>1
<1>4. \A c \in OnTheWay(d)' : c \in OnTheWay(d) \/ c = p
  <2>1. \A i \in 1..n : wire[d][i] \in OnTheWay(d)
    BY DEF OnTheWay, n
  <2>2. \A i \in 1..Len(s) : s[i] \in OnTheWay(d) \/ s[i] = p
    BY <1>1, <1>3, <2>1
  <2> QED BY <1>1, <2>2 DEF OnTheWay, s
<1>5. CASE at[d] = v
  <2>1. Covers(v, p) /\ p = payload[v] /\ payload[v] # 0
    BY <1>1, <1>5 DEF Covers, p
  <2>2. \A c \in OnTheWay(d)' : Covers(v, c) /\ c <= db
    BY <1>1, <1>2, <1>4, <1>5, <2>1, WayTypes DEF Order
  <2>3. next[d] <= p /\ loading[d] <= p /\ \A i \in 1..n : wire[d][i] <= p
    <3>1. \A c \in OnTheWay(d) : c <= p
      BY <1>2, <1>5, <2>1 DEF Order, Covers
    <3> QED BY <3>1 DEF OnTheWay, n
  <2>4. ASSUME NEW i \in 1..(n + 1)
        PROVE  loading[d] <= s[i] /\ next[d] <= s[i] /\ \A j \in 1..i : s[j] <= s[i]
    <3>1. CASE i = n + 1
      BY <1>1, <1>3, <2>3, <3>1
    <3>2. CASE i \in 1..n
      <4>1. /\ loading[d] <= wire[d][i] /\ next[d] <= wire[d][i]
            /\ \A j \in 1..i : wire[d][j] <= wire[d][i]
        BY <1>2, <1>5, <3>2 DEF Order, InLine, n
      <4>2. \A j \in 1..i : j \in 1..n
        BY <1>1, <3>2
      <4> QED BY <1>1, <3>2, <4>1, <4>2
    <3> QED BY <1>3, <3>1, <3>2
  <2>5. InLine(d)'
    BY <1>1, <1>2, <1>5, <2>4 DEF Order, InLine, s
  <2>6. from[d] = v => Behind(d)'
    <3> SUFFICES ASSUME from[d] = v PROVE Behind(d)'
      OBVIOUS
    <3>1. Behind(d) /\ lmdb[d] <= p
      BY <1>2, <1>5, <2>1 DEF Order, Covers
    <3>2. \A i \in 1..(n + 1) : lmdb[d] <= s[i]
      BY <1>1, <1>3, <3>1 DEF Behind, n
    <3> QED BY <1>1, <3>1, <3>2 DEF Behind, s
  <2>7. from'[d] = v => Covers(v, lmdb'[d]) /\ lmdb'[d] <= db
    BY <1>1, <1>2 DEF Order
  <2> QED BY <1>1, <2>2, <2>5, <2>6, <2>7, OrderLift
<1>6. CASE at[d] # v
  <2>1. \A c \in OnTheWay(d)' : c <= db
    BY <1>1, <1>2, <1>4, WayTypes
  <2>2. from'[d] = v => Covers(v, lmdb'[d]) /\ lmdb'[d] <= db
    BY <1>1, <1>2 DEF Order
  <2> QED BY <1>1, <1>6, <2>1, <2>2, OrderLift
<1> QED BY <1>5, <1>6

LEMMA OrderReceive ==
  ASSUME BaseInv, BaseInv', OrderInv, [Next]_vars, NEW d \in DataPlanes, NEW v \in Workers,
         ~overtaken'[v], Receive(d)
  PROVE  Order(d, v)'
<1> DEFINE s == wire[d]
           t == wire'[d]
<1>1. /\ next'[d] = s[1] /\ Len(s) \in Nat \ {0} /\ Len(t) = Len(s) - 1
      /\ \A i \in 1..Len(t) : t[i] = s[i + 1]
      /\ UNCHANGED <<at, loading, lmdb, from, overtaken, db>>
  BY ReceiveFacts DEF Receive, cp
<1>2. Order(d, v) /\ \A c \in OnTheWay(d) : c \in 0..db
  BY <1>1, WayTypes DEF OrderInv
<1> HIDE DEF t
<1>3. 1 \in 1..Len(s) /\ \A i \in 1..Len(t) : i + 1 \in 1..Len(s)
  <2> HIDE DEF s
  <2> QED BY <1>1
<1>4. OnTheWay(d)' \subseteq OnTheWay(d)
  <2>1. \A i \in 1..Len(s) : s[i] \in OnTheWay(d)
    BY DEF OnTheWay
  <2>2. \A i \in 1..Len(t) : t[i] \in OnTheWay(d)
    BY <1>1, <1>3, <2>1
  <2>3. next'[d] \in OnTheWay(d) /\ loading'[d] \in OnTheWay(d)
    BY <1>1, <1>3, <2>1 DEF OnTheWay
  <2> QED BY <2>2, <2>3 DEF OnTheWay, t
<1>5. at[d] = v => InLine(d)'
  <2> SUFFICES ASSUME at[d] = v PROVE InLine(d)'
    OBVIOUS
  <2>1. \A i \in 1..Len(s) : loading[d] <= s[i] /\ \A j \in 1..i : s[j] <= s[i]
    BY <1>2 DEF Order, InLine
  <2> HIDE DEF s
  <2>2. \A i \in 1..Len(t) : 1 \in 1..(i + 1) /\ \A j \in 1..i : j + 1 \in 1..(i + 1)
    BY <1>1
  <2>3. ASSUME NEW i \in 1..Len(t)
        PROVE  loading[d] <= t[i] /\ s[1] <= t[i] /\ \A j \in 1..i : t[j] <= t[i]
    <3>1. t[i] = s[i + 1] /\ \A j \in 1..i : j \in 1..Len(t)
      BY <1>1
    <3>2. \A j \in 1..i : t[j] = s[j + 1]
      BY <1>1, <3>1
    <3> QED BY <1>3, <2>1, <2>2, <3>1, <3>2
  <2>4. loading[d] <= s[1]
    BY <1>3, <2>1
  <2> QED BY <1>1, <2>3, <2>4 DEF InLine, t
<1>6. at[d] = v /\ from[d] = v => Behind(d)'
  <2> SUFFICES ASSUME at[d] = v, from[d] = v PROVE Behind(d)'
    OBVIOUS
  <2>1. /\ loading[d] # 0 => lmdb[d] <= loading[d]
        /\ \A i \in 1..Len(s) : lmdb[d] <= s[i]
    BY <1>2 DEF Order, Behind
  <2> HIDE DEF s
  <2>2. lmdb[d] <= s[1] /\ \A i \in 1..Len(t) : lmdb[d] <= t[i]
    BY <1>1, <1>3, <2>1
  <2> QED BY <1>1, <2>1, <2>2 DEF Behind, t
<1>7. from'[d] = v => Covers(v, lmdb'[d]) /\ lmdb'[d] <= db
  BY <1>1, <1>2 DEF Order, BaseInv, Bounds
<1>8. \A c \in OnTheWay(d)' : c <= db
  BY <1>2, <1>4, CoversTypes
<1>9. at'[d] = v => \A c \in OnTheWay(d)' : c = 0 \/ Covers(v, c)
  BY <1>1, <1>2, <1>4 DEF Order
<1> QED BY <1>1, <1>5, <1>6, <1>7, <1>8, <1>9, OrderLift

LEMMA OrderTakeLoad ==
  ASSUME BaseInv, BaseInv', OrderInv, [Next]_vars, NEW d \in DataPlanes, NEW v \in Workers,
         ~overtaken'[v], Take(d) \/ Load(d) \/ LoadFails(d)
  PROVE  Order(d, v)'
<1>t. /\ next[d] \in 0..db /\ loading[d] \in 0..db /\ lmdb[d] \in 0..db /\ db \in Nat
      /\ \A i \in 1..Len(wire[d]) : wire[d][i] \in 0..db
      /\ \A c \in OnTheWay(d) : c \in 0..db
  BY WayTypes, CoversTypes
<1>u. UNCHANGED <<overtaken, at, db>>
  BY DataFacts DEF DataStep
<1>o. Order(d, v)
  BY <1>u DEF OrderInv
<1>1. /\ wire' = wire
      /\ \/ /\ loading[d] = 0 /\ loading'[d] = next[d] /\ next'[d] = next[d]
            /\ lmdb'[d] = lmdb[d] /\ from'[d] = from[d]
         \/ /\ loading'[d] = 0 /\ (next'[d] = next[d] \/ next'[d] = 0)
            /\ \/ lmdb'[d] = lmdb[d] /\ from'[d] = from[d]
               \/ lmdb'[d] = loading[d] /\ from'[d] = at[d]
  <2>1. /\ next \in [DataPlanes -> Nat] /\ loading \in [DataPlanes -> Nat]
        /\ lmdb \in [DataPlanes -> Nat] /\ from \in [DataPlanes -> Workers \cup {Nobody}]
    BY DEF BaseInv, Types, DataTypes
  <2>2. CASE Take(d)
    BY <2>1, <2>2 DEF Take
  <2>3. CASE Load(d) \/ LoadFails(d)
    <3>1. wire' = wire /\ loading'[d] = 0 /\ (next'[d] = next[d] \/ next'[d] = 0)
      BY <2>1, <2>3 DEF Load, LoadFails, Done
    <3>2. \/ lmdb'[d] = lmdb[d] /\ from'[d] = from[d]
          \/ lmdb'[d] = loading[d] /\ from'[d] = at[d]
      BY <2>1, <2>3 DEF Load, LoadFails
    <3> QED BY <3>1, <3>2
  <2> QED BY <2>2, <2>3
<1>2. \A c \in OnTheWay(d)' : c = 0 \/ c \in OnTheWay(d)
  BY <1>1 DEF OnTheWay
<1>3. at[d] = v => InLine(d)'
  BY <1>t, <1>o, <1>1 DEF Order, InLine
<1>4. ASSUME at[d] = v, from'[d] = v PROVE Behind(d)'
  <2>1. CASE lmdb'[d] = lmdb[d] /\ from'[d] = from[d]
    BY <1>t, <1>o, <1>1, <1>4, <2>1 DEF Order, Behind
  <2>2. CASE loading'[d] = 0 /\ (next'[d] = next[d] \/ next'[d] = 0) /\ lmdb'[d] = loading[d]
    BY <1>t, <1>o, <1>1, <1>4, <2>2 DEF Order, Behind, InLine
  <2> QED BY <1>1, <2>1, <2>2
<1>5. from'[d] = v => Covers(v, lmdb'[d]) /\ lmdb'[d] <= db
  <2>1. loading[d] \in OnTheWay(d)
    BY DEF OnTheWay
  <2>2. at[d] = v => Covers(v, loading[d])
    BY <1>o, <2>1 DEF Order
  <2> QED BY <1>t, <1>o, <1>1, <2>2 DEF Order
<1>6. \A c \in OnTheWay(d)' : c <= db
  BY <1>t, <1>2
<1>7. at'[d] = v => \A c \in OnTheWay(d)' : c = 0 \/ Covers(v, c)
  BY <1>o, <1>2, <1>u DEF Order
<1> QED BY <1>3, <1>4, <1>5, <1>6, <1>7, <1>u, OrderLift

LEMMA OrderStep == BaseInv /\ BaseInv' /\ OrderInv /\ [Next]_vars => OrderInv'
<1> SUFFICES ASSUME BaseInv, BaseInv', OrderInv, [Next]_vars,
                    NEW e \in DataPlanes, NEW v \in Workers, ~overtaken'[v]
             PROVE  Order(e, v)'
  BY DEF OrderInv
<1>o. ~overtaken[v]
  <2>1. payload \in [Workers -> Nat] /\ snapshot \in [Exporters -> Nat]
        /\ Exports(v) \subseteq Exporters /\ db \in Nat
    BY CoversTypes, WhoExports DEF Exports
  <2>2. Covers(v, 0) /\ 0 \in 0..db
    BY <2>1 DEF Covers
  <2> QED BY <2>2, CoversStep
<1>t. /\ next \in [DataPlanes -> Nat] /\ wire \in [DataPlanes -> Seq(Nat)]
      /\ loading \in [DataPlanes -> Nat] /\ lmdb \in [DataPlanes -> Nat]
      /\ from \in [DataPlanes -> Workers \cup {Nobody}]
      /\ at \in [DataPlanes -> Workers \cup {Nobody}]
  BY DEF BaseInv, Types, ControlTypes, DataTypes
<1>1. CASE UNCHANGED <<at, wire, dp>>
  BY <1>1, OrderFrame DEF dp
<1>2. CASE Write \/ PostFails \/ UNCHANGED vars
  BY <1>1, <1>2 DEF Write, PostFails, vars, cp
<1>3. ASSUME NEW u \in Workers, ControlStep(u) \/ LoopExportFails(u) PROVE Order(e, v)'
  BY <1>1, <1>3 DEF ControlStep, LoopExportFails, Notice, LoopStarts, LoopStarted, LoopTakes,
                    LoopRequeues, LoopPushes
<1>4. ASSUME NEW u \in Workers, Restart(u) PROVE Order(e, v)'
  <2>1. UNCHANGED <<at, loading, lmdb, from, overtaken>>
    BY <1>4, RestartFacts
  <2>2. \/ next'[e] = 0 /\ wire'[e] = <<>>
        \/ next'[e] = next[e] /\ wire'[e] = wire[e]
    BY <1>4, RestartFacts
  <2> QED BY <1>o, <2>1, <2>2, OrderFrame, OrderEmptied
<1>5. ASSUME NEW d \in DataPlanes, NEW u \in Workers, ConnectExports(d, u) \/ Connect(d, u)
      PROVE  Order(e, v)'
  <2>1. /\ conn[d] = "down" /\ loading[d] = 0 /\ UNCHANGED <<wire, dp>>
        /\ at' = [at EXCEPT ![d] = u]
    BY <1>5 DEF ConnectExports, Connect, CanConnect
  <2>2. next[d] = 0 /\ wire[d] = <<>>
    BY <2>1 DEF BaseInv, Places, ConnPlaces
  <2>3. CASE e = d
    BY <1>o, <2>1, <2>2, <2>3, OrderEmptied DEF dp
  <2>4. CASE e # d
    <3>1. at'[e] = at[e]
      BY <1>t, <2>1, <2>4
    <3> QED BY <2>1, <3>1, OrderFrame DEF dp
  <2> QED BY <2>3, <2>4
<1>6. ASSUME NEW d \in DataPlanes, ExportEnds(d) \/ ExportFails(d) PROVE Order(e, v)'
  BY <1>1, <1>6 DEF ExportEnds, ExportFails
<1>7. ASSUME NEW d \in DataPlanes, Send(d) PROVE Order(e, v)'
  <2>1. CASE e = d
    BY <1>7, <2>1, OrderSend
  <2>2. CASE e # d
    <3>1. wire'[e] = wire[e] /\ UNCHANGED <<at, next, loading, lmdb, from>>
      BY <1>7, <2>2, SendFacts
    <3> QED BY <3>1, OrderFrame
  <2> QED BY <2>1, <2>2
<1>8. ASSUME NEW d \in DataPlanes, Break(d) PROVE Order(e, v)'
  <2>1. /\ UNCHANGED <<at, loading, lmdb, from>>
        /\ next' = [next EXCEPT ![d] = 0] /\ wire' = [wire EXCEPT ![d] = <<>>]
    BY <1>8 DEF Break
  <2>2. CASE e = d
    <3>1. next'[e] = 0 /\ wire'[e] = <<>>
      BY <1>t, <2>1, <2>2
    <3> QED BY <1>o, <2>1, <3>1, OrderEmptied
  <2>3. CASE e # d
    <3>1. next'[e] = next[e] /\ wire'[e] = wire[e]
      BY <1>t, <2>1, <2>3
    <3> QED BY <2>1, <3>1, OrderFrame
  <2> QED BY <2>2, <2>3
<1>9. ASSUME NEW d \in DataPlanes, DataStep(d) \/ LoadFails(d) PROVE Order(e, v)'
  <2>1. CASE e = d
    BY <1>9, <2>1, OrderReceive, OrderTakeLoad DEF DataStep
  <2>2. CASE e # d
    <3>1. at' = at
      BY <1>9, DataFacts
    <3>2. CASE Receive(d)
      BY <1>t, <2>2, <3>1, <3>2, OrderFrame DEF Receive
    <3>3. CASE Take(d)
      BY <1>t, <2>2, <3>1, <3>3, OrderFrame DEF Take
    <3>4. CASE Load(d) \/ LoadFails(d)
      <4>1. lmdb'[e] = lmdb[e] /\ from'[e] = from[e]
        BY <1>t, <2>2, <3>4 DEF Load, LoadFails
      <4>2. wire'[e] = wire[e] /\ next'[e] = next[e] /\ loading'[e] = loading[e]
        BY <1>t, <2>2, <3>4 DEF Load, LoadFails, Done
      <4> QED BY <3>1, <4>1, <4>2, OrderFrame
    <3> QED BY <1>9, <3>2, <3>3, <3>4 DEF DataStep
  <2> QED BY <2>1, <2>2
<1> QED BY <1>2, <1>3, <1>4, <1>5, <1>6, <1>7, <1>8, <1>9 DEF Next, Connection

(* A data plane loads an older configuration over a newer one only from    *)
(* another worker than the newer one came from, unless an export was       *)
(* published over one that started later: control_plane.lua gives every    *)
(* client the payload of the worker it is connected to.                    *)
THEOREM GoesBackOnlyElsewhere == Spec => BackOnlyElsewhere
<1> DEFINE A == \A d \in DataPlanes :
                  lmdb'[d] < lmdb[d] => at[d] # from[d] \/ overtaken[at[d]]
<1>1. ASSUME BaseInv, OrderInv, [Next]_vars PROVE [A]_vars
  <2>1. CASE UNCHANGED vars
    BY <2>1
  <2>t. lmdb \in [DataPlanes -> Nat]
    BY <1>1 DEF BaseInv, Types, DataTypes
  <2>2. CASE UNCHANGED lmdb
    BY <2>t, <2>2
  <2>3. ASSUME NEW d \in DataPlanes, Load(d) PROVE A
    <3>1. loading[d] # 0 /\ lmdb' = [lmdb EXCEPT ![d] = loading[d]]
      BY <2>3 DEF Load
    <3>2. at[d] \in Workers
      BY <1>1, <3>1 DEF BaseInv, Places, ConnPlaces
    <3>3. at[d] = from[d] /\ ~overtaken[at[d]] => lmdb[d] <= loading[d]
      BY <1>1, <3>1, <3>2 DEF OrderInv, Order, Behind
    <3>4. loading[d] \in Nat
      BY <1>1 DEF BaseInv, Types, DataTypes
    <3> QED BY <2>t, <3>1, <3>3, <3>4
  <2>4. CASE Write \/ PostFails
    BY <2>2, <2>4 DEF Write, PostFails, dp
  <2>5. ASSUME NEW v \in Workers, ControlStep(v) \/ LoopExportFails(v) PROVE UNCHANGED lmdb
    BY <2>5 DEF ControlStep, LoopExportFails, Notice, LoopStarts, LoopStarted, LoopTakes,
                LoopRequeues, LoopPushes, dp
  <2>6. ASSUME NEW v \in Workers, Restart(v) PROVE UNCHANGED lmdb
    BY <1>1, <2>6, RestartFacts
  <2>7. ASSUME NEW d \in DataPlanes, Connection(d) \/ ExportFails(d) \/ Break(d)
        PROVE  UNCHANGED lmdb
    BY <1>1, <2>7, ConnectionFrame
  <2>8. ASSUME NEW d \in DataPlanes, Receive(d) \/ Take(d) \/ LoadFails(d)
        PROVE  UNCHANGED lmdb
    BY <2>8 DEF Receive, Take, LoadFails
  <2> HIDE DEF A
  <2> QED BY <1>1, <2>1, <2>2, <2>3, <2>4, <2>5, <2>6, <2>7, <2>8 DEF Next, DataStep
<1>2. Spec => [](BaseInv /\ OrderInv)
  BY BaseInit, BaseStep, OrderInit, OrderStep, PTL DEF Spec
<1> QED BY <1>1, <1>2, PTL DEF Spec, BackOnlyElsewhere

-----------------------------------------------------------------------------
(* The newest configuration is on its way *)

Flow(v) ==
  /\ payload[v] # 0 => payload[v] = db
  /\ \A x \in Exports(v) : snapshot[x] # 0 => snapshot[x] = db \/ payload[v] = db
  /\ \A d \in DataPlanes : conn[d] = "up" /\ at[d] = v => OnItsWay(d)

LEMMA FlowIs ==
  FlowInv <=> \A v \in Workers : ~overtaken[v] /\ ~unpushed[v] /\ ~Pending(v) => Flow(v)
BY DEF FlowInv, Flow

LEMMA FlowInit == Init => FlowInv
BY HybridSyncAssumption DEF Init, FlowInv, Exports, Exporters

LEMMA FlowTypes ==
  ASSUME BaseInv
  PROVE  /\ payload \in [Workers -> Nat] /\ snapshot \in [Exporters -> Nat] /\ db \in Nat \ {0}
         /\ notices \in [Workers -> Nat] /\ posts \in [Workers -> 0..2]
         /\ loop \in [Workers -> {"start", "exporting", "waiting", "sleeping"}]
         /\ overtaken \in [Workers -> BOOLEAN] /\ unpushed \in [Workers -> BOOLEAN]
         /\ at \in [DataPlanes -> Workers \cup {Nobody}]
         /\ conn \in [DataPlanes -> {"down", "exporting", "up"}]
         /\ marks \in [DataPlanes -> Nat]
         /\ \A x \in Exporters : snapshot[x] <= db
         /\ \A v \in Workers : v \in Exports(v) /\ Exports(v) \subseteq Exporters
BY HybridSyncAssumption, WhoExports
DEF BaseInv, Types, ControlTypes, Bounds, Exports

(* An export that is not overtaken publishes the newest configuration, if  *)
(* that was published or this export found it.                             *)
LEMMA PublishIsNewest ==
  ASSUME BaseInv, NEW v \in Workers, NEW x \in Exporters, Publish(v, x), ~overtaken'[v],
         snapshot[x] = db \/ payload[v] = db
  PROVE  payload'[v] = db /\ ~overtaken[v]
<1>1. /\ snapshot[x] \in Nat /\ payload[v] \in Nat /\ db \in Nat /\ snapshot[x] <= db
      /\ payload \in [Workers -> Nat] /\ overtaken \in [Workers -> BOOLEAN]
  BY FlowTypes
<1>2. payload'[v] = snapshot[x] /\ ~(snapshot[x] < payload[v]) /\ ~overtaken[v]
  BY <1>1 DEF Publish
<1> QED BY <1>1, <1>2

(* A step that leaves a worker, its exports and its data planes alone.     *)
LEMMA FlowFrame ==
  ASSUME FlowInv, NEW v \in Workers, ~overtaken'[v], ~unpushed'[v], ~Pending(v)',
         overtaken'[v] = overtaken[v], unpushed'[v] = unpushed[v],
         notices'[v] = notices[v], posts'[v] = posts[v], loop'[v] = loop[v], db' = db,
         payload'[v] = payload[v],
         \A x \in Exports(v)' : x \in Exports(v) /\ snapshot'[x] = snapshot[x],
         \A d \in DataPlanes : conn'[d] = "up" /\ at'[d] = v /\ OnItsWay(d) => OnItsWay(d)',
         \A d \in DataPlanes : conn'[d] = "up" /\ at'[d] = v => conn[d] = "up" /\ at[d] = v
  PROVE  Flow(v)'
<1>1. v \in Exports(v)'
  BY DEF Exports
<1>2. ~Pending(v)
  BY <1>1 DEF Pending
<1>3. Flow(v)
  BY <1>2, FlowIs
<1>4. payload'[v] # 0 => payload'[v] = db'
  BY <1>3 DEF Flow
<1>5. \A x \in Exports(v)' : snapshot'[x] # 0 => snapshot'[x] = db' \/ payload'[v] = db'
  BY <1>3 DEF Flow
<1>6. \A d \in DataPlanes : conn'[d] = "up" /\ at'[d] = v => OnItsWay(d)'
  BY <1>3 DEF Flow
<1> QED BY <1>4, <1>5, <1>6 DEF Flow

LEMMA ControlKeepsFlow ==
  ASSUME BaseInv, FlowInv, NEW u \in Workers, ControlStep(u) \/ LoopExportFails(u),
         NEW v \in Workers, ~overtaken'[v], ~unpushed'[v], ~Pending(v)'
  PROVE  Flow(v)'
<1>t. /\ payload \in [Workers -> Nat] /\ snapshot \in [Exporters -> Nat] /\ db \in Nat \ {0}
      /\ notices \in [Workers -> Nat] /\ posts \in [Workers -> 0..2]
      /\ loop \in [Workers -> {"start", "exporting", "waiting", "sleeping"}]
      /\ overtaken \in [Workers -> BOOLEAN] /\ unpushed \in [Workers -> BOOLEAN]
      /\ marks \in [DataPlanes -> Nat]
      /\ v \in Exports(v) /\ Exports(v) \subseteq Exporters /\ v \in Exporters
  BY FlowTypes
<1>u. UNCHANGED <<db, at, conn, wire, next, loading, lmdb, refused>>
  BY DEF ControlStep, LoopExportFails, Notice, LoopStarts, LoopStarted, LoopTakes,
         LoopRequeues, LoopPushes, dp
<1>x. Exports(v)' = Exports(v)
  BY <1>u DEF Exports
<1>1. CASE u # v
  <2>1. /\ overtaken'[v] = overtaken[v] /\ unpushed'[v] = unpushed[v]
        /\ notices'[v] = notices[v] /\ posts'[v] = posts[v] /\ loop'[v] = loop[v]
        /\ payload'[v] = payload[v]
    BY <1>t, <1>1 DEF ControlStep, LoopExportFails, Notice, LoopStarts, LoopStarted, LoopTakes,
                      LoopRequeues, LoopPushes, Publish
  <2>2. u \notin Exports(v)
    BY <1>1, WhoExports DEF Exports
  <2>3. \A x \in Exports(v) : snapshot'[x] = snapshot[x]
    <3>1. \/ snapshot' = snapshot
          \/ \E n : snapshot' = [snapshot EXCEPT ![u] = n]
      <4>1. CASE LoopTakes(u)
        <5>1. CASE Clients(u) = {}
          BY <4>1, <5>1 DEF LoopTakes
        <5>2. CASE Clients(u) # {}
          BY <4>1, <5>2 DEF LoopTakes
        <5> QED BY <5>1, <5>2
      <4>2. CASE ~LoopTakes(u)
        BY <4>2 DEF ControlStep, LoopExportFails, Notice, LoopStarts, LoopStarted, LoopRequeues,
                    LoopPushes, Publish
      <4> QED BY <4>1, <4>2
    <3> QED BY <1>t, <2>2, <3>1
  <2>4. \A d \in DataPlanes : at[d] = v => marks'[d] = marks[d]
    BY <1>t, <1>1 DEF ControlStep, LoopExportFails, Notice, LoopStarts, LoopStarted, LoopTakes,
                      LoopRequeues, LoopPushes, Publish, Clients
  <2>5. \A d \in DataPlanes : conn'[d] = "up" /\ at'[d] = v /\ OnItsWay(d) => OnItsWay(d)'
    BY <1>u, <2>1, <2>4 DEF OnItsWay
  <2> QED BY <1>u, <1>x, <2>1, <2>3, <2>5, FlowFrame
<1>2. CASE u = v
  <2>1. ~Notice(v) /\ ~LoopTakes(v) /\ ~LoopRequeues(v) /\ ~LoopExportFails(v)
    <3>1. ~Notice(v)
      BY <1>t DEF Notice, Pending
    <3>2. ~LoopTakes(v)
      <4>1. ASSUME LoopTakes(v), Clients(v) = {} PROVE FALSE
        BY <1>t, <4>1 DEF LoopTakes, Pending
      <4>2. ASSUME LoopTakes(v), Clients(v) # {} PROVE FALSE
        BY <1>t, <4>2 DEF LoopTakes, Pending
      <4> QED BY <4>1, <4>2
    <3>3. ~LoopRequeues(v)
      BY <1>t DEF LoopRequeues, Pending
    <3>4. ~LoopExportFails(v)
      BY <1>t DEF LoopExportFails
    <3> QED BY <3>1, <3>2, <3>3, <3>4
  <2>2. CASE LoopStarts(v)
    <3>1. /\ UNCHANGED <<notices, posts, loop, payload, marks, overtaken, unpushed>>
          /\ snapshot' = [snapshot EXCEPT ![v] = db] /\ loop[v] = "start"
      BY <2>2 DEF LoopStarts
    <3>2. Flow(v)
      BY <1>u, <3>1, FlowIs DEF Pending
    <3>3. \A x \in Exports(v) : snapshot'[x] = snapshot[x] \/ snapshot'[x] = db
      BY <1>t, <3>1
    <3>4. \A d \in DataPlanes : OnItsWay(d) => OnItsWay(d)'
      BY <1>u, <3>1 DEF OnItsWay
    <3> QED BY <1>u, <1>x, <3>1, <3>2, <3>3, <3>4 DEF Flow
  <2>3. CASE LoopStarted(v)
    <3>1. /\ UNCHANGED <<notices, posts, marks, unpushed>> /\ Publish(v, v)
          /\ loop[v] = "start" /\ snapshot[v] # 0
      BY <2>3 DEF LoopStarted
    <3>2. ~Pending(v)
      BY <1>u, <3>1 DEF Pending
    <3>3. ~overtaken[v]
      BY <1>t, <3>1 DEF Publish
    <3>4. Flow(v)
      BY <3>1, <3>2, <3>3, FlowIs
    <3>5. payload'[v] = db
      BY <1>t, <3>1, <3>4, PublishIsNewest DEF Flow
    <3>6. \A d \in DataPlanes : at[d] = v /\ OnItsWay(d) => OnItsWay(d)'
      BY <1>u, <3>1, <3>5 DEF OnItsWay
    <3> QED BY <1>u, <3>4, <3>5, <3>6 DEF Flow
  <2>4. CASE LoopPushes(v)
    <3>1. /\ UNCHANGED <<notices, posts>> /\ Publish(v, v) /\ loop[v] = "exporting"
          /\ marks' = [d \in DataPlanes |-> IF d \in Clients(v) THEN marks[d] + 1 ELSE marks[d]]
          /\ unpushed' = [unpushed EXCEPT ![v] = @ /\ snapshot[v] # db]
      BY <2>4 DEF LoopPushes
    <3>2. snapshot[v] = db
      <4>1. unpushed[v] => snapshot[v] = db
        BY <1>t, <3>1
      <4>2. ~(notices[v] > 0) /\ ~(posts[v] > 0)
        BY <3>1 DEF Pending
      <4> QED BY <3>1, <4>1, <4>2 DEF BaseInv, Places, LoopPlaces
    <3>3. payload'[v] = db
      BY <1>t, <3>1, <3>2 DEF Publish
    <3>4. ASSUME NEW d \in DataPlanes, conn'[d] = "up", at'[d] = v PROVE OnItsWay(d)'
      <4>1. marks'[d] > 0
        BY <1>t, <1>u, <3>1, <3>4 DEF Clients
      <4> QED BY <1>u, <3>3, <3>4, <4>1 DEF OnItsWay
    <3> QED BY <1>u, <3>3, <3>4 DEF Flow
  <2> QED BY <1>2, <2>1, <2>2, <2>3, <2>4 DEF ControlStep
<1> QED BY <1>1, <1>2

LEMMA RestartKeepsFlow ==
  ASSUME BaseInv, FlowInv, NEW u \in Workers, Restart(u),
         NEW v \in Workers, ~overtaken'[v], ~unpushed'[v], ~Pending(v)'
  PROVE  Flow(v)'
<1>t. /\ payload \in [Workers -> Nat] /\ loop \in [Workers -> {"start", "exporting", "waiting", "sleeping"}]
      /\ notices \in [Workers -> Nat] /\ posts \in [Workers -> 0..2]
      /\ v \in Exports(v) /\ Exports(v) \subseteq Exporters
  BY FlowTypes
<1>r. /\ UNCHANGED <<db, at, loading, lmdb, refused, overtaken, unpushed>>
      /\ notices' = [notices EXCEPT ![u] = 0] /\ posts' = [posts EXCEPT ![u] = 0]
      /\ loop' = [loop EXCEPT ![u] = "start"] /\ payload' = [payload EXCEPT ![u] = 0]
      /\ \A x \in Exports(u) : snapshot'[x] = 0
      /\ \A x \in Exporters \ Exports(u) : snapshot'[x] = snapshot[x]
      /\ \A d \in DataPlanes :
           \/ at[d] = u /\ conn'[d] = "down"
           \/ /\ at[d] # u /\ conn'[d] = conn[d] /\ marks'[d] = marks[d]
              /\ wire'[d] = wire[d] /\ next'[d] = next[d]
  BY RestartFacts
<1>x. Exports(v)' = Exports(v)
  BY <1>r DEF Exports
<1>1. CASE u = v
  <2>1. payload'[v] = 0 /\ \A x \in Exports(v)' : snapshot'[x] = 0
    BY <1>t, <1>r, <1>x, <1>1
  <2>2. \A d \in DataPlanes : at'[d] = v => conn'[d] # "up"
    BY <1>r, <1>1
  <2> QED BY <2>1, <2>2 DEF Flow
<1>2. CASE u # v
  <2>1. /\ notices'[v] = notices[v] /\ posts'[v] = posts[v] /\ loop'[v] = loop[v]
        /\ payload'[v] = payload[v]
    BY <1>t, <1>r, <1>2
  <2>2. \A x \in Exports(v) : x \notin Exports(u)
    BY <1>2, WhoExports DEF Exports
  <2>3. \A x \in Exports(v) : snapshot'[x] = snapshot[x]
    BY <1>t, <1>r, <2>2
  <2>4. \A d \in DataPlanes : at'[d] = v =>
          /\ conn'[d] = conn[d] /\ marks'[d] = marks[d] /\ wire'[d] = wire[d]
          /\ next'[d] = next[d] /\ at[d] = v
    BY <1>r, <1>2
  <2>5. \A d \in DataPlanes : conn'[d] = "up" /\ at'[d] = v /\ OnItsWay(d) => OnItsWay(d)'
    BY <1>r, <2>1, <2>4 DEF OnItsWay
  <2> QED BY <1>r, <1>x, <2>1, <2>3, <2>4, <2>5, FlowFrame
<1> QED BY <1>1, <1>2

LEMMA ConnectionKeepsFlow ==
  ASSUME BaseInv, FlowInv, NEW d \in DataPlanes,
         \/ Connection(d) \/ ExportFails(d) \/ Break(d),
         NEW v \in Workers, ~overtaken'[v], ~unpushed'[v], ~Pending(v)'
  PROVE  Flow(v)'
<1>t. /\ payload \in [Workers -> Nat] /\ snapshot \in [Exporters -> Nat] /\ db \in Nat \ {0}
      /\ overtaken \in [Workers -> BOOLEAN] /\ unpushed \in [Workers -> BOOLEAN]
      /\ at \in [DataPlanes -> Workers \cup {Nobody}] /\ marks \in [DataPlanes -> Nat]
      /\ conn \in [DataPlanes -> {"down", "exporting", "up"}]
      /\ Exports(v) \subseteq Exporters /\ v \in Exporters /\ d \in Exporters /\ d # v
      /\ ConnPlaces
  BY FlowTypes, WhoExports DEF BaseInv, Places
<1>f. /\ UNCHANGED <<db, notices, posts, loop, loading, lmdb, refused>>
      /\ \A e \in DataPlanes \ {d} : at'[e] = at[e] /\ conn'[e] = conn[e] /\ marks'[e] = marks[e]
      /\ \A x \in Exporters \ {d} : snapshot'[x] = snapshot[x]
  BY ConnectionFrame
<1>p. ~Pending(v)
  BY <1>t, <1>f DEF Pending
<1>x. \A x \in Exports(v)' : x = d \/ (x \in Exports(v) /\ snapshot'[x] = snapshot[x])
  BY <1>t, <1>f DEF Exports
<1>1. ASSUME NEW u \in Workers, ConnectExports(d, u) PROVE Flow(v)'
  <2>1. /\ UNCHANGED <<payload, overtaken, unpushed, marks, wire, dp>>
        /\ conn' = [conn EXCEPT ![d] = "exporting"] /\ snapshot' = [snapshot EXCEPT ![d] = db]
    BY <1>1 DEF ConnectExports
  <2>2. Flow(v)
    BY <1>p, <2>1, FlowIs
  <2>3. snapshot'[d] = db /\ conn'[d] # "up"
    BY <1>t, <2>1
  <2>4. ASSUME NEW e \in DataPlanes, conn'[e] = "up", at'[e] = v PROVE OnItsWay(e)'
    <3>1. e # d /\ conn[e] = "up" /\ at[e] = v
      BY <1>f, <2>3, <2>4
    <3> QED BY <1>f, <2>1, <2>2, <2>4, <3>1 DEF Flow, OnItsWay, dp
  <2> QED BY <1>f, <1>x, <2>1, <2>2, <2>3, <2>4 DEF Flow
<1>2. ASSUME NEW u \in Workers, Connect(d, u) PROVE Flow(v)'
  <2>1. /\ UNCHANGED <<payload, overtaken, unpushed, snapshot, wire, dp>>
        /\ at' = [at EXCEPT ![d] = u] /\ payload[u] # 0 /\ conn[d] = "down"
        /\ marks' = [marks EXCEPT ![d] = @ + 1]
    BY <1>2 DEF Connect, Mark, CanConnect
  <2>2. Flow(v)
    BY <1>p, <2>1, FlowIs
  <2>3. snapshot[d] = 0 /\ at'[d] = u /\ marks'[d] > 0
    BY <1>t, <2>1 DEF ConnPlaces
  <2>4. ASSUME NEW e \in DataPlanes, conn'[e] = "up", at'[e] = v PROVE OnItsWay(e)'
    <3>1. CASE e = d
      <4>1. payload'[at'[e]] = db' /\ marks'[e] > 0
        BY <1>f, <2>1, <2>2, <2>3, <2>4, <3>1 DEF Flow
      <4> QED BY <4>1 DEF OnItsWay
    <3>2. CASE e # d
      <4>1. conn[e] = "up" /\ at[e] = v
        BY <1>f, <2>4, <3>2
      <4> QED BY <1>f, <2>1, <2>2, <2>4, <3>2, <4>1 DEF Flow, OnItsWay, dp
    <3> QED BY <3>1, <3>2
  <2> QED BY <1>f, <1>x, <2>1, <2>2, <2>3, <2>4 DEF Flow
<1>3. CASE ExportEnds(d)
  <2>1. /\ UNCHANGED <<unpushed, at, wire, dp>> /\ Publish(at[d], d) /\ conn[d] = "exporting"
        /\ marks' = [marks EXCEPT ![d] = @ + 1]
    BY <1>3 DEF ExportEnds, Mark
  <2>2. at[d] \in Workers /\ snapshot[d] # 0 /\ d \in Exports(at[d]) /\ marks'[d] > 0
    BY <1>t, <2>1 DEF ConnPlaces, Exports
  <2>3. CASE at[d] = v
    <3>1. ~overtaken[v]
      BY <1>t, <2>1, <2>3 DEF Publish
    <3>2. Flow(v)
      BY <1>p, <2>1, <3>1, FlowIs
    <3>3. payload'[v] = db
      BY <1>t, <2>1, <2>2, <2>3, <3>2, PublishIsNewest DEF Flow
    <3>4. ASSUME NEW e \in DataPlanes, conn'[e] = "up", at'[e] = v PROVE OnItsWay(e)'
      <4>1. CASE e = d
        BY <1>f, <2>1, <2>2, <2>3, <3>3, <4>1 DEF OnItsWay
      <4>2. CASE e # d
        <5>1. OnItsWay(e)
          BY <1>f, <2>1, <3>2, <3>4, <4>2 DEF Flow
        <5> QED BY <1>f, <2>1, <3>3, <3>4, <4>2, <5>1 DEF OnItsWay, dp
      <4> QED BY <4>1, <4>2
    <3> QED BY <1>f, <3>3, <3>4 DEF Flow
  <2>4. CASE at[d] # v
    <3>1. payload'[v] = payload[v] /\ overtaken'[v] = overtaken[v]
      BY <1>t, <2>1, <2>2, <2>4 DEF Publish
    <3>2. d \notin Exports(v)'
      BY <1>t, <2>1, <2>4 DEF Exports
    <3>3. \A e \in DataPlanes : at[e] = v => e # d
      BY <2>4
    <3>4. \A e \in DataPlanes : conn'[e] = "up" /\ at'[e] = v /\ OnItsWay(e) => OnItsWay(e)'
      BY <1>f, <2>1, <3>1, <3>3 DEF OnItsWay, dp
    <3> QED BY <1>f, <1>x, <2>1, <3>1, <3>2, <3>3, <3>4, FlowFrame
  <2> QED BY <2>3, <2>4
<1>4. CASE Send(d)
  <2>1. UNCHANGED <<payload, snapshot, at, conn, next, overtaken, unpushed>>
        /\ marks[d] > 0 /\ conn[d] = "up"
    BY <1>4, SendFacts DEF Send
  <2>2. Flow(v)
    BY <1>p, <2>1, FlowIs
  <2>3. ASSUME NEW e \in DataPlanes, conn'[e] = "up", at'[e] = v PROVE OnItsWay(e)'
    <3>1. OnItsWay(e)
      BY <2>1, <2>2, <2>3 DEF Flow
    <3>2. CASE e = d
      <4>1. payload[at[d]] = db
        BY <2>1, <3>1, <3>2 DEF OnItsWay
      <4>2. wire'[d] # <<>> /\ wire'[d][Len(wire'[d])] = db
        BY <1>4, <4>1, SendFacts
      <4> QED BY <1>f, <2>1, <3>2, <4>1, <4>2 DEF OnItsWay
    <3>3. CASE e # d
      <4>1. wire'[e] = wire[e]
        BY <1>4, <3>3, SendFacts
      <4> QED BY <1>f, <2>1, <3>1, <3>3, <4>1 DEF OnItsWay
    <3> QED BY <3>2, <3>3
  <2>4. Exports(v)' = Exports(v)
    BY <2>1 DEF Exports
  <2> QED BY <1>f, <2>1, <2>2, <2>3, <2>4 DEF Flow
<1>5. CASE ExportFails(d)
  <2>1. /\ UNCHANGED <<payload, overtaken, at, wire, dp>> /\ conn[d] = "exporting"
        /\ unpushed' = [unpushed EXCEPT ![at[d]] = TRUE]
    BY <1>5 DEF ExportFails
  <2>2. at[d] # v /\ unpushed'[v] = unpushed[v]
    BY <1>t, <2>1
  <2>3. d \notin Exports(v)'
    BY <1>t, <2>1, <2>2 DEF Exports
  <2>4. \A e \in DataPlanes : at[e] = v => e # d
    BY <2>2
  <2>5. \A e \in DataPlanes : conn'[e] = "up" /\ at'[e] = v /\ OnItsWay(e) => OnItsWay(e)'
    BY <1>f, <2>1, <2>4 DEF OnItsWay, dp
  <2> QED BY <1>f, <1>x, <2>1, <2>2, <2>3, <2>4, <2>5, FlowFrame
<1>6. CASE Break(d)
  <2>1. /\ UNCHANGED <<payload, overtaken, unpushed, snapshot, at>>
        /\ conn' = [conn EXCEPT ![d] = "down"] /\ wire' = [wire EXCEPT ![d] = <<>>]
        /\ next' = [next EXCEPT ![d] = 0]
    BY <1>6 DEF Break
  <2>2. Flow(v)
    BY <1>p, <2>1, FlowIs
  <2>3. ASSUME NEW e \in DataPlanes, conn'[e] = "up", at'[e] = v PROVE OnItsWay(e)'
    <3>1. e # d
      BY <1>t, <2>1, <2>3
    <3>2. wire'[e] = wire[e] /\ next'[e] = next[e]
      BY <2>1, <3>1 DEF BaseInv, Types, DataTypes
    <3>3. OnItsWay(e)
      BY <1>f, <2>1, <2>2, <2>3, <3>1 DEF Flow
    <3> QED BY <1>f, <2>1, <3>1, <3>2, <3>3 DEF OnItsWay
  <2>4. Exports(v)' = Exports(v)
    BY <2>1 DEF Exports
  <2> QED BY <1>f, <2>1, <2>2, <2>3, <2>4 DEF Flow
<1> QED BY <1>1, <1>2, <1>3, <1>4, <1>5, <1>6 DEF Connection

LEMMA DataKeepsFlow ==
  ASSUME BaseInv, FlowInv, NEW d \in DataPlanes, DataStep(d) \/ LoadFails(d),
         NEW v \in Workers, ~overtaken'[v], ~unpushed'[v], ~Pending(v)'
  PROVE  Flow(v)'
<1>u. UNCHANGED <<db, notices, posts, loop, snapshot, payload, at, conn, marks,
                  overtaken, unpushed>>
  BY DataFacts
<1>t. /\ next \in [DataPlanes -> Nat] /\ loading \in [DataPlanes -> Nat]
      /\ lmdb \in [DataPlanes -> Nat] /\ refused \in [DataPlanes -> Nat]
      /\ wire \in [DataPlanes -> Seq(Nat)] /\ db \in Nat \ {0}
  BY FlowTypes DEF BaseInv, Types, DataTypes
<1>f. Flow(v)
  BY <1>u, FlowIs DEF Pending
<1>1. \A e \in DataPlanes \ {d} :
        /\ next'[e] = next[e] /\ loading'[e] = loading[e] /\ lmdb'[e] = lmdb[e]
        /\ wire'[e] = wire[e] /\ refused'[e] = refused[e]
  <2>1. CASE Receive(d) \/ Take(d)
    BY <1>t, <2>1 DEF Receive, Take
  <2>2. CASE Load(d) \/ LoadFails(d)
    BY <1>t, <2>2 DEF Load, LoadFails, Done
  <2> QED BY <2>1, <2>2 DEF DataStep
<1>2. SUFFICES ASSUME OnItsWay(d) PROVE OnItsWay(d)'
  <2>1. \A e \in DataPlanes \ {d} : OnItsWay(e) => OnItsWay(e)'
    BY <1>1, <1>u DEF OnItsWay
  <2>2. Exports(v)' = Exports(v)
    BY <1>u DEF Exports
  <2> QED BY <1>f, <1>u, <1>2, <2>1, <2>2 DEF Flow
<1>3. CASE Receive(d)
  <2> DEFINE s == wire[d]
             t == wire'[d]
  <2>1. /\ next'[d] = s[1] /\ Len(s) \in Nat \ {0} /\ Len(t) = Len(s) - 1
        /\ \A i \in 1..Len(t) : t[i] = s[i + 1]
        /\ t # <<>> => Len(t) > 0
        /\ t = <<>> => Len(s) = 1
    BY <1>3, ReceiveFacts
  <2>2. wire[d] # <<>> /\ UNCHANGED <<loading, lmdb, refused>>
    BY <1>3 DEF Receive
  <2> HIDE DEF s, t
  <2>3. t # <<>> => t[Len(t)] = s[Len(s)]
    <3>1. t # <<>> => Len(t) \in 1..Len(t) /\ Len(t) + 1 = Len(s)
      BY <2>1
    <3> QED BY <2>1, <3>1
  <2>4. t = <<>> => next'[d] = s[Len(s)]
    BY <2>1
  <2> QED BY <1>u, <1>t, <1>2, <2>2, <2>3, <2>4 DEF OnItsWay, s, t
<1>4. CASE Take(d)
  <2>1. /\ loading[d] = 0 /\ loading'[d] = next[d] /\ UNCHANGED <<wire, next, lmdb, refused>>
    BY <1>t, <1>4 DEF Take
  <2> QED BY <1>u, <1>2, <2>1 DEF OnItsWay
<1>5. CASE Load(d) \/ LoadFails(d)
  <2>1. /\ wire' = wire /\ loading[d] # 0 /\ loading'[d] = 0
        /\ next'[d] = IF next[d] = loading[d] THEN 0 ELSE next[d]
    BY <1>t, <1>5 DEF Load, LoadFails, Done
  <2>2. lmdb'[d] = loading[d] \/ refused'[d] = loading[d]
    BY <1>t, <1>5 DEF Load, LoadFails
  <2> QED BY <1>u, <1>2, <2>1, <2>2 DEF OnItsWay
<1> QED BY <1>3, <1>4, <1>5 DEF DataStep

LEMMA FlowStep == BaseInv /\ FlowInv /\ [Next]_vars => FlowInv'
<1> SUFFICES ASSUME BaseInv, FlowInv, [Next]_vars,
                    NEW v \in Workers, ~overtaken'[v], ~unpushed'[v], ~Pending(v)'
             PROVE  Flow(v)'
  BY DEF FlowInv, Flow
<1>1. CASE UNCHANGED vars
  <2>1. UNCHANGED <<overtaken, unpushed, notices, posts, loop, db, payload, at, conn, marks,
                    snapshot, wire, next, loading, lmdb, refused>>
    BY <1>1 DEF vars, cp, dp
  <2>2. Exports(v)' = Exports(v) /\ \A d \in DataPlanes : OnItsWay(d) => OnItsWay(d)'
    BY <2>1 DEF Exports, OnItsWay
  <2> QED BY <2>1, <2>2, FlowFrame
<1>2. ~Write /\ ~PostFails
  <2>1. notices \in [Workers -> Nat]
    BY FlowTypes
  <2> QED BY <2>1 DEF Write, PostFails, Pending
<1> QED BY <1>1, <1>2, ControlKeepsFlow, RestartKeepsFlow, ConnectionKeepsFlow, DataKeepsFlow
    DEF Next

(* When nothing is under way for a connected data plane it has the latest  *)
(* configuration, or was not able to load it: no push that was skipped,    *)
(* merged with another or raced by a connection is missed in the end,      *)
(* whichever worker it is connected to.                                    *)
THEOREM QuietIsInSync == Spec => []QuietMeansInSync
<1>1. ASSUME BaseInv, FlowInv PROVE QuietMeansInSync
  <2> SUFFICES ASSUME NEW d \in DataPlanes, Quiet(d), ~Excused(d)
               PROVE  db \in {lmdb[d], refused[d]}
    BY DEF QuietMeansInSync
  <2>1. at[d] \in Workers /\ ~overtaken[at[d]] /\ ~unpushed[at[d]]
    BY <1>1 DEF Quiet, Excused, BaseInv, Places, ConnPlaces
  <2>2. ~Pending(at[d])
    BY DEF Quiet, Pending
  <2>3. OnItsWay(d)
    BY <1>1, <2>1, <2>2, FlowIs DEF Flow, Quiet
  <2> QED BY <2>3 DEF OnItsWay, Quiet
<1>2. Spec => [](BaseInv /\ FlowInv)
  BY BaseInit, BaseStep, FlowInit, FlowStep, PTL DEF Spec
<1> QED BY <1>1, <1>2, PTL
=============================================================================
