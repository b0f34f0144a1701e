----------------------------- MODULE HybridSync -----------------------------
(***************************************************************************)
(* How the workers of a control plane bring the configuration to their     *)
(* data planes: kong/clustering/control_plane.lua (export,                 *)
(* push_config_loop, a handler per connection), events.lua, and            *)
(* data_plane.lua (read thread and config thread).                         *)
(*                                                                         *)
(* Every worker has its own clients and its own payload.  A configuration  *)
(* is the number of the write that made it.  An export is a REPEATABLE     *)
(* READ transaction: what it exports is what it finds at its start; it     *)
(* yields until it publishes.  A semaphore is the number of its posts not  *)
(* consumed; count() is one less while its thread waits.  Reconfigure has  *)
(* what a data plane does with the configuration.                          *)
(***************************************************************************)
EXTENDS Naturals, Sequences

CONSTANTS
  Workers,        \* of the control plane
  DataPlanes,
  MaxWrites,      \* bound: configurations
  MaxFailures     \* bound: events that are not posted, exports and loads that
                  \* fail, connections that break, restarts of workers

Nobody == "nobody"

ASSUME HybridSyncAssumption ==
  /\ MaxWrites \in Nat \ {0} /\ MaxFailures \in Nat
  /\ DataPlanes \cap Workers = {} /\ Nobody \notin Workers

VARIABLES
  db,        \* the configuration in the control plane's database
  notices,   \* notices[v]: push_config events on their way to worker v
  posts,     \* posts[v]: push_config_semaphore
  loop,      \* push_config_loop: "start", "exporting", "waiting", "sleeping"
  snapshot,  \* snapshot[x]: what export x found; x is a data plane, or a worker
             \* for its loop
  payload,   \* payload[v]: deflated_reconfigure_payload, 0 if there is none
  at,        \* at[d]: the worker d is, or was last, connected to
  conn,      \* conn[d]: "down", "exporting", "up" (in clients)
  marks,     \* marks[d]: RECONFIGUREs in the queue of the connection
  wire,      \* wire[d]: configurations sent and not received
  next,      \* next[d]: next_data, 0 if nil
  wakeups,   \* wakeups[d]: config_semaphore
  loading,   \* loading[d]: what the config thread loads, 0 if it waits
  lmdb,      \* lmdb[d]: the configuration in the data plane's LMDB
  failures,
  from,      \* ghost: from[d]: the worker that sent lmdb[d]
  overtaken, \* ghost: overtaken[v]: an export of v has published over one that
             \* started later
  unpushed,  \* ghost: unpushed[v]: an event or an export failed, and the loop
             \* of v has not pushed the latest configuration since
  refused    \* ghost: refused[d]: what d failed to load last

Exporters == DataPlanes \cup Workers

cp == <<db, notices, posts, loop, snapshot, payload, at, conn, marks>>
dp == <<next, wakeups, loading, lmdb, from, refused>>
vars == <<cp, wire, dp, failures, overtaken, unpushed>>

\* The workers have made their initial export, no data plane is there yet.
Init ==
  /\ db = 1
  /\ notices = [v \in Workers |-> 0] /\ posts = [v \in Workers |-> 0]
  /\ loop = [v \in Workers |-> "waiting"]
  /\ snapshot = [x \in Exporters |-> 0]
  /\ payload = [v \in Workers |-> 1]
  /\ at = [d \in DataPlanes |-> Nobody]
  /\ conn = [d \in DataPlanes |-> "down"]
  /\ marks = [d \in DataPlanes |-> 0]
  /\ wire = [d \in DataPlanes |-> <<>>]
  /\ next = [d \in DataPlanes |-> 0]
  /\ wakeups = [d \in DataPlanes |-> 0]
  /\ loading = [d \in DataPlanes |-> 0]
  /\ lmdb = [d \in DataPlanes |-> 0]
  /\ failures = 0
  /\ from = at
  /\ overtaken = [v \in Workers |-> FALSE] /\ unpushed = [v \in Workers |-> FALSE]
  /\ refused = [d \in DataPlanes |-> 0]

Fails == failures < MaxFailures /\ failures' = failures + 1

Clients(v) == {d \in DataPlanes : conn[d] = "up" /\ at[d] = v}

-----------------------------------------------------------------------------
(* Control plane: the database, events and push_config_loop *)

\* The event is posted to every worker.
Write ==
  /\ db < MaxWrites
  /\ db' = db + 1
  /\ notices' = [v \in Workers |-> notices[v] + 1]
  /\ UNCHANGED <<posts, loop, snapshot, payload, at, conn, marks, wire, dp, failures,
                 overtaken, unpushed>>

\* "unable to broadcast event" is logged.
PostFails ==
  /\ db < MaxWrites /\ Fails
  /\ db' = db + 1
  /\ unpushed' = [v \in Workers |-> TRUE]
  /\ UNCHANGED <<notices, posts, loop, snapshot, payload, at, conn, marks, wire, dp,
                 overtaken>>

\* The handler of "clustering:push_config".
Notice(v) ==
  /\ notices[v] > 0
  /\ notices' = [notices EXCEPT ![v] = @ - 1]
  /\ posts' = [posts EXCEPT ![v] =
       IF @ - (IF loop[v] = "waiting" THEN 1 ELSE 0) <= 0 THEN @ + 1 ELSE @]
  /\ UNCHANGED <<db, loop, snapshot, payload, at, conn, marks, wire, dp, failures,
                 overtaken, unpushed>>

\* Export x of worker v publishes what it found.
Publish(v, x) ==
  /\ payload' = [payload EXCEPT ![v] = snapshot[x]]
  /\ overtaken' = [overtaken EXCEPT ![v] = @ \/ snapshot[x] < payload[v]]
  /\ snapshot' = [snapshot EXCEPT ![x] = 0]

LoopStarts(v) ==
  /\ loop[v] = "start" /\ snapshot[v] = 0
  /\ snapshot' = [snapshot EXCEPT ![v] = db]
  /\ UNCHANGED <<db, notices, posts, loop, payload, at, conn, marks, wire, dp, failures,
                 overtaken, unpushed>>

\* The initial export is not pushed.
LoopStarted(v) ==
  /\ loop[v] = "start" /\ snapshot[v] # 0
  /\ Publish(v, v)
  /\ loop' = [loop EXCEPT ![v] = "waiting"]
  /\ UNCHANGED <<db, notices, posts, at, conn, marks, wire, dp, failures, unpushed>>

\* push_config begins to export; without clients the loop sleeps first.
LoopTakes(v) ==
  /\ loop[v] = "waiting" /\ posts[v] > 0
  /\ posts' = [posts EXCEPT ![v] = @ - 1]
  /\ loop' = [loop EXCEPT ![v] = IF Clients(v) = {} THEN "sleeping" ELSE "exporting"]
  /\ snapshot' = [snapshot EXCEPT ![v] = IF Clients(v) = {} THEN @ ELSE db]
  /\ UNCHANGED <<db, notices, payload, at, conn, marks, wire, dp, failures, overtaken,
                 unpushed>>

\* Mutant: the task is not queued again.
LoopForgets(v) ==
  /\ loop[v] = "sleeping"
  /\ loop' = [loop EXCEPT ![v] = "waiting"]
  /\ UNCHANGED <<db, notices, posts, snapshot, payload, at, conn, marks, wire, dp, failures,
                 overtaken, unpushed>>
\* "re-queue the task. wait until we have clients connected"
LoopRequeues(v) ==
  /\ loop[v] = "sleeping"
  /\ posts' = [posts EXCEPT ![v] = IF @ <= 0 THEN @ + 1 ELSE @]
  /\ loop' = [loop EXCEPT ![v] = "waiting"]
  /\ UNCHANGED <<db, notices, snapshot, payload, at, conn, marks, wire, dp, failures,
                 overtaken, unpushed>>

\* The wait of db_update_frequency that follows is one before LoopTakes.
LoopPushes(v) ==
  /\ loop[v] = "exporting"
  /\ Publish(v, v)
  /\ marks' = [d \in DataPlanes |-> IF d \in Clients(v) THEN marks[d] + 1 ELSE marks[d]]
  /\ unpushed' = [unpushed EXCEPT ![v] = @ /\ snapshot[v] # db]
  /\ loop' = [loop EXCEPT ![v] = "waiting"]
  /\ UNCHANGED <<db, notices, posts, at, conn, wire, dp, failures>>

\* push_config only logs the error; the post is consumed.
LoopExportFails(v) ==
  /\ loop[v] \in {"start", "exporting"} /\ snapshot[v] # 0 /\ Fails
  /\ snapshot' = [snapshot EXCEPT ![v] = 0]
  /\ loop' = [loop EXCEPT ![v] = "waiting"]
  /\ unpushed' = [unpushed EXCEPT ![v] = TRUE]
  /\ UNCHANGED <<db, notices, posts, payload, at, conn, marks, wire, dp, overtaken>>

-----------------------------------------------------------------------------
(* Control plane: handle_cp_websocket.  Which worker accepts is not chosen. *)

\* communicate begins again when its config thread has ended.
CanConnect(d) == conn[d] = "down" /\ loading[d] = 0

Register(d) == conn' = [conn EXCEPT ![d] = "up"]
Mark(d) == marks' = [marks EXCEPT ![d] = @ + 1]

\* Mutant: the read connection is one to a replica that lags behind.
ConnectExportsReplica(d, v) ==
  /\ CanConnect(d)
  /\ Clients(v) = {} \/ payload[v] = 0
  /\ at' = [at EXCEPT ![d] = v]
  /\ conn' = [conn EXCEPT ![d] = "exporting"]
  /\ \E c \in 1..db : snapshot' = [snapshot EXCEPT ![d] = c]
  /\ UNCHANGED <<db, notices, posts, loop, payload, marks, wire, dp, failures,
                 overtaken, unpushed>>
\* "the cached config might be stale, so we always export the latest config"
ConnectExports(d, v) ==
  /\ CanConnect(d)
  /\ Clients(v) = {} \/ payload[v] = 0
  /\ at' = [at EXCEPT ![d] = v]
  /\ conn' = [conn EXCEPT ![d] = "exporting"]
  /\ snapshot' = [snapshot EXCEPT ![d] = db]
  /\ UNCHANGED <<db, notices, posts, loop, payload, marks, wire, dp, failures,
                 overtaken, unpushed>>

Connect(d, v) ==
  /\ CanConnect(d)
  /\ Clients(v) # {} /\ payload[v] # 0
  /\ at' = [at EXCEPT ![d] = v]
  /\ Register(d) /\ Mark(d)
  /\ UNCHANGED <<db, notices, posts, loop, snapshot, payload, wire, dp, failures,
                 overtaken, unpushed>>

\* Mutant: the connection is not told of the payload.
ExportEndsUnmarked(d) ==
  /\ conn[d] = "exporting"
  /\ Publish(at[d], d) /\ Register(d)
  /\ UNCHANGED <<db, notices, posts, loop, at, marks, wire, dp, failures, unpushed>>
ExportEnds(d) ==
  /\ conn[d] = "exporting"
  /\ Publish(at[d], d) /\ Register(d) /\ Mark(d)
  /\ UNCHANGED <<db, notices, posts, loop, at, wire, dp, failures, unpushed>>

\* The connection goes on, with the cached payload if there is one.
ExportFails(d) ==
  /\ conn[d] = "exporting" /\ Fails
  /\ snapshot' = [snapshot EXCEPT ![d] = 0]
  /\ Register(d)
  /\ IF payload[at[d]] # 0 THEN Mark(d) ELSE UNCHANGED marks
  /\ unpushed' = [unpushed EXCEPT ![at[d]] = TRUE]
  /\ UNCHANGED <<db, notices, posts, loop, payload, at, wire, dp, overtaken>>

\* The write thread sends what is cached by now.
Send(d) ==
  /\ conn[d] = "up" /\ marks[d] > 0
  /\ marks' = [marks EXCEPT ![d] = @ - 1]
  /\ wire' = [wire EXCEPT ![d] = Append(@, payload[at[d]])]
  /\ UNCHANGED <<db, notices, posts, loop, snapshot, payload, at, conn, dp, failures,
                 overtaken, unpushed>>

-----------------------------------------------------------------------------
(* Data plane: communicate *)

\* Mutant: only a config thread that waits is woken up.
ReceiveIfWaiting(d) ==
  /\ wire[d] # <<>>
  /\ next' = [next EXCEPT ![d] = Head(wire[d])]
  /\ wire' = [wire EXCEPT ![d] = Tail(@)]
  /\ wakeups' = [wakeups EXCEPT ![d] = IF loading[d] = 0 /\ @ <= 1 THEN @ + 1 ELSE @]
  /\ UNCHANGED <<cp, loading, lmdb, from, refused, failures, overtaken, unpushed>>
\* The read thread keeps the newest configuration only.
Receive(d) ==
  /\ wire[d] # <<>>
  /\ next' = [next EXCEPT ![d] = Head(wire[d])]
  /\ wire' = [wire EXCEPT ![d] = Tail(@)]
  /\ wakeups' = [wakeups EXCEPT ![d] =
       IF @ - (IF loading[d] = 0 THEN 1 ELSE 0) <= 0 THEN @ + 1 ELSE @]
  /\ UNCHANGED <<cp, loading, lmdb, from, refused, failures, overtaken, unpushed>>

\* The config thread wakes up; there may be nothing any more.
Take(d) ==
  /\ loading[d] = 0 /\ wakeups[d] > 0
  /\ wakeups' = [wakeups EXCEPT ![d] = @ - 1]
  /\ loading' = [loading EXCEPT ![d] = next[d]]
  /\ UNCHANGED <<cp, wire, next, lmdb, from, refused, failures, overtaken, unpushed>>

\* "if next_data == data then next_data = nil"
Done(d) ==
  /\ loading' = [loading EXCEPT ![d] = 0]
  /\ next' = [next EXCEPT ![d] = IF @ = loading[d] THEN 0 ELSE @]

\* Mutant: next_data is cleared whatever it is by now.
LoadAndClear(d) ==
  /\ loading[d] # 0
  /\ lmdb' = [lmdb EXCEPT ![d] = loading[d]]
  /\ from' = [from EXCEPT ![d] = at[d]]
  /\ loading' = [loading EXCEPT ![d] = 0]
  /\ next' = [next EXCEPT ![d] = 0]
  /\ refused' = [refused EXCEPT ![d] = 0]
  /\ UNCHANGED <<cp, wire, wakeups, failures, overtaken, unpushed>>
Load(d) ==
  /\ loading[d] # 0
  /\ lmdb' = [lmdb EXCEPT ![d] = loading[d]]
  /\ from' = [from EXCEPT ![d] = at[d]]
  /\ Done(d)
  /\ refused' = [refused EXCEPT ![d] = 0]
  /\ UNCHANGED <<cp, wire, wakeups, failures, overtaken, unpushed>>

\* The error is logged (and reported); the data is dropped all the same.
LoadFails(d) ==
  /\ loading[d] # 0 /\ Fails
  /\ refused' = [refused EXCEPT ![d] = loading[d]]
  /\ Done(d)
  /\ UNCHANGED <<cp, wire, wakeups, lmdb, from, overtaken, unpushed>>

-----------------------------------------------------------------------------
(* Failures *)

\* Mutant: next_data outlives the connection.
BreakKeepsSlot(d) ==
  /\ conn[d] = "up" /\ Fails
  /\ conn' = [conn EXCEPT ![d] = "down"]
  /\ marks' = [marks EXCEPT ![d] = 0]
  /\ wire' = [wire EXCEPT ![d] = <<>>]
  /\ wakeups' = [wakeups EXCEPT ![d] = 0]
  /\ UNCHANGED <<db, notices, posts, loop, snapshot, payload, at, next, loading, lmdb, from,
                 refused, overtaken, unpushed>>
\* Both sides of a connection end; a load that is under way is completed.
Break(d) ==
  /\ conn[d] = "up" /\ Fails
  /\ conn' = [conn EXCEPT ![d] = "down"]
  /\ marks' = [marks EXCEPT ![d] = 0]
  /\ wire' = [wire EXCEPT ![d] = <<>>]
  /\ next' = [next EXCEPT ![d] = 0]
  /\ wakeups' = [wakeups EXCEPT ![d] = 0]
  /\ UNCHANGED <<db, notices, posts, loop, snapshot, payload, at, loading, lmdb, from, refused,
                 overtaken, unpushed>>

\* A worker of the control plane dies and is started again.
Restart(v) ==
  LET closed == {d \in DataPlanes : at[d] = v}
      Reset(f, none) == [d \in DataPlanes |-> IF d \in closed THEN none ELSE f[d]]
  IN  /\ Fails
      /\ notices' = [notices EXCEPT ![v] = 0] /\ posts' = [posts EXCEPT ![v] = 0]
      /\ loop' = [loop EXCEPT ![v] = "start"] /\ payload' = [payload EXCEPT ![v] = 0]
      /\ snapshot' = [x \in Exporters |-> IF x \in closed \cup {v} THEN 0 ELSE snapshot[x]]
      /\ conn' = Reset(conn, "down")
      /\ marks' = Reset(marks, 0) /\ wire' = Reset(wire, <<>>)
      /\ next' = Reset(next, 0) /\ wakeups' = Reset(wakeups, 0)
      /\ UNCHANGED <<db, at, loading, lmdb, from, refused, overtaken, unpushed>>

-----------------------------------------------------------------------------
\* Nothing is under way for the connected data plane d.
Quiet(d) ==
  /\ conn[d] = "up" /\ marks[d] = 0 /\ wire[d] = <<>>
  /\ notices[at[d]] = 0 /\ posts[at[d]] = 0 /\ loop[at[d]] = "waiting"
  /\ next[d] = 0 /\ loading[d] = 0

ControlStep(v) ==
  \/ Notice(v) \/ LoopStarts(v) \/ LoopStarted(v) \/ LoopTakes(v) \/ LoopRequeues(v)
  \/ LoopPushes(v)
Connection(d) ==
  \/ \E v \in Workers : ConnectExports(d, v) \/ Connect(d, v)
  \/ ExportEnds(d) \/ Send(d)
DataStep(d) == Receive(d) \/ Take(d) \/ Load(d)

Next ==
  \/ Write \/ PostFails
  \/ \E v \in Workers : ControlStep(v) \/ LoopExportFails(v) \/ Restart(v)
  \/ \E d \in DataPlanes :
       Connection(d) \/ ExportFails(d) \/ DataStep(d) \/ LoadFails(d) \/ Break(d)
  \/ (\A d \in DataPlanes : Quiet(d)) /\ UNCHANGED vars  \* nothing to do

Spec == Init /\ [][Next]_vars

\* A worker's loop runs; some data plane goes on (reconnects, is sent to, loads)
\* as long as one can.
FairSpec ==
  /\ Spec
  /\ \A v \in Workers : WF_vars(ControlStep(v))
  /\ WF_vars(\E d \in DataPlanes : Connection(d) \/ DataStep(d))

-----------------------------------------------------------------------------
(* Properties *)

TypeOK ==
  /\ db \in 1..MaxWrites /\ failures \in 0..MaxFailures
  /\ \A v \in Workers :
       /\ payload[v] \in 0..db /\ notices[v] \in 0..db
       /\ loop[v] \in {"start", "exporting", "waiting", "sleeping"}
       \* "the semaphore count is guaranteed to not exceed 1"
       /\ posts[v] \in 0..(IF loop[v] = "waiting" THEN 2 ELSE 1)
  /\ \A x \in Exporters : snapshot[x] \in 0..db
  /\ \A d \in DataPlanes :
       /\ conn[d] \in {"down", "exporting", "up"}
       /\ conn[d] = "exporting" <=> snapshot[d] # 0
       /\ conn[d] # "down" => at[d] \in Workers
       /\ conn[d] # "up" => marks[d] = 0 /\ wire[d] = <<>> /\ next[d] = 0
       /\ wakeups[d] \in 0..2
       /\ {next[d], loading[d], lmdb[d], refused[d]} \subseteq 0..db

\* A configuration that waits in the one slot of the config thread always has
\* a wake-up, and nothing overwrites it but a later one: it is loaded next.
SlotIsWatched ==
  \A d \in DataPlanes : next[d] # 0 /\ loading[d] = 0 => wakeups[d] > 0

\* A data plane loads an older configuration over a newer one only when it has
\* moved to another worker, whose payload may be behind: what one worker sends
\* never goes back, through reconnects and restarts, unless an export of this
\* worker that began earlier ended later.
BackOnlyElsewhere ==
  [][\A d \in DataPlanes :
       lmdb'[d] < lmdb[d] => at[d] # from[d] \/ overtaken[at[d]]]_vars

Excused(d) == at[d] \in Workers /\ (overtaken[at[d]] \/ unpushed[at[d]])

\* When nothing is under way for a connected data plane it has the latest
\* configuration, or was not able to load it, although a push may be skipped,
\* merged with others or race its connection, and its worker may have been
\* behind the one it was connected to before.
QuietMeansInSync ==
  \A d \in DataPlanes : Quiet(d) => Excused(d) \/ db \in {lmdb[d], refused[d]}

\* After the last write and failure every data plane gets there.
InSync == <>[](\A d \in DataPlanes : Excused(d) \/ db \in {lmdb[d], refused[d]})
=============================================================================
