--------------------------- MODULE ClusterEvents ---------------------------
(***************************************************************************)
(* kong/cluster_events: nodes of a cluster tell each other, through a      *)
(* table of the shared database, what to invalidate.  broadcast inserts a  *)
(* row; on every node one worker at a time polls the rows of an interval   *)
(* that slides with the database's clock, page by page, and runs the       *)
(* callbacks of the rows the node has not marked yet.                      *)
(*                                                                         *)
(* One tick is the resolution of the `at' column (1 ms in the code).  What *)
(* a node keeps in shared memory: `at' (CURRENT_AT_KEY), `marks' (one key  *)
(* per row, with an expiry).  What lives in a worker: `cursor', `due'.     *)
(***************************************************************************)
EXTENDS Integers, FiniteSets

CONSTANTS
  Nodes,
  Pollers,         \* bound: the nodes whose polling is followed; nodes do not
                   \* interact but through the table
  PollInterval,    \* db_update_frequency
  PollOffset,      \* poll_offset: db_update_propagation
  PollDelay,       \* poll_delay: db_update_propagation; 0 when not set
  PageSize,        \* PAGE_SIZE
  MaxCommitDelay,  \* from a row's CURRENT_TIMESTAMP to its commit, at most
  Slack,           \* how late a timer may fire and a poll may end
  Failures,        \* whether a query or the marking of a row may fail
  Reloads,         \* bound: how many times workers are started anew
  MaxEvents,       \* bound: rows inserted
  MaxTime          \* bound: the clock

ASSUME ClusterEventsAssumption ==
  /\ Pollers \subseteq Nodes
  /\ {PollInterval, PageSize} \subseteq Nat \ {0}
  /\ {PollOffset, PollDelay, MaxCommitDelay, Slack, Reloads, MaxEvents,
      MaxTime} \subseteq Nat
  /\ Failures \in BOOLEAN

VARIABLES
  now,       \* the database's clock
  rows,      \* the cluster_events table, in the order of the inserts
  at,        \* at[n]: CURRENT_AT_KEY in the node's shm
  marks,     \* marks[n][i]: when the mark of row i expires, 0 if never set
  cursor,    \* cursor[n]: the poll in progress, or NoPoll
  lastPoll,  \* when the node's last poll began
  due,       \* due[n]: rows whose callbacks a timer runs at their nbf
  ran,       \* ghost: how often the node ran the callbacks of a row
  failed,    \* ghost: the nodes a poll of which failed or was cut short
  torn,      \* ghost: the rows a page left behind although it took a row of
             \* the same `at'
  reloads    \* bound: how many reloads happened

vars == <<now, rows, at, marks, cursor, lastPoll, due, ran, failed, torn,
          reloads>>
nodeVars == <<at, marks, cursor, lastPoll, due, ran, failed, torn>>

NoPoll == [min |-> 0, page |-> -1]
Ids == 1..MaxEvents
Rows == DOMAIN rows
\* Mutant: marks last no longer than the pause between two polls.
EventTtlShort == PollInterval
EventTtlShm == PollInterval * 2 + PollOffset

Init ==
  /\ now = 0
  /\ rows = << >>
  /\ at = [n \in Pollers |-> 0]
  /\ marks = [n \in Pollers |-> [i \in Ids |-> 0]]
  /\ cursor = [n \in Pollers |-> NoPoll]
  /\ lastPoll = [n \in Pollers |-> 0]
  /\ due = [n \in Pollers |-> {}]
  /\ ran = [n \in Pollers |-> [i \in Ids |-> 0]]
  /\ failed = {}
  /\ torn = [n \in Pollers |-> {}]
  /\ reloads = 0

-----------------------------------------------------------------------------
(* Publishing *)

\* The INSERT takes its `at' from the start of its transaction ...
Broadcast(n) ==
  LET i == Cardinality(Rows) + 1
  IN  /\ i \in Ids
      /\ rows' = [j \in 1..i |->
                    IF j < i THEN rows[j]
                    ELSE [node |-> n, at |-> now,
                          nbf |-> IF PollDelay > 0 THEN now + PollDelay ELSE -1,
                          committed |-> -1]]
      /\ UNCHANGED <<now, nodeVars, reloads>>

\* ... and becomes visible when it commits.
Commit(i) ==
  /\ rows[i].committed < 0
  /\ rows' = [rows EXCEPT ![i].committed = now]
  /\ UNCHANGED <<now, nodeVars, reloads>>

-----------------------------------------------------------------------------
(* Polling *)

Polling(n) == cursor[n] # NoPoll

\* min_at, one tick (0.001 s) below the grace period
Grace(n) == at[n] - PollOffset - 1

\* poll_handler gets both locks and reads `at'.
StartPoll(n) ==
  /\ ~Polling(n)
  /\ now >= lastPoll[n] + PollInterval
  /\ lastPoll' = [lastPoll EXCEPT ![n] = now]
  /\ cursor' = [cursor EXCEPT ![n] = [min |-> Grace(n), page |-> 0]]
  /\ UNCHANGED <<now, rows, at, marks, due, ran, failed, torn, reloads>>

Selected(min) ==
  {i \in Rows : rows[i].committed >= 0 /\ rows[i].at > min /\ rows[i].at <= now}

\* What may be the first k rows of S (all of them, if there are no more) in
\* the order of ORDER BY "at", which leaves the order of equal times open.
FirstOf(S, k) ==
  {F \in SUBSET S : /\ Cardinality(F) = k \/ (F = S /\ Cardinality(F) < k)
                    /\ \A i \in F, j \in S \ F : rows[i].at <= rows[j].at}

\* What LIMIT PageSize OFFSET page * PageSize may return: each page is a query
\* of its own, so that equal times may come in another order than before.
Pages(n) ==
  LET S == Selected(cursor[n].min)
  IN  UNION {FirstOf(S \ F, PageSize) : F \in FirstOf(S, cursor[n].page * PageSize)}

\* The rows that a page P of n divides from a row of the same time.
Divided(n, P) ==
  {i \in Selected(cursor[n].min) \ P : \E j \in P : rows[i].at = rows[j].at}

\* A mark expires with its shm key.
Marked(n, i) == marks[n][i] > now

\* process_event for every row of S: own and marked rows are skipped, the
\* others are marked first, then run, or scheduled for their nbf.
Process(n, S) ==
  LET new   == {i \in S : rows[i].node # n /\ ~Marked(n, i)}
      later == {i \in new : rows[i].nbf > now}
  IN  /\ marks' = [marks EXCEPT ![n] =
                     [i \in Ids |-> IF i \in new THEN now + EventTtlShm ELSE @[i]]]
      /\ due' = [due EXCEPT ![n] = @ \cup later]
      /\ ran' = [ran EXCEPT ![n] =
                   [i \in Ids |-> @[i] + (IF i \in new \ later THEN 1 ELSE 0)]]

\* Mutant: a clock ahead of the database's is stored.
AdvanceAhead(n) ==
  at' = IF cursor[n].page = 0 THEN [at EXCEPT ![n] = now + 1] ELSE at
\* `at' moves once per poll, to the clock the first page was read at.
Advance(n) ==
  at' = IF cursor[n].page = 0 THEN [at EXCEPT ![n] = now] ELSE at

\* Mutant: a poll ends with its first page.
NextPageNever(n, P) == cursor' = [cursor EXCEPT ![n] = NoPoll]
NextPage(n, P) ==
  cursor' = IF Cardinality(P) < PageSize THEN [cursor EXCEPT ![n] = NoPoll]
            ELSE [cursor EXCEPT ![n].page = @ + 1]

FetchPage(n) ==
  /\ Polling(n)
  /\ \E P \in Pages(n) :
       /\ IF P = {}
          THEN /\ cursor' = [cursor EXCEPT ![n] = NoPoll]
               /\ UNCHANGED <<at, marks, due, ran>>
          ELSE /\ Advance(n)
               /\ Process(n, P)
               /\ NextPage(n, P)
       /\ torn' = [torn EXCEPT ![n] = @ \cup Divided(n, P)]
  /\ UNCHANGED <<now, rows, lastPoll, failed, reloads>>

\* Marking the row after the k-th fails (no memory): the poll returns.
FetchPageFails(n) ==
  /\ Polling(n) /\ Failures
  /\ \E P \in Pages(n) : \E k \in 0..(Cardinality(P) - 1) : \E F \in FirstOf(P, k) :
       /\ Advance(n)
       /\ Process(n, F)
  /\ cursor' = [cursor EXCEPT ![n] = NoPoll]
  /\ failed' = failed \cup {n}
  /\ UNCHANGED <<now, rows, lastPoll, torn, reloads>>

\* The query of a page fails: the poll returns.
QueryFails(n) ==
  /\ Polling(n) /\ Failures
  /\ cursor' = [cursor EXCEPT ![n] = NoPoll]
  /\ failed' = failed \cup {n}
  /\ UNCHANGED <<now, rows, at, marks, lastPoll, due, ran, torn, reloads>>

\* The timer of a row with nbf fires.
NbfFires(n, i) ==
  /\ i \in due[n] /\ now >= rows[i].nbf
  /\ due' = [due EXCEPT ![n] = @ \ {i}]
  /\ ran' = [ran EXCEPT ![n][i] = @ + 1]
  /\ UNCHANGED <<now, rows, at, marks, cursor, lastPoll, failed, torn, reloads>>

\* A worker is started (nginx reload, respawn after a crash): new() sets `at'
\* to the database's clock, the old worker's poll and timers end (premature);
\* the marks, like the caches, stay in shared memory.
Reload(n) ==
  /\ reloads < Reloads
  /\ reloads' = reloads + 1
  /\ failed' = failed \cup {n}
  /\ at' = [at EXCEPT ![n] = now]
  /\ cursor' = [cursor EXCEPT ![n] = NoPoll]
  /\ due' = [due EXCEPT ![n] = {}]
  /\ \E t \in {lastPoll[n], now} : lastPoll' = [lastPoll EXCEPT ![n] = t]
  /\ UNCHANGED <<now, rows, marks, ran, torn>>

\* Time passes; commits, polls and nbf timers are at most so late.
Tick ==
  /\ now < MaxTime
  /\ \A i \in Rows : rows[i].committed < 0 => now < rows[i].at + MaxCommitDelay
  /\ \A n \in Pollers : /\ ~Polling(n) => now < lastPoll[n] + PollInterval + Slack
                        /\ Polling(n) => now < lastPoll[n] + Slack
                        /\ \A i \in due[n] : now < rows[i].nbf + Slack
  /\ now' = now + 1
  /\ UNCHANGED <<rows, nodeVars, reloads>>

TimeUp == now = MaxTime /\ UNCHANGED vars

Next ==
  \/ Tick \/ TimeUp
  \/ \E i \in Rows : Commit(i)
  \/ \E n \in Nodes : Broadcast(n)
  \/ \E n \in Pollers :
       \/ StartPoll(n) \/ FetchPage(n) \/ FetchPageFails(n) \/ QueryFails(n)
       \/ \E i \in due[n] : NbfFires(n, i)
       \/ Reload(n)

Spec == Init /\ [][Next]_vars

-----------------------------------------------------------------------------
(* Properties *)

TypeOK ==
  /\ now \in 0..MaxTime
  /\ Rows \in {1..k : k \in 0..MaxEvents}
  /\ \A i \in Rows : rows[i] \in [node : Nodes, at : 0..MaxTime, nbf : Int,
                                  committed : -1..MaxTime]
  /\ at \in [Pollers -> 0..MaxTime]
  /\ marks \in [Pollers -> [Ids -> Nat]]
  /\ \A n \in Pollers : cursor[n].min \in Int /\ cursor[n].page \in -1..MaxEvents
  /\ due \in [Pollers -> SUBSET Ids]
  /\ failed \subseteq Pollers
  /\ torn \in [Pollers -> SUBSET Ids]
  /\ ran \in [Pollers -> [Ids -> Nat]]

Handled(n, i) == ran[n][i] > 0 \/ i \in due[n]

\* Every other node has run the callbacks of a committed row, or scheduled
\* them for its nbf, when the next poll after the commit has had time to end:
\* no row falls between two intervals, or between two pages, while polls succeed
\* and no page ends between the row and another of the same time.
HandledByNextPoll ==
  \A n \in Pollers \ failed : \A i \in Rows \ torn[n] :
    /\ rows[i].node # n /\ rows[i].committed >= 0
    /\ now > rows[i].committed + PollInterval + 2 * Slack
    => Handled(n, i)

\* A committed row that no later poll will select has been handled: "other
\* nodes need to wait for the next poll to eventually purge the old entity".
NoEventSkipped ==
  \A n \in Pollers, i \in Rows :
    /\ rows[i].node # n /\ rows[i].committed >= 0
    /\ ~Polling(n) /\ rows[i].at <= Grace(n)
    => Handled(n, i)

\* The grace period makes a node select a row again and again: the mark keeps
\* its callbacks from running twice, while polls succeed (a failing one does
\* not move the interval, and the marks expire).
RunsAtMostOnce ==
  \A n \in Pollers \ failed, i \in Rows : ran[n][i] + (IF i \in due[n] THEN 1 ELSE 0) <= 1
=============================================================================
