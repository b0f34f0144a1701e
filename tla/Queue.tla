------------------------------- MODULE Queue -------------------------------
(***************************************************************************)
(* One queue of kong/tools/queue.lua: the entries plugins enqueue from     *)
(* request coroutines, the background timer that batches them and the      *)
(* retry loop around the plugin's handler.                                 *)
(*                                                                         *)
(* Lua coroutines run until they yield, so every action is one stretch     *)
(* between two yield points: Enqueue never yields; the timer yields in     *)
(* semaphore:wait (pc = "wait"), in the handler and in ngx.sleep.          *)
(*                                                                         *)
(* `entries' is the Lua array between front and back; `behind' is          *)
(* front - back when deletions ran past the back of the array.             *)
(***************************************************************************)
EXTENDS Integers, Sequences

CONSTANTS
  MaxBatchSize,       \* max_batch_size
  MaxEntries,         \* max_entries
  MaxBytes,           \* max_bytes, 0 when it is not set
  Coalesce,           \* max_coalescing_delay >= COALESCE_MIN_TIME
  MaxRetryTime,       \* max_retry_time, in ticks
  InitialRetryDelay,  \* initial_retry_delay, in ticks
  MaxRetryDelay,      \* max_retry_delay, in ticks
  Sizes,              \* the sizes #entry of the values enqueued; 0 also
                      \* stands for a table, which max_bytes does not count
                      \* (an error is logged, the table is stored)
  HandlerTimes,       \* how long one call of the handler may take, in ticks
  MaxId               \* bound: how many entries are stored in one behaviour

ASSUME QueueAssumption ==
  /\ MaxBatchSize \in Nat \ {0}
  /\ MaxEntries \in Nat \ {0}
  /\ MaxBytes \in Nat
  /\ Coalesce \in BOOLEAN
  /\ MaxRetryTime \in Nat
  /\ InitialRetryDelay \in Nat \ {0}
  /\ MaxRetryDelay \in Nat \ {0}
  /\ Sizes \subseteq Nat
  /\ HandlerTimes \subseteq Nat
  /\ MaxId \in Nat

VARIABLES
  pc,           \* the timer: "none" no queue under this key, "scheduled",
                \* "wait", "handler", "sleep"; "dead" it raised an error,
                \* "spin" its loop goes round without yielding
  entries,      \* the stored entries, oldest first
  behind,       \* max(0, front - back)
  bytesQueued,  \* bytes_queued
  sem,          \* the resources of the semaphore
  claimed,      \* entry_count while the timer coalesces
  batch,        \* the entries handed to the handler
  elapsed,      \* now() - start_time in the retry loop
  delay,        \* min(max_retry_delay, 2 ^ retry_count * initial_retry_delay)
  nextId,       \* ghost: entry ids in the order of storing
  delivered,    \* ghost: ids the handler acknowledged
  lost,         \* ghost: ids given up after max_retry_time
  dropped,      \* ghost: ids removed by drop_oldest_entry
  raised        \* ghost: an enqueue raised an assertion error

ghosts == <<nextId, delivered, lost, dropped, raised>>
vars == <<pc, entries, behind, bytesQueued, sem, claimed, batch, elapsed,
          delay, ghosts>>

Entry == [id : Nat, size : Nat]
Lesser(a, b) == IF a < b THEN a ELSE b
FirstDelay == Lesser(MaxRetryDelay, InitialRetryDelay)

\* Mutant: one entry more than asked for is deleted.
DropTooMany(s, n) == SubSeq(s, IF n = 0 THEN 1 ELSE n + 2, Len(s))
\* n calls of delete_frontmost_entry
Drop(s, n) == SubSeq(s, n + 1, Len(s))
Ids(s) == {s[i].id : i \in DOMAIN s}

\* The bytes of the first n entries of s.
Bytes(s, n) ==
  LET upTo[i \in 0..Len(s)] == IF i = 0 THEN 0 ELSE upTo[i-1] + s[i].size
  IN  upTo[n]

BytesAfter(n) == IF MaxBytes = 0 THEN 0 ELSE bytesQueued - Bytes(entries, n)

Count == Len(entries) - behind

\* The semaphore of OpenResty: a waiter is only woken by a later event, so
\* until then a post leaves a resource in the semaphore and a waiter on it.
Waiting == pc = "wait"
SemCount == sem - (IF Waiting THEN 1 ELSE 0)

Init ==
  /\ pc = "none"
  /\ entries = << >> /\ behind = 0 /\ bytesQueued = 0
  /\ sem = 0 /\ claimed = 0 /\ batch = << >>
  /\ elapsed = 0 /\ delay = FirstDelay
  /\ nextId = 1
  /\ delivered = {} /\ lost = {} /\ dropped = {} /\ raised = FALSE

-----------------------------------------------------------------------------
(* The producers. *)

\* Mutant: the capacity test comes one entry late.
FullLate == IF Count > MaxEntries THEN 1 ELSE 0
Full == IF Count = MaxEntries THEN 1 ELSE 0
Oversize(size) == MaxBytes # 0 /\ size > MaxBytes

Fits(d, size) ==
  \/ MaxBytes = 0 \/ Oversize(size)
  \/ Count - d <= 0
  \/ BytesAfter(d) + size <= MaxBytes

\* enqueue calls drop_oldest_entry exactly d times, if no call fails
DropsNeeded(d, size) ==
  /\ d >= Full
  /\ Fits(d, size)
  /\ \A c \in Full..(d - 1) : ~Fits(c, size)

\* How many calls of drop_oldest_entry succeed in a row: each asserts that
\* semaphore:count() > 0; its wait(0) takes a resource only when the timer
\* is not queued on the semaphore.
Droppable == IF Waiting THEN (IF SemCount > 0 THEN Len(entries) ELSE 0)
             ELSE sem

DropOldest(d) ==
  /\ entries' = Drop(entries, d)
  /\ dropped' = dropped \cup Ids(SubSeq(entries, 1, d))

\* Mutant: a drop forgets wait(0).
SemAfterNoWait(d) == sem
SemAfter(d) == IF Waiting THEN sem ELSE sem - d

\* The assertion of drop_oldest_entry fails at the call after the d-th.
EnqueueRaises(d) ==
  /\ DropOldest(d)
  /\ bytesQueued' = BytesAfter(d)
  /\ sem' = SemAfter(d)
  /\ raised' = TRUE
  /\ UNCHANGED <<pc, behind, nextId>>

\* The entry is longer than max_bytes: enqueue returns an error, after it
\* has made room for it in a full queue.
EnqueueRejects(d) ==
  /\ DropOldest(d)
  /\ bytesQueued' = BytesAfter(d)
  /\ sem' = SemAfter(d)
  /\ UNCHANGED <<pc, behind, nextId, raised>>

\* Mutant: the dropped entries are the newest ones.
EnqueueStoresNewest(d, size) ==
  /\ entries' = Append(SubSeq(entries, 1, Len(entries) - d),
                       [id |-> nextId, size |-> size])
  /\ dropped' = dropped \cup Ids(Drop(entries, Len(entries) - d))
  /\ behind' = 0
  /\ bytesQueued' = IF MaxBytes = 0 THEN 0 ELSE BytesAfter(d) + size
  /\ sem' = SemAfter(d) + 1
  /\ nextId' = nextId + 1
  /\ UNCHANGED <<pc, raised>>

\* Mutant: an entry that takes the place of a dropped one is not posted.
EnqueueStoresUnposted(d, size) ==
  /\ entries' = Append(Drop(entries, d), [id |-> nextId, size |-> size])
  /\ dropped' = dropped \cup Ids(SubSeq(entries, 1, d))
  /\ behind' = 0
  /\ bytesQueued' = IF MaxBytes = 0 THEN 0 ELSE BytesAfter(d) + size
  /\ sem' = IF d > 0 THEN SemAfter(d) ELSE sem + 1
  /\ nextId' = nextId + 1
  /\ UNCHANGED <<pc, raised>>

EnqueueStores(d, size) ==
  /\ IF behind > 0   \* the slot lies before front: nothing ever reads it
     THEN entries' = entries /\ behind' = behind - 1 /\ dropped' = dropped
     ELSE /\ entries' = Append(Drop(entries, d), [id |-> nextId, size |-> size])
          /\ dropped' = dropped \cup Ids(SubSeq(entries, 1, d))
          /\ behind' = 0
  /\ bytesQueued' = IF MaxBytes = 0 THEN 0 ELSE BytesAfter(d) + size
  /\ sem' = SemAfter(d) + 1
  /\ nextId' = nextId + 1
  /\ UNCHANGED <<pc, raised>>

\* Queue.enqueue when a queue is registered under the key.
Enqueue(size) ==
  /\ pc \notin {"none", "spin"}
  /\ nextId <= MaxId
  /\ \E d \in 0..Len(entries) :
       /\ DropsNeeded(d, size)
       /\ IF d > Droppable THEN EnqueueRaises(Droppable)
          ELSE IF Oversize(size) THEN EnqueueRejects(d)
          ELSE EnqueueStores(d, size)
  /\ UNCHANGED <<claimed, batch, elapsed, delay, delivered, lost>>

\* Queue.enqueue creates the queue, schedules its timer, stores the entry.
EnqueueFirst(size) ==
  /\ pc = "none"
  /\ nextId <= MaxId
  /\ pc' = "scheduled"
  /\ IF Oversize(size)
     THEN UNCHANGED <<entries, bytesQueued, sem, nextId>>
     ELSE /\ entries' = <<[id |-> nextId, size |-> size]>>
          /\ bytesQueued' = IF MaxBytes = 0 THEN 0 ELSE size
          /\ sem' = 1
          /\ nextId' = nextId + 1
  /\ UNCHANGED <<behind, claimed, batch, elapsed, delay, delivered, lost,
                 dropped, raised>>

-----------------------------------------------------------------------------
(* The timer. *)

\* Take k claimed entries off the queue and call the handler. With max_bytes
\* set, deleting an entry that is not there raises an error (#nil).
Send(k, s) ==
  LET n == Lesser(k, Len(entries))
  IN  /\ batch' = SubSeq(entries, 1, n)
      /\ entries' = Drop(entries, n)
      /\ behind' = IF MaxBytes = 0 THEN k - n ELSE 0
      /\ bytesQueued' = BytesAfter(n)
      /\ sem' = s
      /\ claimed' = 0
      /\ elapsed' = 0
      /\ delay' = FirstDelay
      /\ pc' = IF k > n /\ MaxBytes # 0 THEN "dead" ELSE "handler"

\* Go on coalescing with k entries claimed and s resources left: take what
\* the semaphore offers at once, then send or wait for more.
Collect(k, s, expired) ==
  LET all == IF Coalesce /\ ~expired THEN Lesser(MaxBatchSize, k + s) ELSE k
  IN  IF all = MaxBatchSize \/ ~Coalesce \/ expired
      THEN Send(all, s - (all - k))
      ELSE /\ pc' = "wait"
           /\ claimed' = all
           /\ sem' = s - (all - k)
           /\ batch' = << >>
           /\ UNCHANGED <<entries, behind, bytesQueued, elapsed, delay>>

\* The timer's while loop, from its test of count().
NextIteration ==
  \/ /\ Count <= 0
     /\ pc' = "none"
     /\ entries' = << >> /\ behind' = 0 /\ bytesQueued' = 0 /\ sem' = 0
     /\ claimed' = 0 /\ batch' = << >>
     /\ elapsed' = 0 /\ delay' = FirstDelay
  \/ /\ Count > 0
     /\ IF sem > 0 THEN Collect(1, sem - 1, FALSE)
        ELSE /\ pc' = "spin" /\ batch' = << >>
             /\ UNCHANGED <<entries, behind, bytesQueued, sem, claimed,
                            elapsed, delay>>

TimerFires ==
  /\ pc = "scheduled"
  /\ NextIteration
  /\ UNCHANGED ghosts

\* Mutants: a wait that timed out counts as an entry; the entry whose post
\* woke the timer is not counted.
WakeAlways ==
  /\ Waiting
  /\ \E expired \in BOOLEAN : Collect(claimed + 1, sem - 1, expired)
  /\ UNCHANGED ghosts
WakeUncounted ==
  /\ Waiting /\ sem > 0
  /\ \E expired \in BOOLEAN : Collect(claimed, sem - 1, expired)
  /\ UNCHANGED ghosts

\* A post wakes the coalescing timer; `expired': the coalescing delay is over.
Wake ==
  /\ Waiting /\ sem > 0
  /\ \E expired \in BOOLEAN : Collect(claimed + 1, sem - 1, expired)
  /\ UNCHANGED ghosts

\* The wait times out and the coalescing delay is over (a time-out before
\* that goes round the loop and waits again).
WaitTimesOut ==
  /\ Waiting
  /\ Send(claimed, sem)
  /\ UNCHANGED ghosts

HandlerSucceeds ==
  /\ pc = "handler"
  /\ delivered' = delivered \cup Ids(batch)
  /\ NextIteration
  /\ UNCHANGED <<nextId, lost, dropped, raised>>

\* The handler fails (or raises) after d ticks and max_retry_time is over.
GivesUp ==
  /\ pc = "handler"
  /\ \E d \in HandlerTimes : elapsed + d > MaxRetryTime
  /\ lost' = lost \cup Ids(batch)
  /\ NextIteration
  /\ UNCHANGED <<nextId, delivered, dropped, raised>>

HandlerFails ==
  /\ pc = "handler"
  /\ \E d \in HandlerTimes :
       /\ elapsed + d <= MaxRetryTime
       /\ elapsed' = elapsed + d
  /\ pc' = "sleep"
  /\ UNCHANGED <<entries, behind, bytesQueued, sem, claimed, batch, delay,
                 ghosts>>

\* Mutants: the delay grows without its cap; the retry clock starts again.
SleepEndsUncapped ==
  /\ pc = "sleep"
  /\ elapsed' = elapsed + delay
  /\ delay' = 2 * delay
  /\ pc' = "handler"
  /\ UNCHANGED <<entries, behind, bytesQueued, sem, claimed, batch, ghosts>>
SleepEndsRestartsClock ==
  /\ pc = "sleep"
  /\ elapsed' = 0
  /\ delay' = Lesser(MaxRetryDelay, 2 * delay)
  /\ pc' = "handler"
  /\ UNCHANGED <<entries, behind, bytesQueued, sem, claimed, batch, ghosts>>
SleepEnds ==
  /\ pc = "sleep"
  /\ elapsed' = elapsed + delay
  /\ delay' = Lesser(MaxRetryDelay, 2 * delay)
  /\ pc' = "handler"
  /\ UNCHANGED <<entries, behind, bytesQueued, sem, claimed, batch, ghosts>>

-----------------------------------------------------------------------------
Producer == \E size \in Sizes : Enqueue(size) \/ EnqueueFirst(size)

\* The producers have used up MaxId and the queue is done, or its timer died.
AllSettled == pc \in {"none", "dead"} /\ nextId > MaxId /\ UNCHANGED vars

Timer ==
  \/ TimerFires \/ Wake \/ WaitTimesOut
  \/ HandlerSucceeds \/ GivesUp \/ HandlerFails \/ SleepEnds

Next == Producer \/ Timer \/ AllSettled

Spec == Init /\ [][Next]_vars

\* Timers fire, waits end, the handler returns (its own time-outs bound it).
Fairness ==
  /\ WF_vars(TimerFires)
  /\ WF_vars(Wake \/ WaitTimesOut)
  /\ WF_vars(HandlerSucceeds \/ GivesUp \/ HandlerFails)
  /\ WF_vars(SleepEnds)

FairSpec == Spec /\ Fairness

\* The queue among producers that leave it room: while the timer coalesces,
\* no enqueue needs an old entry dropped (a batch and the entries enqueued
\* before the timer has claimed them fit max_entries and max_bytes together).
\* Between a post and the timer's wake-up any number of entries may come.
LeavesRoom(size) == Waiting => DropsNeeded(0, size)

RoomyProducer ==
  \E size \in Sizes : \/ LeavesRoom(size) /\ Enqueue(size)
                      \/ EnqueueFirst(size)

RoomyNext == RoomyProducer \/ Timer \/ AllSettled

RoomySpec == Init /\ [][RoomyNext]_vars
RoomyFairSpec == RoomySpec /\ Fairness

-----------------------------------------------------------------------------
(* Properties *)

\* The values of the queue object and of the ghosts; bytes are counted only
\* when max_bytes is set.
ObjectTypeOK ==
  /\ pc \in {"none", "scheduled", "wait", "handler", "sleep", "dead", "spin"}
  /\ entries \in Seq(Entry) /\ batch \in Seq(Entry)
  /\ behind \in Nat
  /\ MaxBytes = 0 => bytesQueued = 0
  /\ sem \in Nat /\ claimed \in Nat
  /\ elapsed \in Nat /\ delay \in Nat

GhostTypeOK ==
  /\ nextId \in Nat
  /\ delivered \subseteq Nat /\ lost \subseteq Nat /\ dropped \subseteq Nat
  /\ raised \in BOOLEAN

TypeOK == ObjectTypeOK /\ GhostTypeOK

\* The semaphore and the claimed count stand for exactly the entries stored.
\* If they claimed more, a batch would contain nil and deletions would run
\* past the back of the array; if fewer, the timer's loop would never end.
SemaphoreTracksEntries ==
  pc # "none" => Len(entries) = claimed + sem /\ behind = 0

\* Configurations, the default one among them, in which the timer never waits
\* for more entries: nothing is asked of the producers then.
NeverCoalesces == MaxBatchSize = 1 \/ ~Coalesce

\* drop_oldest_entry's assertion never fails: when max_entries or max_bytes
\* is exceeded an old entry is discarded and the new one is queued, as the
\* header of queue.lua says.
EnqueueNeverRaises == ~raised

\* Whatever the producers do, that assertion can only fail while the timer
\* coalesces: no miscount outlives the batch it arose in so as to make a later
\* enqueue raise while a batch is sent or retried.
RaisesOnlyCoalescing == [][raised' # raised => Waiting]_vars

\* max_entries bounds what waits, max_bytes (if one entry fits) what it weighs.
CapacityRespected ==
  /\ Len(entries) <= MaxEntries
  /\ MaxBytes # 0 => bytesQueued = Bytes(entries, Len(entries)) /\ bytesQueued <= MaxBytes

\* Every stored entry is on the queue, in the batch being sent, acknowledged,
\* given up after max_retry_time or dropped to make room, and only one of these.
NoEntryVanishes ==
  LET parts == <<Ids(entries), IF pc \in {"handler", "sleep"} THEN Ids(batch) ELSE {},
                 delivered, lost, dropped>>
  IN  /\ UNION {parts[i] : i \in 1..5} = 1..(nextId - 1)
      /\ \A i, j \in 1..5 : i # j => parts[i] \cap parts[j] = {}

\* The inductive form of the counts' agreement: the timer waits only with an
\* incomplete batch, and claims nothing otherwise.
CountsInv ==
  /\ behind = 0
  /\ Len(entries) = claimed + sem
  /\ Len(entries) <= MaxEntries
  /\ IF pc = "wait" THEN /\ Coalesce
                         /\ claimed \in 1..(MaxBatchSize - 1)
     ELSE claimed = 0
  /\ pc = "none" => sem = 0
  /\ pc \notin {"dead", "spin"}
  /\ ~raised

\* "it is retried for up to max_retry_time seconds": no attempt starts later
\* than one capped delay after that budget.
RetryBudgetRespected == pc = "handler" => elapsed <= MaxRetryTime + MaxRetryDelay

\* The timer's loop never goes round without yielding, which would stop every
\* request of the worker: whatever is counted on the queue can be claimed.
NoBusyLoop == pc # "spin"

\* Every stored entry is eventually acknowledged, given up or dropped, even if
\* the handler never succeeds and the producers go on: no queue is left behind
\* with entries and without a timer.
EveryEntrySettled ==
  \A i \in 1..MaxId : (i < nextId) ~> (i \in delivered \cup lost \cup dropped)

\* The queue is a bounded first-in first-out buffer that loses only its oldest
\* entries, and keeps sending.
Fifo == INSTANCE LossyFifo WITH
  Capacity <- MaxEntries, BatchSize <- MaxBatchSize,
  stored <- nextId - 1,
  waiting <- [i \in DOMAIN entries |-> entries[i].id],
  sending <- [i \in DOMAIN batch |-> batch[i].id],
  acked <- delivered, failed <- lost, discarded <- dropped

ImplementsFifo == Fifo!Spec
=============================================================================
