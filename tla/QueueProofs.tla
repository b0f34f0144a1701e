---------------------------- MODULE QueueProofs ----------------------------
(***************************************************************************)
(* What holds of the queue of kong/tools/queue.lua for every value of its  *)
(* parameters: type correctness, the retry budget, both capacity limits,   *)
(* no busy loop and where enqueue may raise, whatever the producers do;    *)
(* and, among producers that leave a coalescing timer room (RoomySpec),    *)
(* that the semaphore and the array agree, that enqueue never raises, that *)
(* no entry vanishes and that the queue implements the buffer LossyFifo.   *)
(***************************************************************************)
EXTENDS Queue, TLAPS, SequenceTheorems, WellFoundedInduction

USE QueueAssumption

-----------------------------------------------------------------------------
(* Sequences of entries. *)

\* Splitting a sequence after its first n elements: the two halves are typed
\* and their lengths add up (delete_frontmost_entry called n times).
LEMMA SplitProperties ==
  ASSUME NEW S, NEW s \in Seq(S), NEW n \in 0..Len(s)
  PROVE  /\ SubSeq(s, 1, n) \in Seq(S)
         /\ Len(SubSeq(s, 1, n)) = n
         /\ \A i \in 1..n : SubSeq(s, 1, n)[i] = s[i]
         /\ Drop(s, n) \in Seq(S)
         /\ Len(Drop(s, n)) = Len(s) - n
         /\ \A i \in 1..(Len(s) - n) : Drop(s, n)[i] = s[n + i]
<1>1. Len(s) \in Nat /\ n \in Nat
  OBVIOUS
<1>2. \A i \in 1..n : s[i] \in S
  OBVIOUS
<1>3. \A i \in (n + 1)..Len(s) : s[i] \in S
  OBVIOUS
<1>4. /\ SubSeq(s, 1, n) \in Seq(S)
      /\ Len(SubSeq(s, 1, n)) = n
      /\ \A i \in 1..n : SubSeq(s, 1, n)[i] = s[i]
  <2>1. /\ SubSeq(s, 1, n) \in Seq(S)
        /\ Len(SubSeq(s, 1, n)) = IF 1 <= n THEN n - 1 + 1 ELSE 0
        /\ \A i \in 1..(n - 1 + 1) : SubSeq(s, 1, n)[i] = s[1 + i - 1]
    BY <1>1, <1>2, SubSeqProperties
  <2> QED
    BY <2>1, <1>1
<1>5. /\ SubSeq(s, n + 1, Len(s)) \in Seq(S)
      /\ Len(SubSeq(s, n + 1, Len(s))) = Len(s) - n
      /\ \A i \in 1..(Len(s) - n) : SubSeq(s, n + 1, Len(s))[i] = s[n + i]
  <2>1. /\ SubSeq(s, n + 1, Len(s)) \in Seq(S)
        /\ Len(SubSeq(s, n + 1, Len(s)))
             = IF n + 1 <= Len(s) THEN Len(s) - (n + 1) + 1 ELSE 0
        /\ \A i \in 1..(Len(s) - (n + 1) + 1) :
             SubSeq(s, n + 1, Len(s))[i] = s[(n + 1) + i - 1]
    BY <1>1, <1>3, SubSeqProperties
  <2> QED
    BY <2>1, <1>1
<1> QED
  BY <1>4, <1>5 DEF Drop

\* One entry more is stored.
LEMMA AppendLength ==
  ASSUME NEW s \in Seq(Entry), NEW e \in Entry
  PROVE  Len(Append(s, e)) = Len(s) + 1
  BY AppendProperties

\* The ids of a sequence of entries are numbers.
LEMMA IdsType ==
  ASSUME NEW s \in Seq(Entry)
  PROVE  Ids(s) \subseteq Nat
<1>1. \A i \in DOMAIN s : s[i] \in Entry
  OBVIOUS
<1>2. \A e \in Entry : e.id \in Nat
  BY DEF Entry
<1> QED
  BY <1>1, <1>2 DEF Ids

\* The first retry delay is a number within the cap.
LEMMA FirstDelayType == FirstDelay \in Nat /\ FirstDelay <= MaxRetryDelay
  BY DEF FirstDelay, Lesser

-----------------------------------------------------------------------------
(* Type correctness. *)

\* Taking a batch off the queue keeps the queue object typed.
LEMMA SendType ==
  ASSUME ObjectTypeOK, NEW k \in Nat, NEW s \in Nat, Send(k, s)
  PROVE  ObjectTypeOK'
<1> DEFINE n == Lesser(k, Len(entries))
<1>1. n \in 0..Len(entries) /\ k - n \in Nat
  BY DEF Lesser, ObjectTypeOK
<1>2. batch' \in Seq(Entry) /\ entries' \in Seq(Entry)
  BY <1>1, SplitProperties DEF Send, ObjectTypeOK
<1>3. behind' \in Nat
  BY <1>1 DEF Send
<1>4. MaxBytes = 0 => bytesQueued' = 0
  BY DEF Send, BytesAfter
<1> QED
  BY <1>2, <1>3, <1>4, FirstDelayType DEF Send, ObjectTypeOK

\* So does coalescing.
LEMMA CollectType ==
  ASSUME ObjectTypeOK, NEW k \in Nat, NEW s \in Nat, NEW expired \in BOOLEAN,
         Collect(k, s, expired)
  PROVE  ObjectTypeOK'
<1> DEFINE all == IF Coalesce /\ ~expired THEN Lesser(MaxBatchSize, k + s) ELSE k
<1>1. all \in Nat /\ s - (all - k) \in Nat
  BY DEF Lesser
<1>2. CASE all = MaxBatchSize \/ ~Coalesce \/ expired
  <2>1. Send(all, s - (all - k))
    BY <1>2 DEF Collect
  <2> QED
    BY <1>1, <2>1, SendType
<1>3. CASE ~(all = MaxBatchSize \/ ~Coalesce \/ expired)
  BY <1>1, <1>3 DEF Collect, ObjectTypeOK
<1> QED
  BY <1>2, <1>3

\* And one turn of the timer's loop.
LEMMA NextIterationType ==
  ASSUME ObjectTypeOK, NextIteration
  PROVE  ObjectTypeOK'
<1>1. CASE Count <= 0 /\ pc' = "none" /\ entries' = << >> /\ behind' = 0
           /\ bytesQueued' = 0 /\ sem' = 0 /\ claimed' = 0 /\ batch' = << >>
           /\ elapsed' = 0 /\ delay' = FirstDelay
  BY <1>1, FirstDelayType DEF ObjectTypeOK
<1>2. CASE sem > 0 /\ Collect(1, sem - 1, FALSE)
  <2>1. sem - 1 \in Nat
    BY <1>2 DEF ObjectTypeOK
  <2> QED
    BY <1>2, <2>1, CollectType
<1>3. CASE /\ pc' = "spin" /\ batch' = << >>
           /\ UNCHANGED <<entries, behind, bytesQueued, sem, claimed,
                          elapsed, delay>>
  BY <1>3 DEF ObjectTypeOK
<1> QED
  BY <1>1, <1>2, <1>3 DEF NextIteration

\* An enqueue stores, refuses or raises; the types hold either way.
LEMMA EnqueueType ==
  ASSUME TypeOK, NEW size \in Sizes, Enqueue(size)
  PROVE  TypeOK'
<1> USE DEF TypeOK, ObjectTypeOK, GhostTypeOK
<1>1. PICK d \in 0..Len(entries) :
        IF d > Droppable THEN EnqueueRaises(Droppable)
        ELSE IF Oversize(size) THEN EnqueueRejects(d)
        ELSE EnqueueStores(d, size)
  BY DEF Enqueue
<1>2. Len(entries) \in Nat /\ d \in Nat
  OBVIOUS
<1>3. UNCHANGED <<claimed, batch, elapsed, delay, delivered, lost>>
  BY DEF Enqueue
<1>4. Droppable \in Nat
  BY <1>2 DEF Droppable
<1>5. \A c \in 0..Len(entries) :
        /\ Drop(entries, c) \in Seq(Entry)
        /\ Ids(SubSeq(entries, 1, c)) \subseteq Nat
  BY SplitProperties, IdsType
<1>6. \A c \in Nat : c <= Droppable => SemAfter(c) \in Nat
  BY DEF SemAfter, Droppable
<1>7. \A c : MaxBytes = 0 => BytesAfter(c) = 0
  BY DEF BytesAfter
<1>8. CASE d > Droppable
  <2>1. EnqueueRaises(Droppable) /\ Droppable \in 0..Len(entries)
    BY <1>1, <1>2, <1>4, <1>8
  <2> QED
    <3>1. entries' = Drop(entries, Droppable) /\ sem' = SemAfter(Droppable)
          /\ dropped' = dropped \cup Ids(SubSeq(entries, 1, Droppable))
          /\ bytesQueued' = BytesAfter(Droppable)
          /\ raised' = TRUE /\ pc' = pc /\ behind' = behind /\ nextId' = nextId
      BY <2>1 DEF EnqueueRaises, DropOldest
    <3>2. SemAfter(Droppable) \in Nat
      BY <1>4, <1>6
    <3> HIDE DEF Droppable
    <3>3. ObjectTypeOK'
      BY <3>1, <3>2, <2>1, <1>3, <1>5, <1>7
    <3>4. GhostTypeOK'
      BY <3>1, <2>1, <1>3, <1>5
    <3> QED
      BY <3>3, <3>4
<1>9. CASE ~(d > Droppable) /\ Oversize(size)
  <2>1. EnqueueRejects(d) /\ d <= Droppable
    BY <1>1, <1>2, <1>4, <1>9
  <2> QED
    BY <2>1, <1>2, <1>3, <1>5, <1>6, <1>7 DEF EnqueueRejects, DropOldest
<1>10. CASE ~(d > Droppable) /\ ~Oversize(size)
  <2>1. EnqueueStores(d, size) /\ d <= Droppable
    BY <1>1, <1>2, <1>4, <1>10
  <2>2. [id |-> nextId, size |-> size] \in Entry
    BY DEF Entry
  <2>3. sem' \in Nat /\ nextId' \in Nat /\ pc' = pc /\ raised' = raised
    BY <2>1, <1>2, <1>6 DEF EnqueueStores
  <2>4. MaxBytes = 0 => bytesQueued' = 0
    BY <2>1 DEF EnqueueStores
  <2>5. entries' \in Seq(Entry) /\ behind' \in Nat /\ dropped' \subseteq Nat
    <3>1. CASE behind > 0
      <4>1. entries' = entries /\ behind' = behind - 1 /\ dropped' = dropped
        BY <3>1, <2>1 DEF EnqueueStores
      <4> QED
        BY <3>1, <4>1
    <3>2. CASE ~(behind > 0)
      <4>1. entries' = Append(Drop(entries, d), [id |-> nextId, size |-> size])
            /\ behind' = 0 /\ dropped' = dropped \cup Ids(SubSeq(entries, 1, d))
        BY <3>2, <2>1 DEF EnqueueStores
      <4>2. Drop(entries, d) \in Seq(Entry) /\ Ids(SubSeq(entries, 1, d)) \subseteq Nat
        BY <1>5
      <4>3. Append(Drop(entries, d), [id |-> nextId, size |-> size]) \in Seq(Entry)
        BY <4>2, <2>2, AppendProperties
      <4>4. dropped' \subseteq Nat
        BY <4>1, <4>2
      <4> QED
        BY <4>1, <4>3, <4>4
    <3> QED
      BY <3>1, <3>2
  <2> QED
    BY <2>3, <2>4, <2>5, <1>3
<1> QED
  BY <1>8, <1>9, <1>10

\* The values of the queue are of their types: in particular no interleaving
\* drives the semaphore or the claimed count below zero.
THEOREM TypeCorrect == Spec => []TypeOK
<1>1. Init => TypeOK
  <2>1. << >> \in Seq(Entry)
    OBVIOUS
  <2>2. Init => ObjectTypeOK
    BY <2>1, FirstDelayType DEF Init, ObjectTypeOK
  <2>3. Init => GhostTypeOK
    <3>1. 1 \in Nat
      OBVIOUS
    <3> QED
      BY <3>1, Zenon DEF Init, GhostTypeOK
  <2> QED
    BY <2>2, <2>3 DEF TypeOK
<1>2. TypeOK /\ [Next]_vars => TypeOK'
  <2> SUFFICES ASSUME TypeOK, [Next]_vars
               PROVE  TypeOK'
    OBVIOUS
  <2>1. ASSUME NEW size \in Sizes, Enqueue(size) PROVE TypeOK'
    BY <2>1, EnqueueType
  <2>2. ASSUME NEW size \in Sizes, EnqueueFirst(size) PROVE TypeOK'
    <3>1. <<[id |-> nextId, size |-> size]>> \in Seq(Entry)
      BY DEF Entry, TypeOK, GhostTypeOK
    <3>2. CASE Oversize(size)
      BY <2>2, <3>2 DEF EnqueueFirst, TypeOK, ObjectTypeOK, GhostTypeOK
    <3>3. CASE ~Oversize(size)
      <4>1. ObjectTypeOK'
        <5>1. /\ entries' = <<[id |-> nextId, size |-> size]>>
              /\ bytesQueued' = IF MaxBytes = 0 THEN 0 ELSE size
              /\ pc' = "scheduled" /\ sem' = 1
              /\ UNCHANGED <<behind, claimed, batch, elapsed, delay>>
          BY <2>2, <3>3 DEF EnqueueFirst
        <5> QED
          BY <5>1, <3>1 DEF TypeOK, ObjectTypeOK
      <4>2. GhostTypeOK'
        BY <2>2, <3>3 DEF EnqueueFirst, TypeOK, GhostTypeOK
      <4> QED
        BY <4>1, <4>2 DEF TypeOK
    <3> QED
      BY <3>2, <3>3
  <2>3. CASE TimerFires
    BY <2>3, NextIterationType DEF TimerFires, ghosts, TypeOK, GhostTypeOK
  <2>4. CASE Wake
    <3>1. PICK expired \in BOOLEAN : Collect(claimed + 1, sem - 1, expired)
      BY <2>4 DEF Wake
    <3>2. claimed + 1 \in Nat /\ sem - 1 \in Nat
      BY <2>4 DEF Wake, TypeOK, ObjectTypeOK
    <3>3. ObjectTypeOK'
      BY <3>1, <3>2, CollectType DEF TypeOK
    <3> QED
      BY <2>4, <3>3 DEF Wake, ghosts, TypeOK, GhostTypeOK
  <2>5. CASE WaitTimesOut
    <3>1. ObjectTypeOK'
      BY <2>5, SendType DEF WaitTimesOut, TypeOK, ObjectTypeOK
    <3> QED
      BY <2>5, <3>1 DEF WaitTimesOut, ghosts, TypeOK, GhostTypeOK
  <2>6. CASE HandlerSucceeds
    BY <2>6, NextIterationType, IdsType
       DEF HandlerSucceeds, TypeOK, ObjectTypeOK, GhostTypeOK
  <2>7. CASE GivesUp
    BY <2>7, NextIterationType, IdsType
       DEF GivesUp, TypeOK, ObjectTypeOK, GhostTypeOK
  <2>8. CASE HandlerFails
    BY <2>8 DEF HandlerFails, ghosts, TypeOK, ObjectTypeOK, GhostTypeOK
  <2>9. CASE SleepEnds
    BY <2>9 DEF SleepEnds, Lesser, ghosts, TypeOK, ObjectTypeOK, GhostTypeOK
  <2>10. CASE UNCHANGED vars
    BY <2>10 DEF vars, ghosts, TypeOK, ObjectTypeOK, GhostTypeOK
  <2> QED
    BY <2>1, <2>2, <2>3, <2>4, <2>5, <2>6, <2>7, <2>8, <2>9, <2>10
       DEF Next, Producer, Timer, AllSettled
<1> QED
  BY <1>1, <1>2, PTL DEF Spec

\* Producers that leave room take steps of the queue like any others.
LEMMA RoomyIsSpec == RoomySpec => Spec
<1>1. [RoomyNext]_vars => [Next]_vars
  BY DEF RoomyNext, RoomyProducer, Next, Producer
<1> QED
  BY <1>1, PTL DEF RoomySpec, Spec

-----------------------------------------------------------------------------
(* The semaphore, the claimed count and the array, among producers that    *)
(* leave room.                                                             *)

\* Sending at most what is on the queue leaves the counts in agreement.
LEMMA SendCounts ==
  ASSUME TypeOK, NEW k \in Nat, NEW s \in Nat, Send(k, s),
         Len(entries) = k + s, Len(entries) <= MaxEntries,
         ~raised, raised' = raised
  PROVE  CountsInv'
<1>1. Len(entries) \in Nat /\ k <= Len(entries)
  BY DEF TypeOK, ObjectTypeOK
<1>2. Lesser(k, Len(entries)) = k
  BY <1>1 DEF Lesser
<1>3. entries' = Drop(entries, k) /\ sem' = s /\ claimed' = 0
  BY <1>2 DEF Send
<1>4. Len(entries') = Len(entries) - k
  BY <1>1, <1>3, SplitProperties DEF TypeOK, ObjectTypeOK
<1>5. pc' = "handler" /\ behind' = 0
  BY <1>1, <1>2 DEF Send
<1> QED
  BY <1>1, <1>3, <1>4, <1>5 DEF CountsInv

\* Coalescing claims resources one for one and waits with none left.
LEMMA CollectCounts ==
  ASSUME TypeOK, NEW k \in 1..MaxBatchSize, NEW s \in Nat,
         NEW expired \in BOOLEAN, Collect(k, s, expired), behind = 0,
         Len(entries) = k + s, Len(entries) <= MaxEntries,
         ~raised, raised' = raised
  PROVE  CountsInv'
<1> DEFINE all == IF Coalesce /\ ~expired THEN Lesser(MaxBatchSize, k + s) ELSE k
<1>1. all \in k..(k + s) /\ all <= MaxBatchSize /\ all \in Nat
  BY DEF Lesser
<1>2. CASE all = MaxBatchSize \/ ~Coalesce \/ expired
  <2>1. Send(all, s - (all - k))
    BY <1>2 DEF Collect
  <2>2. s - (all - k) \in Nat /\ Len(entries) = all + (s - (all - k))
    BY <1>1
  <2> QED
    BY <1>1, <2>1, <2>2, SendCounts
<1>3. CASE ~(all = MaxBatchSize \/ ~Coalesce \/ expired)
  <2>1. pc' = "wait" /\ claimed' = all /\ sem' = s - (all - k)
        /\ entries' = entries /\ behind' = behind
    BY <1>3 DEF Collect
  <2>2. all = k + s /\ all \in 1..(MaxBatchSize - 1)
    BY <1>1, <1>3 DEF Lesser
  <2>3. Coalesce
    BY <1>3
  <2> QED
    BY <2>1, <2>2, <2>3 DEF CountsInv
<1> QED
  BY <1>2, <1>3

\* A turn of the timer's loop finds a resource for the entry it counts.
LEMMA NextIterationCounts ==
  ASSUME TypeOK, CountsInv, pc # "wait", NextIteration, raised' = raised
  PROVE  CountsInv'
<1>1. claimed = 0 /\ behind = 0 /\ Len(entries) = sem /\ Count = sem
  BY DEF CountsInv, Count, TypeOK, ObjectTypeOK
<1>2. CASE Count <= 0 /\ pc' = "none" /\ entries' = << >> /\ behind' = 0
           /\ sem' = 0 /\ claimed' = 0
  BY <1>2 DEF CountsInv
<1>3. CASE sem > 0 /\ Collect(1, sem - 1, FALSE)
  <2>1. sem - 1 \in Nat /\ Len(entries) = 1 + (sem - 1) /\ 1 \in 1..MaxBatchSize
    BY <1>1, <1>3 DEF TypeOK, ObjectTypeOK
  <2> QED
    BY <1>1, <1>3, <2>1, CollectCounts DEF CountsInv
<1> QED
  BY <1>1, <1>2, <1>3 DEF NextIteration, TypeOK, ObjectTypeOK

\* No drop is needed while the timer waits, so none fails its assertion.
LEMMA EnqueueCounts ==
  ASSUME TypeOK, CountsInv, NEW size \in Sizes, LeavesRoom(size), Enqueue(size)
  PROVE  CountsInv'
<1>1. PICK d \in 0..Len(entries) :
        /\ DropsNeeded(d, size)
        /\ IF d > Droppable THEN EnqueueRaises(Droppable)
           ELSE IF Oversize(size) THEN EnqueueRejects(d)
           ELSE EnqueueStores(d, size)
  BY DEF Enqueue
<1>2. /\ Len(entries) \in Nat /\ d \in Nat /\ sem \in Nat /\ claimed \in Nat
      /\ behind = 0 /\ Count = Len(entries) /\ Len(entries) = claimed + sem
  BY DEF TypeOK, ObjectTypeOK, CountsInv, Count
<1>3. claimed' = claimed
  BY DEF Enqueue
<1>4. CASE pc = "wait"
  <2>1. Coalesce /\ claimed \in 1..(MaxBatchSize - 1)
    BY <1>4 DEF CountsInv
  <2>2. DropsNeeded(0, size)
    BY <1>4 DEF LeavesRoom, Waiting
  <2>3. Full = 0 /\ Len(entries) < MaxEntries /\ Fits(0, size)
    BY <1>2, <2>2 DEF DropsNeeded, Full, CountsInv
  <2>4. d = 0 /\ ~(d > Droppable)
    <3>1. \A c \in 0..(d - 1) : ~Fits(c, size)
      BY <1>1, <2>3 DEF DropsNeeded
    <3>2. d = 0
      BY <1>2, <2>3, <3>1
    <3> QED
      BY <1>2, <3>2 DEF Droppable
  <2>5. Drop(entries, 0) \in Seq(Entry) /\ Len(Drop(entries, 0)) = Len(entries)
    BY <1>2, SplitProperties DEF TypeOK, ObjectTypeOK
  <2>6. SemAfter(0) = sem
    BY <1>4 DEF SemAfter, Waiting
  <2>7. CASE Oversize(size)
    <3>1. EnqueueRejects(0)
      BY <1>1, <2>4, <2>7
    <3>2. entries' = Drop(entries, 0) /\ sem' = sem
          /\ pc' = pc /\ behind' = behind /\ raised' = raised
      BY <2>6, <3>1 DEF EnqueueRejects, DropOldest
    <3> QED
      BY <1>2, <1>3, <1>4, <2>1, <2>5, <3>2 DEF CountsInv
  <2>8. CASE ~Oversize(size)
    <3>1. EnqueueStores(0, size)
      BY <1>1, <2>4, <2>8
    <3>2. entries' = Append(Drop(entries, 0), [id |-> nextId, size |-> size])
          /\ behind' = 0 /\ sem' = sem + 1 /\ pc' = pc /\ raised' = raised
      BY <1>2, <2>6, <3>1 DEF EnqueueStores
    <3>3. Len(entries') = Len(entries) + 1
      <4>1. [id |-> nextId, size |-> size] \in Entry
        BY DEF Entry, TypeOK, GhostTypeOK
      <4> QED
        BY <2>5, <3>2, <4>1, AppendProperties
    <3> QED
      BY <1>2, <1>3, <1>4, <2>1, <2>3, <3>2, <3>3 DEF CountsInv
  <2> QED
    BY <2>7, <2>8
<1>5. CASE pc # "wait"
  <2>1. claimed = 0 /\ Len(entries) = sem /\ Droppable = sem
    BY <1>2, <1>5 DEF CountsInv, Droppable, Waiting
  <2>2. Drop(entries, d) \in Seq(Entry) /\ Len(Drop(entries, d)) = Len(entries) - d
    <3>1. entries \in Seq(Entry) /\ d \in 0..Len(entries)
      BY <1>2 DEF TypeOK, ObjectTypeOK
    <3> QED
      BY <3>1, SplitProperties, ZenonT(30)
  <2>3. SemAfter(d) = sem - d
    BY <1>5 DEF SemAfter, Waiting
  <2>4. pc \notin {"none", "dead", "spin"} /\ ~raised /\ Len(entries) <= MaxEntries
    BY DEF CountsInv, Enqueue
  <2>5. ~(d > Droppable)
    BY <1>2, <2>1
  <2>6. CASE Oversize(size)
    <3>1. entries' = Drop(entries, d) /\ sem' = sem - d
          /\ pc' = pc /\ behind' = behind /\ raised' = raised
      BY <1>1, <2>3, <2>5, <2>6 DEF EnqueueRejects, DropOldest
    <3> QED
      BY <1>2, <1>3, <1>5, <2>1, <2>2, <2>4, <3>1 DEF CountsInv
  <2>7. CASE ~Oversize(size)
    <3>1. EnqueueStores(d, size)
      BY <1>1, <2>5, <2>7
    <3>2. entries' = Append(Drop(entries, d), [id |-> nextId, size |-> size])
          /\ sem' = sem - d + 1 /\ behind' = 0 /\ pc' = pc /\ raised' = raised
      BY <1>2, <2>3, <3>1 DEF EnqueueStores
    <3>3. Len(entries') = Len(entries) - d + 1
      <4>1. [id |-> nextId, size |-> size] \in Entry
        BY DEF Entry, TypeOK, GhostTypeOK
      <4>2. Len(entries') = Len(Drop(entries, d)) + 1
        BY <2>2, <3>2, <4>1, AppendLength, Zenon
      <4> QED
        BY <2>2, <4>2
    <3>4. Len(entries') <= MaxEntries
      <4>1. d >= Full
        BY <1>1 DEF DropsNeeded
      <4> QED
        BY <1>2, <2>4, <3>3, <4>1 DEF Full
    <3> QED
      BY <1>2, <1>3, <1>5, <2>1, <2>4, <3>2, <3>3, <3>4 DEF CountsInv
  <2> QED
    BY <2>6, <2>7
<1> QED
  BY <1>4, <1>5

\* Every step among producers that leave room keeps the counts in agreement.
LEMMA CountsStep ==
  ASSUME TypeOK, CountsInv, [RoomyNext]_vars
  PROVE  CountsInv'
<1>1. ASSUME NEW size \in Sizes, LeavesRoom(size), Enqueue(size) PROVE CountsInv'
  BY <1>1, EnqueueCounts
<1>2. ASSUME NEW size \in Sizes, EnqueueFirst(size) PROVE CountsInv'
  <2>1. claimed = 0 /\ sem = 0 /\ Len(entries) = 0 /\ behind = 0
    BY <1>2 DEF EnqueueFirst, CountsInv
  <2>2. pc' = "scheduled" /\ UNCHANGED <<behind, claimed, raised>>
    BY <1>2 DEF EnqueueFirst
  <2>3. CASE Oversize(size)
    BY <1>2, <2>1, <2>2, <2>3 DEF EnqueueFirst, CountsInv
  <2>4. CASE ~Oversize(size)
    <3>1. entries' = <<[id |-> nextId, size |-> size]>> /\ sem' = 1
      BY <1>2, <2>4 DEF EnqueueFirst
    <3>2. Len(entries') = 1
      BY <3>1
    <3> QED
      BY <2>1, <2>2, <3>1, <3>2 DEF CountsInv
  <2> QED
    BY <2>3, <2>4
<1>3. CASE TimerFires
  BY <1>3, NextIterationCounts DEF TimerFires, ghosts
<1>4. CASE Wake
  <2>1. PICK expired \in BOOLEAN : Collect(claimed + 1, sem - 1, expired)
    BY <1>4 DEF Wake
  <2>2. claimed + 1 \in 1..MaxBatchSize /\ sem - 1 \in Nat
        /\ Len(entries) = (claimed + 1) + (sem - 1)
    BY <1>4 DEF Wake, Waiting, CountsInv, TypeOK, ObjectTypeOK
  <2> QED
    BY <1>4, <2>1, <2>2, CollectCounts DEF Wake, CountsInv, ghosts
<1>5. CASE WaitTimesOut
  BY <1>5, SendCounts
     DEF WaitTimesOut, CountsInv, ghosts, TypeOK, ObjectTypeOK
<1>6. CASE HandlerSucceeds
  BY <1>6, NextIterationCounts DEF HandlerSucceeds
<1>7. CASE GivesUp
  BY <1>7, NextIterationCounts DEF GivesUp
<1>8. CASE HandlerFails
  BY <1>8 DEF HandlerFails, ghosts, CountsInv
<1>9. CASE SleepEnds
  BY <1>9 DEF SleepEnds, ghosts, CountsInv
<1>10. CASE UNCHANGED vars
  BY <1>10 DEF vars, ghosts, CountsInv
<1> QED
  BY <1>1, <1>2, <1>3, <1>4, <1>5, <1>6, <1>7, <1>8, <1>9, <1>10
     DEF RoomyNext, RoomyProducer, Timer, AllSettled

\* The inductive invariant behind the theorems below.
LEMMA CountsInvariant == RoomySpec => []CountsInv
<1>1. Init => CountsInv
  BY DEF Init, CountsInv
<1>2. TypeOK /\ CountsInv /\ [RoomyNext]_vars => CountsInv'
  BY CountsStep
<1>3. RoomySpec => []TypeOK
  BY RoomyIsSpec, TypeCorrect, PTL
<1> QED
  BY <1>1, <1>2, <1>3, PTL DEF RoomySpec

\* Where the timer never waits for more entries, as in the default
\* configuration, the producers leave room whatever they do: what is proved of
\* RoomySpec holds of every behaviour of the queue.
THEOREM DefaultIsRoomy == NeverCoalesces => (Spec => RoomySpec)
<1> SUFFICES ASSUME NeverCoalesces PROVE Spec => RoomySpec
  OBVIOUS
<1>1. CountsInv => ~Waiting
  BY DEF CountsInv, Waiting, NeverCoalesces
<1>2. CountsInv /\ [Next]_vars => [RoomyNext]_vars
  BY <1>1 DEF LeavesRoom, RoomyNext, RoomyProducer, Next, Producer
<1>3. Init => CountsInv
  BY DEF Init, CountsInv
<1>4. TypeOK /\ CountsInv /\ [RoomyNext]_vars => CountsInv'
  BY CountsStep
<1> QED
  BY <1>2, <1>3, <1>4, TypeCorrect, PTL DEF Spec, RoomySpec

\* Among producers that leave room the semaphore and entry_count stand for
\* exactly the entries on the queue, whatever the interleaving.
THEOREM SemaphoreAgrees == RoomySpec => []SemaphoreTracksEntries
<1>1. CountsInv => SemaphoreTracksEntries
  BY DEF CountsInv, SemaphoreTracksEntries
<1> QED
  BY <1>1, CountsInvariant, PTL

\* Among producers that leave a coalescing timer room no enqueue fails the
\* assertion of drop_oldest_entry, whatever max_entries, max_bytes and the
\* sizes are, however often the queue is full while a batch is sent.
THEOREM NoAssertionFails == RoomySpec => []EnqueueNeverRaises
<1>1. CountsInv => EnqueueNeverRaises
  BY DEF CountsInv, EnqueueNeverRaises
<1> QED
  BY <1>1, CountsInvariant, PTL

-----------------------------------------------------------------------------
(* The counts once drops have met a coalescing timer. *)

\* Whatever the producers do, the semaphore and entry_count never fall short of
\* the entries stored: a drop that takes no resource leaves them too high.
CoverInv ==
  /\ Len(entries) <= claimed + sem
  /\ claimed < MaxBatchSize
  /\ pc # "wait" => claimed = 0
  /\ pc = "none" => Len(entries) = 0 /\ behind = 0
  /\ behind > 0 => Len(entries) = 0
  /\ pc # "spin"

\* Sending takes k off both sides, or all there is.
LEMMA SendCovers ==
  ASSUME TypeOK, NEW k \in Nat, NEW s \in Nat, Send(k, s), Len(entries) <= k + s
  PROVE  CoverInv'
<1> DEFINE n == Lesser(k, Len(entries))
<1>1. n \in 0..Len(entries) /\ Len(entries) \in Nat /\ Len(entries) - n <= s
  BY DEF Lesser, TypeOK, ObjectTypeOK
<1>2. Len(Drop(entries, n)) = Len(entries) - n
  BY <1>1, SplitProperties DEF TypeOK, ObjectTypeOK
<1>3. entries' = Drop(entries, n) /\ sem' = s /\ claimed' = 0
      /\ pc' \in {"dead", "handler"}
  BY DEF Send
<1>4. behind' > 0 => Len(entries) - n = 0
  BY <1>1 DEF Send, Lesser
<1> HIDE DEF n
<1> QED
  BY <1>1, <1>2, <1>3, <1>4 DEF CoverInv

\* Coalescing moves resources from the semaphore to the claimed count.
LEMMA CollectCovers ==
  ASSUME TypeOK, NEW k \in Nat, NEW s \in Nat, NEW expired \in BOOLEAN,
         Collect(k, s, expired), Len(entries) <= k + s, k <= MaxBatchSize,
         behind > 0 => Len(entries) = 0
  PROVE  CoverInv'
<1> DEFINE all == IF Coalesce /\ ~expired THEN Lesser(MaxBatchSize, k + s) ELSE k
<1>1. all \in k..(k + s) /\ all \in Nat /\ s - (all - k) \in Nat
      /\ all + (s - (all - k)) = k + s /\ all <= MaxBatchSize
  BY DEF Lesser
<1>2. CASE all = MaxBatchSize \/ ~Coalesce \/ expired
  <2>1. Send(all, s - (all - k))
    BY <1>2 DEF Collect
  <2>2. Len(entries) <= all + (s - (all - k))
    BY <1>1
  <2> HIDE DEF all
  <2> QED
    BY <1>1, <2>1, <2>2, SendCovers
<1>3. CASE ~(all = MaxBatchSize \/ ~Coalesce \/ expired)
  <2>1. pc' = "wait" /\ claimed' = all /\ sem' = s - (all - k) /\ entries' = entries
        /\ behind' = behind
    BY <1>3 DEF Collect
  <2>2. all < MaxBatchSize
    BY <1>1, <1>3
  <2> HIDE DEF all
  <2> QED
    BY <1>1, <2>1, <2>2 DEF CoverInv
<1> QED
  BY <1>2, <1>3

\* What the timer's loop counts it can claim.
LEMMA NextIterationCovers ==
  ASSUME TypeOK, CoverInv, pc # "wait", NextIteration
  PROVE  CoverInv'
<1>1. claimed = 0 /\ Len(entries) <= sem /\ sem \in Nat /\ behind \in Nat
      /\ Len(entries) \in Nat /\ Count = Len(entries) - behind
  BY DEF CoverInv, Count, TypeOK, ObjectTypeOK
<1>2. CASE pc' = "none" /\ entries' = << >> /\ behind' = 0 /\ sem' = 0 /\ claimed' = 0
  BY <1>2 DEF CoverInv
<1>3. CASE Count > 0
  <2>1. sem > 0
    BY <1>1, <1>3
  <2>2. ~(Count <= 0)
    BY <1>1, <1>3
  <2>3. Collect(1, sem - 1, FALSE)
    BY <2>1, <2>2, Zenon DEF NextIteration
  <2>4. sem - 1 \in Nat /\ Len(entries) <= 1 + (sem - 1) /\ 1 <= MaxBatchSize
    BY <1>1, <2>1
  <2> QED
    BY <2>3, <2>4, CollectCovers DEF CoverInv
<1> QED
  BY <1>2, <1>3 DEF NextIteration

\* A drop takes no more from the semaphore than from the array, and fails only
\* while the timer waits.
LEMMA EnqueueCovers ==
  ASSUME TypeOK, CoverInv, NEW size \in Sizes, Enqueue(size)
  PROVE  CoverInv' /\ (raised' # raised => Waiting)
<1>1. PICK d \in 0..Len(entries) :
        IF d > Droppable THEN EnqueueRaises(Droppable)
        ELSE IF Oversize(size) THEN EnqueueRejects(d)
        ELSE EnqueueStores(d, size)
  BY DEF Enqueue
<1>2. /\ Len(entries) \in Nat /\ d \in Nat /\ sem \in Nat /\ claimed \in Nat
      /\ Len(entries) <= claimed + sem /\ claimed' = claimed
      /\ pc \notin {"none", "spin"} /\ (pc # "wait" => claimed = 0)
      /\ (behind > 0 => Len(entries) = 0) /\ behind \in Nat
      /\ claimed < MaxBatchSize
  BY DEF TypeOK, ObjectTypeOK, CoverInv, Enqueue
<1>3. \A c \in 0..Len(entries) : Drop(entries, c) \in Seq(Entry)
                                 /\ Len(Drop(entries, c)) = Len(entries) - c
  BY SplitProperties DEF TypeOK, ObjectTypeOK
<1>4. CASE d > Droppable
  <2>1. Waiting /\ Droppable = 0
    BY <1>2, <1>4 DEF Droppable, Waiting
  <2>2. EnqueueRaises(0)
    BY <1>1, <1>4, <2>1
  <2>3. entries' = Drop(entries, 0) /\ sem' = sem /\ pc' = pc /\ behind' = behind
    BY <2>1, <2>2 DEF EnqueueRaises, DropOldest, SemAfter
  <2>4. Len(entries') = Len(entries)
    BY <1>2, <1>3, <2>3
  <2> QED
    BY <1>2, <2>1, <2>3, <2>4 DEF CoverInv
<1>5. CASE ~(d > Droppable)
  <2>1. SemAfter(d) \in Nat /\ Len(entries) - d <= claimed + SemAfter(d)
    BY <1>2, <1>5 DEF SemAfter, Droppable, Waiting
  <2>2. CASE Oversize(size)
    <3>1. entries' = Drop(entries, d) /\ sem' = SemAfter(d) /\ pc' = pc
          /\ raised' = raised /\ behind' = behind
      BY <1>1, <1>5, <2>2 DEF EnqueueRejects, DropOldest
    <3>2. Len(entries') = Len(entries) - d
      BY <1>3, <3>1
    <3> QED
      BY <1>2, <2>1, <3>1, <3>2 DEF CoverInv
  <2>3. CASE ~Oversize(size)
    <3>1. EnqueueStores(d, size)
      BY <1>1, <1>5, <2>3
    <3>2. sem' = SemAfter(d) + 1 /\ pc' = pc /\ raised' = raised
      BY <3>1 DEF EnqueueStores
    <3>3. CASE behind > 0
      <4>1. entries' = entries /\ Len(entries) = 0
        BY <1>2, <3>1, <3>3 DEF EnqueueStores
      <4> QED
        BY <1>2, <2>1, <3>2, <4>1 DEF CoverInv
    <3>4. CASE ~(behind > 0)
      <4>1. entries' = Append(Drop(entries, d), [id |-> nextId, size |-> size])
            /\ behind' = 0
        BY <3>1, <3>4 DEF EnqueueStores
      <4>2. [id |-> nextId, size |-> size] \in Entry
        BY DEF Entry, TypeOK, GhostTypeOK
      <4>3. Len(entries') = Len(entries) - d + 1
        <5>1. Drop(entries, d) \in Seq(Entry) /\ Len(Drop(entries, d)) = Len(entries) - d
          BY <1>3
        <5>2. Len(entries') = Len(Drop(entries, d)) + 1
          BY <4>1, <4>2, <5>1, AppendLength, Zenon
        <5> QED
          BY <5>1, <5>2
      <4>4. Len(entries') <= claimed' + sem'
        BY <1>2, <2>1, <3>2, <4>3
      <4> QED
        BY <1>2, <3>2, <4>1, <4>4 DEF CoverInv
    <3> QED
      BY <3>3, <3>4
  <2> QED
    BY <2>2, <2>3
<1> QED
  BY <1>4, <1>5

\* Every step keeps the counts above the entries, and fails the assertion of
\* drop_oldest_entry only while the timer coalesces.
LEMMA StepCovers ==
  ASSUME TypeOK, CoverInv, [Next]_vars
  PROVE  CoverInv' /\ (raised' # raised => Waiting)
<1>1. ASSUME NEW size \in Sizes, Enqueue(size)
      PROVE  CoverInv' /\ (raised' # raised => Waiting)
  BY <1>1, EnqueueCovers
<1>2. ASSUME NEW size \in Sizes, EnqueueFirst(size)
      PROVE  CoverInv' /\ raised' = raised
  <2>1. claimed = 0 /\ Len(entries) = 0 /\ sem \in Nat /\ behind = 0
    BY <1>2 DEF EnqueueFirst, CoverInv, TypeOK, ObjectTypeOK
  <2>2. pc' = "scheduled" /\ UNCHANGED <<behind, claimed, raised>>
    BY <1>2 DEF EnqueueFirst
  <2>3. CASE Oversize(size)
    BY <1>2, <2>1, <2>2, <2>3 DEF EnqueueFirst, CoverInv
  <2>4. CASE ~Oversize(size)
    <3>1. entries' = <<[id |-> nextId, size |-> size]>> /\ sem' = 1
      BY <1>2, <2>4 DEF EnqueueFirst
    <3>2. Len(entries') = 1
      BY <3>1
    <3> QED
      BY <2>1, <2>2, <3>1, <3>2 DEF CoverInv
  <2> QED
    BY <2>3, <2>4
<1>3. CASE TimerFires
  BY <1>3, NextIterationCovers DEF TimerFires, ghosts
<1>4. CASE Wake
  <2>1. PICK expired \in BOOLEAN : Collect(claimed + 1, sem - 1, expired)
    BY <1>4 DEF Wake
  <2>2. /\ claimed + 1 \in Nat /\ sem - 1 \in Nat /\ claimed + 1 <= MaxBatchSize
        /\ Len(entries) <= (claimed + 1) + (sem - 1)
        /\ (behind > 0 => Len(entries) = 0)
    BY <1>4 DEF Wake, CoverInv, TypeOK, ObjectTypeOK
  <2>3. CoverInv'
    BY <2>1, <2>2, CollectCovers
  <2> QED
    BY <1>4, <2>3 DEF Wake, ghosts
<1>5. CASE WaitTimesOut
  BY <1>5, SendCovers DEF WaitTimesOut, CoverInv, ghosts, TypeOK, ObjectTypeOK
<1>6. CASE HandlerSucceeds \/ GivesUp
  BY <1>6, NextIterationCovers DEF HandlerSucceeds, GivesUp
<1>7. CASE HandlerFails \/ SleepEnds
  BY <1>7 DEF HandlerFails, SleepEnds, ghosts, CoverInv
<1>8. CASE UNCHANGED vars
  BY <1>8 DEF vars, ghosts, CoverInv
<1> QED
  BY <1>1, <1>2, <1>3, <1>4, <1>5, <1>6, <1>7, <1>8
     DEF Next, Producer, Timer, AllSettled

LEMMA CoverInvariant == Spec => []CoverInv
<1>1. Init => CoverInv
  BY DEF Init, CoverInv
<1>2. TypeOK /\ CoverInv /\ [Next]_vars => CoverInv'
  BY StepCovers
<1> QED
  BY <1>1, <1>2, TypeCorrect, PTL DEF Spec

\* The timer's loop never goes round without yielding, whatever the producers
\* do: what is counted on the queue can be claimed from the semaphore.
THEOREM NoBusyTimer == Spec => []NoBusyLoop
<1>1. CoverInv => NoBusyLoop
  BY DEF CoverInv, NoBusyLoop
<1> QED
  BY <1>1, CoverInvariant, PTL

\* The assertion of drop_oldest_entry fails only while the timer coalesces,
\* even after drops have thrown the counts out of step.
THEOREM RaisesWhereItWaits == Spec => RaisesOnlyCoalescing
<1>1. TypeOK /\ CoverInv /\ [Next]_vars => [raised' # raised => Waiting]_vars
  BY StepCovers
<1> QED
  BY <1>1, TypeCorrect, CoverInvariant, PTL DEF Spec, RaisesOnlyCoalescing

-----------------------------------------------------------------------------
(* The retry loop. *)

\* The retry clock while the handler runs and while the timer sleeps.
RetryInv ==
  /\ delay <= MaxRetryDelay
  /\ pc = "handler" => elapsed <= MaxRetryTime + MaxRetryDelay
  /\ pc = "sleep" => elapsed <= MaxRetryTime

\* No attempt to send a batch starts later than one capped delay after
\* max_retry_time, however often and however slowly the handler fails.
THEOREM RetryBudget == Spec => []RetryBudgetRespected
<1>1. Init => RetryInv
  BY FirstDelayType DEF Init, RetryInv
<1>2. TypeOK /\ RetryInv /\ [Next]_vars => RetryInv'
  <2> SUFFICES ASSUME TypeOK, RetryInv, [Next]_vars
               PROVE  RetryInv'
    OBVIOUS
  <2>1. ASSUME NEW k, NEW s, Send(k, s) PROVE RetryInv'
    <3>1. elapsed' = 0 /\ delay' = FirstDelay /\ pc' \in {"dead", "handler"}
      BY <2>1 DEF Send
    <3> QED
      BY <3>1, FirstDelayType DEF RetryInv
  <2>2. ASSUME NEW k, NEW s, NEW expired, Collect(k, s, expired) PROVE RetryInv'
    BY <2>1, <2>2 DEF Collect, RetryInv
  <2>3. ASSUME NextIteration PROVE RetryInv'
    <3>1. CASE pc' = "none" /\ delay' = FirstDelay
      BY <3>1, FirstDelayType DEF RetryInv
    <3>2. CASE pc' = "spin" /\ delay' = delay
      BY <3>2 DEF RetryInv
    <3> QED
      BY <2>2, <2>3, <3>1, <3>2 DEF NextIteration
  <2>4. ASSUME NEW size \in Sizes, Enqueue(size) PROVE RetryInv'
    <3>1. UNCHANGED <<pc, elapsed, delay>>
      BY <2>4 DEF Enqueue, EnqueueRaises, EnqueueRejects, EnqueueStores
    <3> QED
      BY <3>1 DEF RetryInv
  <2>5. ASSUME NEW size \in Sizes, EnqueueFirst(size) PROVE RetryInv'
    BY <2>5 DEF EnqueueFirst, RetryInv
  <2>6. CASE TimerFires \/ HandlerSucceeds \/ GivesUp
    BY <2>3, <2>6 DEF TimerFires, HandlerSucceeds, GivesUp
  <2>7. CASE Wake \/ WaitTimesOut
    BY <2>1, <2>2, <2>7 DEF Wake, WaitTimesOut
  <2>8. CASE HandlerFails
    BY <2>8 DEF HandlerFails, RetryInv
  <2>9. CASE SleepEnds
    BY <2>9 DEF SleepEnds, RetryInv, Lesser, TypeOK, ObjectTypeOK
  <2>10. CASE UNCHANGED vars
    BY <2>10 DEF vars, RetryInv
  <2> QED
    BY <2>4, <2>5, <2>6, <2>7, <2>8, <2>9, <2>10 DEF Next, Producer, Timer, AllSettled
<1>3. RetryInv => RetryBudgetRespected
  BY DEF RetryInv, RetryBudgetRespected
<1> QED
  BY <1>1, <1>2, <1>3, TypeCorrect, PTL DEF Spec

-----------------------------------------------------------------------------
(* Induction over the numbers, from the well-foundedness of < on them.     *)

LEMMA LeastNat ==
  ASSUME NEW S \in SUBSET Nat, S # {}
  PROVE  \E n \in S : \A m \in S : n <= m
<1> DEFINE R == {ss \in Nat \X Nat : ss[1] < ss[2]}
<1>1. IsWellFoundedOn(R, Nat)
  BY NatLessThanWellFounded DEF OpToRel
<1>2. \A x, y \in Nat : x < y => <<x, y>> \in R
  OBVIOUS
<1> HIDE DEF R
<1>3. \E x \in S : \A y \in S : ~(<<y, x>> \in R)
  BY <1>1, WFMin
<1>4. \A x, y \in S : ~(<<y, x>> \in R) => x <= y
  BY <1>2
<1> QED
  BY <1>3, <1>4

LEMMA NatInd ==
  ASSUME NEW S \in SUBSET Nat, 0 \in S, \A n \in S : n + 1 \in S
  PROVE  Nat \subseteq S
<1> SUFFICES ASSUME Nat \ S # {} PROVE FALSE
  OBVIOUS
<1>1. PICK n \in Nat \ S : \A m \in Nat \ S : n <= m
  BY LeastNat
<1>2. n # 0 /\ n - 1 \in Nat
  BY <1>1
<1>3. n - 1 \in S
  BY <1>1, <1>2
<1> QED
  BY <1>1, <1>3

-----------------------------------------------------------------------------
(* What the entries weigh. *)

\* The recursive function of Bytes exists: it is built one entry at a time.
LEMMA BytesExists ==
  ASSUME NEW s \in Seq(Entry)
  PROVE  \E g : g = [i \in 0..Len(s) |-> IF i = 0 THEN 0 ELSE g[i-1] + s[i].size]
<1> DEFINE Upto(n, g) ==
             g = [i \in 0..n |-> IF i = 0 THEN 0 ELSE g[i-1] + s[i].size]
           P == {n \in Nat : \E g : Upto(n, g)}
<1>1. 0 \in P
  <2>1. Upto(0, [i \in 0..0 |-> 0])
    OBVIOUS
  <2> QED
    BY <2>1
<1>2. ASSUME NEW n \in P PROVE n + 1 \in P
  <2>1. PICK g : Upto(n, g)
    OBVIOUS
  <2> DEFINE h == [i \in 0..(n + 1) |->
                     IF i = n + 1 THEN g[n] + s[n + 1].size ELSE g[i]]
  <2>2. n \in Nat /\ DOMAIN g = 0..n
    BY <2>1
  <2>3. ASSUME NEW i \in 0..(n + 1)
        PROVE  h[i] = IF i = 0 THEN 0 ELSE h[i-1] + s[i].size
    <3>1. CASE i = n + 1
      BY <2>2, <3>1
    <3>2. CASE i # n + 1
      <4>1. i \in 0..n /\ (i # 0 => i - 1 \in 0..n)
        BY <2>2, <3>2
      <4>2. g[i] = IF i = 0 THEN 0 ELSE g[i-1] + s[i].size
        BY <2>1, <4>1
      <4>3. h[i] = g[i] /\ (i # 0 => h[i-1] = g[i-1])
        BY <2>2, <3>2, <4>1
      <4> QED
        BY <4>2, <4>3
    <3> QED
      BY <3>1, <3>2
  <2>4. Upto(n + 1, h)
    BY <2>3
  <2> HIDE DEF Upto, h
  <2>5. n + 1 \in Nat /\ \E f : Upto(n + 1, f)
    BY <2>2, <2>4
  <2> QED
    BY <2>5
<1>3. Nat \subseteq P
  <2>1. P \in SUBSET Nat
    OBVIOUS
  <2> HIDE DEF P
  <2> QED
    BY <1>1, <1>2, <2>1, NatInd
<1>4. Len(s) \in P
  BY <1>3
<1> QED
  BY <1>4

\* So the bytes of n entries are those of n - 1 entries and the n-th.
LEMMA BytesUnfold ==
  ASSUME NEW s \in Seq(Entry)
  PROVE  /\ Bytes(s, 0) = 0
         /\ \A n \in 1..Len(s) : Bytes(s, n) = Bytes(s, n - 1) + s[n].size
<1> DEFINE f == CHOOSE g : g = [i \in 0..Len(s) |->
                                  IF i = 0 THEN 0 ELSE g[i-1] + s[i].size]
<1>1. f = [i \in 0..Len(s) |-> IF i = 0 THEN 0 ELSE f[i-1] + s[i].size]
  BY BytesExists
<1>2. \A n : Bytes(s, n) = f[n]
  BY DEF Bytes
<1>3. Len(s) \in Nat
  OBVIOUS
<1> HIDE DEF f
<1>4. f[0] = 0
  BY <1>1, <1>3
<1>5. \A n \in 1..Len(s) : f[n] = f[n - 1] + s[n].size
  BY <1>1, <1>3
<1> QED
  BY <1>2, <1>4, <1>5

LEMMA BytesType ==
  ASSUME NEW s \in Seq(Entry), NEW n \in 0..Len(s)
  PROVE  Bytes(s, n) \in Nat
<1> DEFINE P == {k \in Nat : k <= Len(s) => Bytes(s, k) \in Nat}
<1>1. 0 \in P
  BY BytesUnfold
<1>2. ASSUME NEW k \in P PROVE k + 1 \in P
  <2> SUFFICES ASSUME k + 1 <= Len(s) PROVE Bytes(s, k + 1) \in Nat
    OBVIOUS
  <2>1. k \in Nat /\ k + 1 \in 1..Len(s) /\ Bytes(s, k) \in Nat
    OBVIOUS
  <2>2. s[k + 1].size \in Nat
    <3>1. s[k + 1] \in Entry
      BY <2>1
    <3> QED
      BY <3>1 DEF Entry
  <2>3. Bytes(s, k + 1) = Bytes(s, (k + 1) - 1) + s[k + 1].size
    BY <2>1, BytesUnfold
  <2>4. (k + 1) - 1 = k
    BY <2>1
  <2> QED
    BY <2>1, <2>2, <2>3, <2>4
<1>3. P \in SUBSET Nat
  OBVIOUS
<1>4. n \in Nat /\ n <= Len(s)
  OBVIOUS
<1> HIDE DEF P
<1>5. Nat \subseteq P
  BY <1>1, <1>2, <1>3, NatInd
<1> QED
  BY <1>4, <1>5 DEF P

\* Two sequences whose entries agree from d on weigh the same from d on.
LEMMA BytesShift ==
  ASSUME NEW s \in Seq(Entry), NEW t \in Seq(Entry), NEW d \in Nat,
         NEW n \in 0..Len(t), d + n <= Len(s),
         \A i \in 1..n : t[i] = s[d + i]
  PROVE  Bytes(s, d + n) = Bytes(s, d) + Bytes(t, n)
<1> DEFINE P == {k \in Nat : k <= n => Bytes(s, d + k) = Bytes(s, d) + Bytes(t, k)}
<1>0. Len(s) \in Nat /\ Len(t) \in Nat /\ n \in Nat /\ n <= Len(t) /\ d \in 0..Len(s)
  OBVIOUS
<1>1. 0 \in P
  <2>1. Bytes(t, 0) = 0 /\ d + 0 = d /\ Bytes(s, d) \in Nat
    BY <1>0, BytesUnfold, BytesType
  <2> QED
    BY <2>1
<1>2. ASSUME NEW k \in P PROVE k + 1 \in P
  <2> SUFFICES ASSUME k + 1 <= n
               PROVE Bytes(s, d + (k + 1)) = Bytes(s, d) + Bytes(t, k + 1)
    OBVIOUS
  <2>1. /\ k \in Nat /\ k + 1 \in 1..Len(t) /\ k \in 0..Len(t)
        /\ d + k + 1 \in 1..Len(s) /\ k + 1 \in 1..n
        /\ (k + 1) - 1 = k /\ (d + k + 1) - 1 = d + k /\ d + (k + 1) = d + k + 1
    BY <1>0
  <2>2. Bytes(s, d + k) = Bytes(s, d) + Bytes(t, k)
    BY <1>0, <2>1
  <2>3. Bytes(t, k + 1) = Bytes(t, k) + t[k + 1].size
    BY <2>1, BytesUnfold
  <2>4. Bytes(s, d + k + 1) = Bytes(s, d + k) + s[d + k + 1].size
    BY <2>1, BytesUnfold
  <2>5. t[k + 1] = s[d + k + 1]
    BY <2>1
  <2>6. t[k + 1].size \in Nat
    <3>1. t[k + 1] \in Entry
      BY <2>1
    <3> QED
      BY <3>1 DEF Entry
  <2>7. Bytes(s, d) \in Nat /\ Bytes(t, k) \in Nat
    BY <1>0, <2>1, BytesType
  <2>8. Bytes(s, d + (k + 1)) = (Bytes(s, d) + Bytes(t, k)) + t[k + 1].size
    BY <2>1, <2>2, <2>4, <2>5
  <2>9. (Bytes(s, d) + Bytes(t, k)) + t[k + 1].size
           = Bytes(s, d) + (Bytes(t, k) + t[k + 1].size)
    <3> DEFINE x == Bytes(s, d)
               y == Bytes(t, k)
               z == t[k + 1].size
    <3>1. x \in Nat /\ y \in Nat /\ z \in Nat
      BY <2>6, <2>7
    <3> HIDE DEF x, y, z, P
    <3>2. (x + y) + z = x + (y + z)
      BY <3>1
    <3> QED
      BY <3>2 DEF x, y, z
  <2> QED
    BY <2>3, <2>8, <2>9, Zenon
<1>3. P \in SUBSET Nat
  OBVIOUS
<1> HIDE DEF P
<1>4. Nat \subseteq P
  BY <1>1, <1>2, <1>3, NatInd
<1> QED
  BY <1>0, <1>4 DEF P

\* Deleting the d oldest entries takes off what they weigh.
LEMMA BytesDrop ==
  ASSUME NEW s \in Seq(Entry), NEW d \in 0..Len(s)
  PROVE  /\ Drop(s, d) \in Seq(Entry) /\ Len(Drop(s, d)) = Len(s) - d
         /\ Bytes(Drop(s, d), Len(Drop(s, d))) = Bytes(s, Len(s)) - Bytes(s, d)
         /\ Bytes(s, d) \in Nat /\ Bytes(s, d) <= Bytes(s, Len(s))
<1> DEFINE t == Drop(s, d)
           n == Len(s) - d
<1>1. /\ t \in Seq(Entry) /\ Len(t) = n
      /\ \A i \in 1..n : t[i] = s[d + i]
  BY SplitProperties, ZenonT(30)
<1>2. Len(s) \in Nat /\ d \in Nat /\ n \in Nat /\ d + n = Len(s) /\ Len(s) \in 0..Len(s)
  <2>1. Len(s) \in Nat
    OBVIOUS
  <2> QED
    BY <2>1
<1> HIDE DEF t, n
<1>3. n \in 0..Len(t) /\ d + n <= Len(s)
  BY <1>1, <1>2
<1>4. Bytes(s, d + n) = Bytes(s, d) + Bytes(t, n)
  <2>1. t \in Seq(Entry) /\ d \in Nat /\ \A i \in 1..n : t[i] = s[d + i]
    BY <1>1, <1>2
  <2> QED
    BY <1>3, <2>1, BytesShift, ZenonT(30)
<1>5. Bytes(s, d) \in Nat /\ Bytes(t, n) \in Nat /\ Bytes(s, Len(s)) \in Nat
  BY <1>1, <1>2, <1>3, BytesType
<1>6. Len(t) = Len(s) - d
  BY <1>1 DEF n
<1> QED
  BY <1>1, <1>2, <1>4, <1>5, <1>6 DEF t

\* Storing an entry adds what it weighs.
LEMMA BytesAppend ==
  ASSUME NEW s \in Seq(Entry), NEW e \in Entry
  PROVE  /\ Append(s, e) \in Seq(Entry) /\ Len(Append(s, e)) = Len(s) + 1
         /\ Bytes(Append(s, e), Len(s) + 1) = Bytes(s, Len(s)) + e.size
<1> DEFINE t == Append(s, e)
           n == Len(s)
<1>1. /\ t \in Seq(Entry) /\ Len(t) = n + 1 /\ t[n + 1] = e
      /\ \A i \in 1..n : t[i] = s[i]
  BY AppendProperties
<1>2. n \in Nat
  OBVIOUS
<1>3. Bytes(t, n + 1) = Bytes(t, n) + e.size
  <2>1. n + 1 \in 1..Len(t) /\ (n + 1) - 1 = n
    BY <1>1, <1>2
  <2> HIDE DEF t, n
  <2> QED
    BY <1>1, <2>1, BytesUnfold
<1>4. Bytes(t, n) = Bytes(s, n)
  <2>1. n \in 0..Len(s) /\ 0 + n <= Len(t) /\ \A i \in 1..n : s[i] = t[0 + i]
    BY <1>1, <1>2
  <2>2. Bytes(t, 0 + n) = Bytes(t, 0) + Bytes(s, n)
    <3>1. t \in Seq(Entry) /\ 0 \in Nat
      BY <1>1
    <3> HIDE DEF t, n
    <3> QED
      BY <2>1, <3>1, BytesShift, ZenonT(30)
  <2>3. Bytes(t, 0) = 0 /\ Bytes(s, n) \in Nat /\ 0 + n = n
    <3>1. Bytes(t, 0) = 0
      BY <1>1, BytesUnfold
    <3>2. Bytes(s, n) \in Nat
      BY <2>1, BytesType
    <3> QED
      BY <1>2, <3>1, <3>2
  <2> QED
    BY <2>2, <2>3
<1> QED
  BY <1>1, <1>3, <1>4

-----------------------------------------------------------------------------
(* The capacity, in every configuration. *)

\* What is counted is what is there; deletions run past the back of the array
\* only when it is empty and no bytes are counted; a queue without a timer is
\* empty.
CapacityInv ==
  /\ CapacityRespected
  /\ behind > 0 => entries = << >> /\ MaxBytes = 0
  /\ pc = "none" => entries = << >> /\ behind = 0

\* Taking k entries off leaves room; k may be more than there are.
LEMMA DropKeepsCapacity ==
  ASSUME TypeOK, CapacityRespected, NEW d \in 0..Len(entries),
         entries' = Drop(entries, d), bytesQueued' = BytesAfter(d)
  PROVE  CapacityRespected' /\ Len(entries') = Len(entries) - d
<1>1. entries \in Seq(Entry) /\ Len(entries) \in Nat
  BY DEF TypeOK, ObjectTypeOK
<1>2. /\ Len(entries') = Len(entries) - d
      /\ Bytes(entries', Len(entries')) = Bytes(entries, Len(entries)) - Bytes(entries, d)
      /\ Bytes(entries, d) \in Nat /\ Bytes(entries, d) <= Bytes(entries, Len(entries))
  BY <1>1, BytesDrop
<1>3. Bytes(entries, Len(entries)) \in Nat
  BY <1>1, BytesType
<1> QED
  BY <1>1, <1>2, <1>3 DEF CapacityRespected, BytesAfter

LEMMA SendKeepsCapacity ==
  ASSUME TypeOK, CapacityInv, NEW k \in Nat, NEW s, Send(k, s)
  PROVE  CapacityInv'
<1> DEFINE n == Lesser(k, Len(entries))
<1>1. /\ n \in 0..Len(entries) /\ k - n \in Nat /\ Len(entries) \in Nat
      /\ (k - n > 0 => n = Len(entries))
  BY DEF Lesser, TypeOK, ObjectTypeOK
<1>2. entries' = Drop(entries, n) /\ bytesQueued' = BytesAfter(n) /\ pc' # "none"
      /\ behind' = (IF MaxBytes = 0 THEN k - n ELSE 0)
  BY DEF Send
<1> HIDE DEF n
<1>3. CapacityRespected' /\ Len(entries') = Len(entries) - n
  BY <1>1, <1>2, DropKeepsCapacity DEF CapacityInv
<1>4. entries' \in Seq(Entry)
  BY <1>1, <1>2, SplitProperties DEF TypeOK, ObjectTypeOK
<1>5. behind' > 0 => MaxBytes = 0 /\ Len(entries') = 0
  BY <1>1, <1>2, <1>3
<1>6. Len(entries') = 0 => entries' = << >>
  BY <1>4, EmptySeq
<1> QED
  BY <1>2, <1>3, <1>5, <1>6 DEF CapacityInv

LEMMA CollectKeepsCapacity ==
  ASSUME TypeOK, CapacityInv, NEW k \in Nat, NEW s \in Nat, NEW expired \in BOOLEAN,
         Collect(k, s, expired)
  PROVE  CapacityInv'
<1> DEFINE all == IF Coalesce /\ ~expired THEN Lesser(MaxBatchSize, k + s) ELSE k
<1>1. all \in Nat
  BY DEF Lesser
<1>2. CASE all = MaxBatchSize \/ ~Coalesce \/ expired
  <2>1. Send(all, s - (all - k))
    BY <1>2 DEF Collect
  <2> HIDE DEF all
  <2> QED
    BY <1>1, <2>1, SendKeepsCapacity
<1>3. CASE ~(all = MaxBatchSize \/ ~Coalesce \/ expired)
  <2>1. UNCHANGED <<entries, behind, bytesQueued>> /\ pc' = "wait"
    BY <1>3 DEF Collect
  <2> QED
    BY <2>1 DEF CapacityInv, CapacityRespected
<1> QED
  BY <1>2, <1>3

LEMMA NextIterationKeepsCapacity ==
  ASSUME TypeOK, CapacityInv, NextIteration
  PROVE  CapacityInv'
<1>1. CASE entries' = << >> /\ behind' = 0 /\ bytesQueued' = 0
  <2>1. << >> \in Seq(Entry) /\ Len(<< >>) = 0
    BY EmptySeq
  <2>2. Bytes(<< >>, 0) = 0
    BY <2>1, BytesUnfold
  <2> QED
    BY <1>1, <2>1, <2>2 DEF CapacityInv, CapacityRespected
<1>2. CASE sem > 0 /\ Collect(1, sem - 1, FALSE)
  <2>1. sem - 1 \in Nat
    BY <1>2 DEF TypeOK, ObjectTypeOK
  <2> QED
    BY <1>2, <2>1, CollectKeepsCapacity
<1>3. CASE pc' = "spin" /\ UNCHANGED <<entries, behind, bytesQueued>>
  BY <1>3 DEF CapacityInv, CapacityRespected
<1> QED
  BY <1>1, <1>2, <1>3 DEF NextIteration

\* An enqueue makes room before it stores; where it raises or refuses the
\* entry, it has only taken some away.
LEMMA EnqueueKeepsCapacity ==
  ASSUME TypeOK, CapacityInv, NEW size \in Sizes, Enqueue(size)
  PROVE  CapacityInv'
<1>1. PICK d \in 0..Len(entries) :
        /\ DropsNeeded(d, size)
        /\ IF d > Droppable THEN EnqueueRaises(Droppable)
           ELSE IF Oversize(size) THEN EnqueueRejects(d)
           ELSE EnqueueStores(d, size)
  BY DEF Enqueue
<1>2. /\ entries \in Seq(Entry) /\ Len(entries) \in Nat /\ d \in Nat /\ size \in Nat
      /\ behind \in Nat /\ nextId \in Nat
  BY DEF TypeOK, ObjectTypeOK, GhostTypeOK
<1>3. pc # "none" /\ pc' = pc
  BY <1>1 DEF Enqueue, EnqueueRaises, EnqueueRejects, EnqueueStores
<1>4. ASSUME NEW c \in 0..Len(entries), entries' = Drop(entries, c),
             bytesQueued' = BytesAfter(c), behind' = behind
      PROVE  CapacityInv'
  <2>1. CapacityRespected' /\ Len(entries') = Len(entries) - c
    BY <1>4, DropKeepsCapacity DEF CapacityInv
  <2>2. entries' \in Seq(Entry)
    BY <1>2, <1>4, SplitProperties
  <2>3. entries = << >> => Len(entries) = 0
    BY <1>2, EmptySeq
  <2>4. entries = << >> => entries' = << >>
    <3>1. entries = << >> => Len(entries') = 0
      BY <1>2, <2>1, <2>3
    <3> QED
      BY <2>2, <3>1, EmptySeq
  <2> QED
    BY <1>2, <1>3, <1>4, <2>1, <2>4 DEF CapacityInv
<1>5. CASE d > Droppable
  <2>1. Droppable \in Nat
    BY <1>2 DEF Droppable, TypeOK, ObjectTypeOK
  <2>2. Droppable \in 0..Len(entries)
    BY <1>2, <1>5, <2>1
  <2>3. /\ entries' = Drop(entries, Droppable) /\ bytesQueued' = BytesAfter(Droppable)
        /\ behind' = behind
    BY <1>1, <1>5 DEF EnqueueRaises, DropOldest
  <2> QED
    BY <1>4, <2>2, <2>3
<1>6. CASE ~(d > Droppable) /\ Oversize(size)
  <2>1. /\ entries' = Drop(entries, d) /\ bytesQueued' = BytesAfter(d)
        /\ behind' = behind
    BY <1>1, <1>6 DEF EnqueueRejects, DropOldest
  <2> QED
    BY <1>4, <2>1
<1>7. CASE ~(d > Droppable) /\ ~Oversize(size) /\ behind > 0
  <2>1. entries' = entries /\ behind' = behind - 1 /\ bytesQueued' = 0 /\ MaxBytes = 0
    BY <1>1, <1>7 DEF EnqueueStores, CapacityInv
  <2> QED
    BY <1>2, <1>3, <1>7, <2>1 DEF CapacityInv, CapacityRespected
<1>8. CASE ~(d > Droppable) /\ ~Oversize(size) /\ ~(behind > 0)
  <2> DEFINE t == Drop(entries, d)
             e == [id |-> nextId, size |-> size]
  <2>1. /\ entries' = Append(t, e) /\ behind' = 0
        /\ bytesQueued' = IF MaxBytes = 0 THEN 0 ELSE BytesAfter(d) + size
    BY <1>1, <1>8 DEF EnqueueStores
  <2>2. /\ t \in Seq(Entry) /\ Len(t) = Len(entries) - d
        /\ Bytes(t, Len(t)) = Bytes(entries, Len(entries)) - Bytes(entries, d)
        /\ Bytes(entries, d) \in Nat
    BY <1>2, BytesDrop
  <2>3. e \in Entry /\ e.size = size
    BY <1>2 DEF Entry
  <2> HIDE DEF t, e
  <2>4. /\ Len(entries') = Len(entries) - d + 1
        /\ Bytes(entries', Len(entries')) = Bytes(t, Len(t)) + size
    <3>1. /\ Len(Append(t, e)) = Len(t) + 1
          /\ Bytes(Append(t, e), Len(t) + 1) = Bytes(t, Len(t)) + e.size
      BY <2>2, <2>3, BytesAppend
    <3> QED
      BY <2>1, <2>2, <2>3, <3>1
  <2>5. behind = 0 /\ Count = Len(entries)
    BY <1>2, <1>8 DEF Count
  <2>6. Len(entries') <= MaxEntries
    <3>1. d >= Full
      BY <1>1 DEF DropsNeeded
    <3>2. CASE Len(entries) = MaxEntries
      <4>1. d >= 1
        BY <2>5, <3>1, <3>2 DEF Full
      <4> QED
        BY <1>2, <2>4, <3>2, <4>1
    <3>3. CASE Len(entries) # MaxEntries
      <4>1. Len(entries) < MaxEntries
        BY <1>2, <3>3 DEF CapacityInv, CapacityRespected
      <4> QED
        BY <1>2, <2>4, <4>1
    <3> QED
      BY <3>2, <3>3
  <2>7. ASSUME MaxBytes # 0
        PROVE  bytesQueued' = Bytes(entries', Len(entries')) /\ bytesQueued' <= MaxBytes
    <3>1. BytesAfter(d) = Bytes(t, Len(t)) /\ bytesQueued' = BytesAfter(d) + size
      BY <2>1, <2>2, <2>7 DEF BytesAfter, CapacityInv, CapacityRespected
    <3>2. size <= MaxBytes
      BY <1>2, <1>8, <2>7 DEF Oversize
    <3>3. Count - d <= 0 \/ BytesAfter(d) + size <= MaxBytes
      BY <1>1, <1>8, <2>7 DEF DropsNeeded, Fits
    <3>4. CASE Count - d <= 0
      <4>1. Len(t) = 0
        BY <1>2, <2>2, <2>5, <3>4
      <4>2. Bytes(t, Len(t)) = 0
        BY <2>2, <4>1, BytesUnfold
      <4> QED
        BY <1>2, <2>4, <3>1, <3>2, <4>2
    <3> QED
      BY <2>4, <3>1, <3>3, <3>4
  <2> QED
    BY <1>3, <2>1, <2>6, <2>7 DEF CapacityInv, CapacityRespected
<1> QED
  BY <1>5, <1>6, <1>7, <1>8

LEMMA FirstKeepsCapacity ==
  ASSUME TypeOK, CapacityInv, NEW size \in Sizes, EnqueueFirst(size)
  PROVE  CapacityInv'
<1>1. pc = "none" /\ pc' = "scheduled" /\ behind' = behind /\ entries = << >> /\ behind = 0
  BY DEF EnqueueFirst, CapacityInv
<1>2. CASE Oversize(size)
  BY <1>1, <1>2 DEF EnqueueFirst, CapacityInv, CapacityRespected
<1>3. CASE ~Oversize(size)
  <2> DEFINE e == [id |-> nextId, size |-> size]
  <2>1. size \in Nat /\ e \in Entry /\ e.size = size /\ << >> \in Seq(Entry)
    BY DEF TypeOK, GhostTypeOK, Entry
  <2>2. entries' = Append(<< >>, e) /\ bytesQueued' = IF MaxBytes = 0 THEN 0 ELSE size
    BY <1>3 DEF EnqueueFirst
  <2> HIDE DEF e
  <2>3. Bytes(<< >>, Len(<< >>)) = 0 /\ Len(<< >>) = 0
    BY <2>1, EmptySeq, BytesUnfold
  <2>4. Len(entries') = 1 /\ Bytes(entries', Len(entries')) = size
    <3>1. /\ Len(Append(<< >>, e)) = Len(<< >>) + 1
          /\ Bytes(Append(<< >>, e), Len(<< >>) + 1) = Bytes(<< >>, Len(<< >>)) + e.size
      BY <2>1, BytesAppend
    <3> QED
      BY <2>1, <2>2, <2>3, <3>1
  <2>5. MaxBytes # 0 => size <= MaxBytes
    BY <1>3, <2>1 DEF Oversize
  <2> QED
    BY <1>1, <2>2, <2>4, <2>5 DEF CapacityInv, CapacityRespected
<1> QED
  BY <1>2, <1>3

\* In every configuration the queue holds at most max_entries entries, and with
\* max_bytes set it counts exactly the bytes of what it holds, which fit: the
\* room made by drop_oldest_entry, the batches taken off and the entries refused
\* for their length keep bytes_queued and the array in step, even where enqueue
\* raises half way or the timer dies.
THEOREM CapacityHolds == Spec => []CapacityRespected
<1>1. Init => CapacityInv
  <2> SUFFICES ASSUME Init PROVE CapacityInv
    OBVIOUS
  <2>1. Len(<< >>) = 0 /\ Bytes(<< >>, 0) = 0
    BY EmptySeq, BytesUnfold
  <2> QED
    BY <2>1 DEF Init, CapacityInv, CapacityRespected
<1>2. TypeOK /\ CapacityInv /\ [Next]_vars => CapacityInv'
  <2> SUFFICES ASSUME TypeOK, CapacityInv, [Next]_vars
               PROVE  CapacityInv'
    OBVIOUS
  <2>1. ASSUME NEW size \in Sizes, Enqueue(size) PROVE CapacityInv'
    BY <2>1, EnqueueKeepsCapacity
  <2>2. ASSUME NEW size \in Sizes, EnqueueFirst(size) PROVE CapacityInv'
    BY <2>2, FirstKeepsCapacity
  <2>3. CASE TimerFires \/ HandlerSucceeds \/ GivesUp
    BY <2>3, NextIterationKeepsCapacity DEF TimerFires, HandlerSucceeds, GivesUp
  <2>4. CASE Wake
    <3>1. PICK expired \in BOOLEAN : Collect(claimed + 1, sem - 1, expired)
      BY <2>4 DEF Wake
    <3>2. claimed + 1 \in Nat /\ sem - 1 \in Nat
      BY <2>4 DEF Wake, TypeOK, ObjectTypeOK
    <3> QED
      BY <3>1, <3>2, CollectKeepsCapacity
  <2>5. CASE WaitTimesOut
    <3>1. Send(claimed, sem) /\ claimed \in Nat
      BY <2>5 DEF WaitTimesOut, TypeOK, ObjectTypeOK
    <3> QED
      BY <3>1, SendKeepsCapacity
  <2>6. CASE HandlerFails \/ SleepEnds
    <3>1. UNCHANGED <<entries, behind, bytesQueued>> /\ pc' # "none"
      BY <2>6 DEF HandlerFails, SleepEnds
    <3> QED
      BY <3>1 DEF CapacityInv, CapacityRespected
  <2>7. CASE UNCHANGED vars
    BY <2>7 DEF vars, CapacityInv, CapacityRespected
  <2> QED
    BY <2>1, <2>2, <2>3, <2>4, <2>5, <2>6, <2>7 DEF Next, Producer, Timer, AllSettled
<1>3. CapacityInv => CapacityRespected
  BY DEF CapacityInv
<1> QED
  BY <1>1, <1>2, <1>3, TypeCorrect, PTL DEF Spec

-----------------------------------------------------------------------------
(***************************************************************************)
(* The queue as the buffer that LossyFifo describes, among producers that  *)
(* leave room: every step stores an entry behind those that wait, after    *)
(* discarding the oldest, moves the oldest to the batch, or settles the    *)
(* batch (Shapes).  From that follows that no entry vanishes and that      *)
(* every step is one of LossyFifo.                                         *)
(***************************************************************************)

(* The batch is there while the handler works on it, and only then.        *)
Busy == pc \in {"handler", "sleep"}
BatchInv == batch # << >> <=> Busy

(* What the steps do with the entries.                                     *)
Stores ==
  \E d \in 0..Len(entries), size \in Nat :
    /\ entries' = Append(Drop(entries, d), [id |-> nextId, size |-> size])
    /\ dropped' = dropped \cup Ids(SubSeq(entries, 1, d))
    /\ nextId' = nextId + 1
    /\ UNCHANGED <<batch, delivered, lost>>

Discards ==
  /\ \E d \in 0..Len(entries) :
       /\ entries' = Drop(entries, d)
       /\ dropped' = dropped \cup Ids(SubSeq(entries, 1, d))
  /\ \E size \in Sizes : Oversize(size)
  /\ UNCHANGED <<batch, nextId, delivered, lost>>

Takes(least) ==
  \E n \in least..MaxBatchSize :
    /\ n <= Len(entries)
    /\ batch' = SubSeq(entries, 1, n)
    /\ entries' = Drop(entries, n)

Starts == ~Busy /\ Takes(1) /\ UNCHANGED <<nextId, delivered, lost, dropped>>

Settles ==
  /\ Busy /\ Takes(0)
  /\ \/ delivered' = delivered \cup Ids(batch) /\ lost' = lost
     \/ lost' = lost \cup Ids(batch) /\ delivered' = delivered
  /\ UNCHANGED <<nextId, dropped>>

Stays == UNCHANGED <<entries, batch, nextId, delivered, lost, dropped>>

Shapes == Stores \/ Discards \/ Starts \/ Settles \/ Stays

-----------------------------------------------------------------------------
(* Every step has one of these shapes *)

LEMMA EmptySplits ==
  ASSUME NEW S, NEW s \in Seq(S)
  PROVE  SubSeq(s, 1, 0) = << >> /\ Drop(s, 0) = s
<1>1. Len(s) \in Nat /\ 0 \in 0..Len(s)
  BY LenProperties
<1>2. SubSeq(s, 1, 0) \in Seq(S) /\ Len(SubSeq(s, 1, 0)) = 0
      /\ Drop(s, 0) \in Seq(S) /\ Len(Drop(s, 0)) = Len(s)
      /\ \A i \in 1..Len(s) : Drop(s, 0)[i] = s[i]
  <2>1. /\ SubSeq(s, 1, 0) \in Seq(S) /\ Len(SubSeq(s, 1, 0)) = 0
        /\ Drop(s, 0) \in Seq(S) /\ Len(Drop(s, 0)) = Len(s) - 0
        /\ \A i \in 1..(Len(s) - 0) : Drop(s, 0)[i] = s[0 + i]
    BY <1>1, SplitProperties
  <2> QED BY <1>1, <2>1
<1>3. SubSeq(s, 1, 0) = << >>
  BY <1>2, EmptySeq
<1>4. Drop(s, 0) = s
  BY <1>1, <1>2, SeqEqual
<1> QED BY <1>3, <1>4

(* Sending takes the claimed entries, all of which are there.              *)
LEMMA SendTakes ==
  ASSUME TypeOK, NEW k \in 1..MaxBatchSize, NEW s, Send(k, s), k <= Len(entries)
  PROVE  Takes(1) /\ BatchInv'
<1>1. Len(entries) \in Nat /\ entries \in Seq(Entry) /\ k \in 0..Len(entries)
  BY LenProperties DEF TypeOK, ObjectTypeOK
<1>2. Lesser(k, Len(entries)) = k
  BY <1>1 DEF Lesser
<1>3. batch' = SubSeq(entries, 1, k) /\ entries' = Drop(entries, k) /\ pc' = "handler"
  BY <1>1, <1>2 DEF Send
<1>4. Len(batch') = k
  BY <1>1, <1>3, SplitProperties
<1>5. batch' # << >>
  BY <1>4, EmptySeq
<1> QED BY <1>1, <1>3, <1>5 DEF Takes, BatchInv, Busy

LEMMA CollectTakes ==
  ASSUME TypeOK, NEW k \in 1..MaxBatchSize, NEW s \in Nat, NEW expired \in BOOLEAN,
         Collect(k, s, expired), Len(entries) = k + s
  PROVE  /\ BatchInv'
         /\ Takes(1) \/ (entries' = entries /\ batch' = << >>)
<1> DEFINE all == IF Coalesce /\ ~expired THEN Lesser(MaxBatchSize, k + s) ELSE k
<1>1. all \in k..(k + s) /\ all \in 1..MaxBatchSize
  BY DEF Lesser
<1>2. CASE all = MaxBatchSize \/ ~Coalesce \/ expired
  <2>1. Send(all, s - (all - k))
    BY <1>2 DEF Collect
  <2>2. all <= Len(entries)
    BY <1>1
  <2> HIDE DEF all
  <2> QED BY <1>1, <2>1, <2>2, SendTakes
<1>3. CASE ~(all = MaxBatchSize \/ ~Coalesce \/ expired)
  BY <1>3 DEF Collect, BatchInv, Busy
<1> QED BY <1>2, <1>3

LEMMA NextIterationTakes ==
  ASSUME TypeOK, CountsInv, pc # "wait", NextIteration
  PROVE  /\ BatchInv'
         /\ Takes(1) \/ (entries' = entries /\ batch' = << >>)
<1>1. /\ Len(entries) = sem /\ Count = sem /\ Len(entries) \in Nat
      /\ entries \in Seq(Entry)
  BY LenProperties DEF CountsInv, Count, TypeOK, ObjectTypeOK
<1>2. CASE Count <= 0 /\ pc' = "none" /\ entries' = << >> /\ batch' = << >>
  <2>1. entries = << >>
    BY <1>1, <1>2, EmptySeq
  <2> QED BY <1>2, <2>1 DEF BatchInv, Busy
<1>3. CASE sem > 0 /\ Collect(1, sem - 1, FALSE)
  <2>1. sem - 1 \in Nat /\ Len(entries) = 1 + (sem - 1) /\ 1 \in 1..MaxBatchSize
    BY <1>1, <1>3
  <2> QED BY <1>3, <2>1, CollectTakes
<1>4. (Count <= 0 /\ pc' = "none" /\ entries' = << >> /\ batch' = << >>)
      \/ (sem > 0 /\ Collect(1, sem - 1, FALSE))
  BY <1>1 DEF NextIteration, TypeOK, ObjectTypeOK
<1> QED BY <1>2, <1>3, <1>4

(* An enqueue stores its entry, or only makes room for it.                 *)
LEMMA EnqueueShape ==
  ASSUME TypeOK, CountsInv, NEW size \in Sizes, LeavesRoom(size), Enqueue(size)
  PROVE  (Stores \/ Discards) /\ pc' = pc /\ batch' = batch
<1>1. PICK d \in 0..Len(entries) :
        IF d > Droppable THEN EnqueueRaises(Droppable)
        ELSE IF Oversize(size) THEN EnqueueRejects(d)
        ELSE EnqueueStores(d, size)
  BY DEF Enqueue
<1>2. ~EnqueueRaises(Droppable)
  BY EnqueueCounts DEF EnqueueRaises, CountsInv
<1>3. UNCHANGED <<batch, delivered, lost>> /\ behind = 0 /\ size \in Nat
  BY DEF Enqueue, CountsInv
<1>4. CASE EnqueueStores(d, size)
  BY <1>3, <1>4 DEF EnqueueStores, Stores
<1>5. CASE Oversize(size) /\ EnqueueRejects(d)
  BY <1>3, <1>5 DEF EnqueueRejects, DropOldest, Oversize, Discards
<1> QED BY <1>1, <1>2, <1>3, <1>4, <1>5 DEF EnqueueStores, EnqueueRejects

LEMMA FirstShape ==
  ASSUME TypeOK, CountsInv, NEW size \in Sizes, EnqueueFirst(size)
  PROVE  (Stores \/ Stays) /\ pc = "none" /\ pc' = "scheduled" /\ batch' = batch
<1>1. /\ UNCHANGED <<batch, delivered, lost, dropped>> /\ pc = "none"
      /\ pc' = "scheduled" /\ size \in Nat
  BY DEF EnqueueFirst
<1>2. CASE Oversize(size)
  BY <1>1, <1>2 DEF EnqueueFirst, Stays
<1>3. CASE ~Oversize(size)
  <2>1. entries \in Seq(Entry) /\ Len(entries) = 0 /\ entries = << >>
    BY <1>1, EmptySeq DEF CountsInv, TypeOK, ObjectTypeOK
  <2>2. Drop(entries, 0) = << >> /\ Ids(SubSeq(entries, 1, 0)) = {}
    <3>1. Drop(entries, 0) = << >> /\ SubSeq(entries, 1, 0) = << >>
      BY <2>1, EmptySplits
    <3>2. Ids(<< >>) = {}
      BY DEF Ids
    <3> QED BY <3>1, <3>2
  <2>3. entries' = <<[id |-> nextId, size |-> size]>> /\ nextId' = nextId + 1
    BY <1>3 DEF EnqueueFirst
  <2>4. entries' = Append(<< >>, [id |-> nextId, size |-> size])
    BY <2>3
  <2>5. 0 \in 0..Len(entries) /\ dropped' = dropped \cup Ids(SubSeq(entries, 1, 0))
        /\ entries' = Append(Drop(entries, 0), [id |-> nextId, size |-> size])
    BY <1>1, <2>1, <2>2, <2>4
  <2> QED BY <1>1, <2>3, <2>5 DEF Stores
<1> QED BY <1>1, <1>2, <1>3

LEMMA StepShape ==
  ASSUME TypeOK, CountsInv, BatchInv, [RoomyNext]_vars
  PROVE  Shapes /\ BatchInv'
<1>0. entries \in Seq(Entry) /\ SubSeq(entries, 1, 0) = << >> /\ Drop(entries, 0) = entries
      /\ Len(entries) \in Nat
  BY EmptySplits, LenProperties DEF TypeOK, ObjectTypeOK
<1>1. ASSUME NEW size \in Sizes, LeavesRoom(size), Enqueue(size)
      PROVE  Shapes /\ BatchInv'
  BY <1>1, EnqueueShape DEF Shapes, BatchInv, Busy
<1>2. ASSUME NEW size \in Sizes, EnqueueFirst(size) PROVE Shapes /\ BatchInv'
  BY <1>2, FirstShape DEF Shapes, BatchInv, Busy
<1>3. CASE TimerFires
  <2>1. ~Busy /\ batch = << >> /\ UNCHANGED <<nextId, delivered, lost, dropped>>
        /\ NextIteration /\ pc # "wait"
    BY <1>3 DEF TimerFires, ghosts, BatchInv, Busy
  <2> QED BY <2>1, NextIterationTakes DEF Shapes, Starts, Stays
<1>4. CASE Wake
  <2>1. PICK expired \in BOOLEAN : Collect(claimed + 1, sem - 1, expired)
    BY <1>4 DEF Wake
  <2>2. /\ claimed + 1 \in 1..MaxBatchSize /\ sem - 1 \in Nat
        /\ Len(entries) = (claimed + 1) + (sem - 1)
    BY <1>4 DEF Wake, Waiting, CountsInv, TypeOK, ObjectTypeOK
  <2>3. ~Busy /\ batch = << >> /\ UNCHANGED <<nextId, delivered, lost, dropped>>
    BY <1>4 DEF Wake, Waiting, ghosts, BatchInv, Busy
  <2> QED BY <2>1, <2>2, <2>3, CollectTakes DEF Shapes, Starts, Stays
<1>5. CASE WaitTimesOut
  <2>1. Send(claimed, sem) /\ claimed \in 1..MaxBatchSize /\ claimed <= Len(entries)
    BY <1>5 DEF WaitTimesOut, Waiting, CountsInv, TypeOK, ObjectTypeOK
  <2>2. ~Busy /\ UNCHANGED <<nextId, delivered, lost, dropped>>
    BY <1>5 DEF WaitTimesOut, Waiting, ghosts, Busy
  <2> QED BY <2>1, <2>2, SendTakes DEF Shapes, Starts
<1>6. CASE HandlerSucceeds \/ GivesUp
  <2>1. Busy /\ NextIteration /\ pc # "wait" /\ UNCHANGED <<nextId, dropped>>
        /\ \/ delivered' = delivered \cup Ids(batch) /\ lost' = lost
           \/ lost' = lost \cup Ids(batch) /\ delivered' = delivered
    BY <1>6 DEF HandlerSucceeds, GivesUp, Busy
  <2>2. BatchInv' /\ (Takes(1) \/ (entries' = entries /\ batch' = << >>))
    BY <2>1, NextIterationTakes
  <2>3. Takes(0)
    <3>1. CASE Takes(1)
      <4>1. \A n \in 1..MaxBatchSize : n \in 0..MaxBatchSize
        OBVIOUS
      <4> QED BY <3>1, <4>1 DEF Takes
    <3>2. CASE entries' = entries /\ batch' = << >>
      <4>1. 0 \in 0..MaxBatchSize /\ 0 <= Len(entries)
        BY <1>0
      <4>2. batch' = SubSeq(entries, 1, 0) /\ entries' = Drop(entries, 0)
        BY <1>0, <3>2
      <4> QED BY <4>1, <4>2 DEF Takes
    <3> QED BY <2>2, <3>1, <3>2
  <2> QED BY <2>1, <2>2, <2>3 DEF Shapes, Settles
<1>7. CASE HandlerFails \/ SleepEnds
  BY <1>7 DEF HandlerFails, SleepEnds, ghosts, Shapes, Stays, BatchInv, Busy
<1>8. CASE UNCHANGED vars
  BY <1>8 DEF vars, ghosts, Shapes, Stays, BatchInv, Busy
<1> QED BY <1>1, <1>2, <1>3, <1>4, <1>5, <1>6, <1>7, <1>8
       DEF RoomyNext, RoomyProducer, Timer, AllSettled


-----------------------------------------------------------------------------
(* Entries in order *)

Ascending(s) == \A i, j \in 1..Len(s) : i < j => s[i].id < s[j].id

LEMMA IdsOf ==
  ASSUME NEW s \in Seq(Entry)
  PROVE  /\ Ids(s) = {s[i].id : i \in 1..Len(s)}
         /\ \A i \in 1..Len(s) : s[i] \in Entry /\ s[i].id \in Nat
<1>1. DOMAIN s = 1..Len(s)
  BY LenProperties
<1>2. \A i \in 1..Len(s) : s[i] \in Entry
  BY ElementOfSeq
<1> QED BY <1>1, <1>2 DEF Ids, Entry

(* Splitting a line of entries after its first n splits its ids.           *)
LEMMA SplitIds ==
  ASSUME NEW s \in Seq(Entry), Ascending(s), NEW n \in 0..Len(s)
  PROVE  /\ SubSeq(s, 1, n) \in Seq(Entry) /\ Drop(s, n) \in Seq(Entry)
         /\ Ascending(Drop(s, n))
         /\ Ids(s) = Ids(SubSeq(s, 1, n)) \cup Ids(Drop(s, n))
         /\ Ids(SubSeq(s, 1, n)) \cap Ids(Drop(s, n)) = {}
<1> DEFINE a == SubSeq(s, 1, n)
           b == Drop(s, n)
<1>a. a \in Seq(Entry) /\ Len(a) = n /\ \A i \in 1..n : a[i] = s[i]
  BY SplitProperties
<1>b. b \in Seq(Entry) /\ Len(b) = Len(s) - n /\ \A i \in 1..(Len(s) - n) : b[i] = s[n + i]
  BY SplitProperties
<1>c. Len(s) \in Nat /\ n \in Nat
  BY LenProperties
<1> HIDE DEF a, b
<1>1. /\ a \in Seq(Entry) /\ Len(a) = n /\ \A i \in 1..n : a[i] = s[i]
      /\ b \in Seq(Entry) /\ Len(b) = Len(s) - n
      /\ \A i \in 1..(Len(s) - n) : b[i] = s[n + i]
      /\ Len(s) \in Nat /\ n \in Nat
  BY <1>a, <1>b, <1>c
<1>2. Ids(a) = {s[i].id : i \in 1..n}
  BY <1>1, IdsOf
<1>3. Ids(b) = {s[i].id : i \in (n + 1)..Len(s)}
  <2>1. Ids(b) = {s[n + i].id : i \in 1..(Len(s) - n)}
    <3>1. Ids(b) = {b[i].id : i \in 1..Len(b)}
      BY <1>b, IdsOf
    <3>2. Ids(b) = {b[i].id : i \in 1..(Len(s) - n)}
      BY <3>1, <1>b
    <3>3. {b[i].id : i \in 1..(Len(s) - n)} = {s[n + i].id : i \in 1..(Len(s) - n)}
      BY <1>b
    <3> QED BY <3>2, <3>3
  <2>2. ASSUME NEW i \in 1..(Len(s) - n) PROVE n + i \in (n + 1)..Len(s)
    BY <1>1
  <2>3. ASSUME NEW i \in (n + 1)..Len(s) PROVE i - n \in 1..(Len(s) - n) /\ n + (i - n) = i
    BY <1>1
  <2>4. ASSUME NEW x \in Ids(b) PROVE x \in {s[i].id : i \in (n + 1)..Len(s)}
    BY <2>1, <2>2, <2>4
  <2>5. ASSUME NEW i \in (n + 1)..Len(s) PROVE s[i].id \in Ids(b)
    <3>1. s[i].id = s[n + (i - n)].id /\ i - n \in 1..(Len(s) - n)
      BY <2>3
    <3> QED BY <2>1, <3>1
  <2> QED BY <2>4, <2>5
<1>4. Ids(s) = {s[i].id : i \in 1..Len(s)}
  BY IdsOf
<1>5. \A i \in 1..Len(s) : i \in 1..n \/ i \in (n + 1)..Len(s)
  BY <1>1
<1>6. 1..n \subseteq 1..Len(s) /\ (n + 1)..Len(s) \subseteq 1..Len(s)
  BY <1>1
<1>7. Ids(s) = Ids(a) \cup Ids(b)
  BY <1>2, <1>3, <1>4, <1>5, <1>6
<1>8. Ids(a) \cap Ids(b) = {}
  <2> SUFFICES ASSUME NEW i \in 1..n, NEW j \in (n + 1)..Len(s) PROVE s[i].id # s[j].id
    BY <1>2, <1>3
  <2>1. i \in 1..Len(s) /\ j \in 1..Len(s) /\ i < j
    BY <1>1
  <2>2. s[i].id < s[j].id /\ s[i].id \in Nat /\ s[j].id \in Nat
    BY <2>1, IdsOf DEF Ascending
  <2> QED BY <2>2
<1>9. Ascending(b)
  <2> SUFFICES ASSUME NEW i \in 1..Len(b), NEW j \in 1..Len(b), i < j
               PROVE  b[i].id < b[j].id
    BY DEF Ascending
  <2>1. n + i \in 1..Len(s) /\ n + j \in 1..Len(s) /\ n + i < n + j
    BY <1>1
  <2>2. b[i] = s[n + i] /\ b[j] = s[n + j]
    BY <1>1
  <2> QED BY <2>1, <2>2 DEF Ascending
<1> QED BY <1>1, <1>7, <1>8, <1>9 DEF a, b

LEMMA AppendIds ==
  ASSUME NEW s \in Seq(Entry), Ascending(s), NEW e \in Entry, \A x \in Ids(s) : x < e.id
  PROVE  /\ Append(s, e) \in Seq(Entry) /\ Ascending(Append(s, e))
         /\ Ids(Append(s, e)) = Ids(s) \cup {e.id}
<1> DEFINE t == Append(s, e)
<1>1. /\ t \in Seq(Entry) /\ Len(t) = Len(s) + 1 /\ Len(s) \in Nat
      /\ \A i \in 1..Len(s) : t[i] = s[i]
      /\ t[Len(s) + 1] = e
  BY AppendProperties, LenProperties
<1> HIDE DEF t
<1>2. Ids(t) = {t[i].id : i \in 1..Len(t)} /\ Ids(s) = {s[i].id : i \in 1..Len(s)}
  BY <1>1, IdsOf
<1>3. \A i \in 1..Len(t) : i \in 1..Len(s) \/ i = Len(s) + 1
  BY <1>1
<1>4. 1..Len(s) \subseteq 1..Len(t) /\ Len(s) + 1 \in 1..Len(t)
  BY <1>1
<1>5. Ids(t) = Ids(s) \cup {e.id}
  BY <1>1, <1>2, <1>3, <1>4
<1>6. Ascending(t)
  <2> SUFFICES ASSUME NEW i \in 1..Len(t), NEW j \in 1..Len(t), i < j
               PROVE  t[i].id < t[j].id
    BY DEF Ascending
  <2>1. i \in 1..Len(s)
    BY <1>1
  <2>2. CASE j \in 1..Len(s)
    BY <1>1, <2>1, <2>2 DEF Ascending
  <2>3. CASE j = Len(s) + 1
    <3>1. s[i].id \in Ids(s) /\ t[i] = s[i] /\ t[j] = e
      BY <1>1, <1>2, <2>1, <2>3
    <3> QED BY <3>1
  <2> QED BY <1>3, <2>2, <2>3
<1> QED BY <1>1, <1>5, <1>6 DEF t

-----------------------------------------------------------------------------
(* No entry vanishes *)

(* w, b, y, l and d hold each of the numbers below n exactly once.         *)
Partition(w, b, y, l, d, n) ==
  /\ w \cup b \cup y \cup l \cup d = 1..(n - 1)
  /\ w \cap b = {} /\ w \cap y = {} /\ w \cap l = {} /\ w \cap d = {}
  /\ b \cap y = {} /\ b \cap l = {} /\ b \cap d = {}
  /\ y \cap l = {} /\ y \cap d = {}
  /\ l \cap d = {}

PartInv ==
  /\ nextId >= 1
  /\ Ascending(entries)
  /\ Partition(Ids(entries), Ids(batch), delivered, lost, dropped, nextId)

(* What becomes of a partition when a part f of w moves elsewhere.         *)
LEMMA PartitionMoves ==
  ASSUME NEW w, NEW b, NEW y, NEW l, NEW d, NEW n, Partition(w, b, y, l, d, n),
         NEW f, NEW r, w = f \cup r, f \cap r = {}
  PROVE  /\ Partition(r, b, y, l, d \cup f, n)
         /\ b = {} => Partition(r, f, y, l, d, n)
         /\ Partition(r, f, y \cup b, l, d, n)
         /\ Partition(r, f, y, l \cup b, d, n)
<1> DEFINE all == 1..(n - 1)
<1>0. Partition(w, b, y, l, d, n) <=>
        /\ w \cup b \cup y \cup l \cup d = all
        /\ w \cap b = {} /\ w \cap y = {} /\ w \cap l = {} /\ w \cap d = {}
        /\ b \cap y = {} /\ b \cap l = {} /\ b \cap d = {}
        /\ y \cap l = {} /\ y \cap d = {}
        /\ l \cap d = {}
  BY DEF Partition
<1> HIDE DEF all
<1>1. Partition(r, b, y, l, d \cup f, n)
  BY <1>0 DEF Partition, all
<1>2. ASSUME b = {} PROVE Partition(r, f, y, l, d, n)
  BY <1>0, <1>2 DEF Partition, all
<1>3. Partition(r, f, y \cup b, l, d, n)
  BY <1>0 DEF Partition, all
<1>4. Partition(r, f, y, l \cup b, d, n)
  BY <1>0 DEF Partition, all
<1> QED BY <1>1, <1>2, <1>3, <1>4

LEMMA PartitionGrows ==
  ASSUME NEW w, NEW b, NEW y, NEW l, NEW d, NEW n \in Nat, n >= 1,
         Partition(w, b, y, l, d, n)
  PROVE  Partition(w \cup {n}, b, y, l, d, n + 1)
<1>1. 1..((n + 1) - 1) = (1..(n - 1)) \cup {n} /\ n \notin 1..(n - 1)
  OBVIOUS
<1> QED BY <1>1 DEF Partition

LEMMA StoresParts ==
  ASSUME TypeOK, PartInv, Stores
  PROVE  PartInv'
<1>1. PICK d \in 0..Len(entries), size \in Nat :
        /\ entries' = Append(Drop(entries, d), [id |-> nextId, size |-> size])
        /\ dropped' = dropped \cup Ids(SubSeq(entries, 1, d))
        /\ nextId' = nextId + 1
        /\ UNCHANGED <<batch, delivered, lost>>
  BY DEF Stores
<1> DEFINE e == [id |-> nextId, size |-> size]
           f == Ids(SubSeq(entries, 1, d))
           r == Ids(Drop(entries, d))
<1>2. nextId \in Nat /\ nextId >= 1 /\ entries \in Seq(Entry) /\ Ascending(entries)
      /\ e \in Entry /\ e.id = nextId
  BY DEF TypeOK, ObjectTypeOK, GhostTypeOK, PartInv, Entry
<1>3. /\ Drop(entries, d) \in Seq(Entry) /\ Ascending(Drop(entries, d))
      /\ Ids(entries) = f \cup r /\ f \cap r = {}
  BY <1>2, SplitIds
<1>4. Partition(r, Ids(batch), delivered, lost, dropped \cup f, nextId)
  BY <1>3, PartitionMoves DEF PartInv
<1>5. \A x \in r : x < e.id
  <2>1. r \subseteq 1..(nextId - 1)
    BY <1>4 DEF Partition
  <2> QED BY <1>2, <2>1
<1>6. Ascending(entries') /\ Ids(entries') = r \cup {nextId}
  BY <1>1, <1>2, <1>3, <1>5, AppendIds
<1>7. Partition(r \cup {nextId}, Ids(batch), delivered, lost, dropped \cup f, nextId + 1)
  BY <1>2, <1>4, PartitionGrows
<1>8. Ids(entries)' = r \cup {nextId} /\ Ids(batch)' = Ids(batch)
  BY <1>1, <1>6 DEF Ids
<1>9. Partition(Ids(entries), Ids(batch), delivered, lost, dropped, nextId)'
  BY <1>1, <1>7, <1>8
<1>10. Ascending(entries)'
  BY <1>6 DEF Ascending
<1>11. nextId' >= 1
  BY <1>1, <1>2
<1> QED BY <1>9, <1>10, <1>11 DEF PartInv

LEMMA TakesParts ==
  ASSUME TypeOK, PartInv, NEW least \in Nat, Takes(least)
  PROVE  /\ Ascending(entries)'
         /\ Ids(entries) = Ids(batch)' \cup Ids(entries)'
         /\ Ids(batch)' \cap Ids(entries)' = {}
<1>1. PICK n \in least..MaxBatchSize :
        /\ n <= Len(entries)
        /\ batch' = SubSeq(entries, 1, n)
        /\ entries' = Drop(entries, n)
  BY DEF Takes
<1>2. n \in 0..Len(entries) /\ entries \in Seq(Entry) /\ Ascending(entries)
  <2>1. entries \in Seq(Entry) /\ Ascending(entries)
    BY DEF TypeOK, ObjectTypeOK, PartInv
  <2>2. Len(entries) \in Nat
    BY <2>1, LenProperties
  <2> QED BY <1>1, <2>1, <2>2
<1>3. /\ Ascending(Drop(entries, n))
      /\ Ids(entries) = Ids(SubSeq(entries, 1, n)) \cup Ids(Drop(entries, n))
      /\ Ids(SubSeq(entries, 1, n)) \cap Ids(Drop(entries, n)) = {}
  BY <1>2, SplitIds
<1>4. Ids(batch)' = Ids(SubSeq(entries, 1, n)) /\ Ids(entries)' = Ids(Drop(entries, n))
  BY <1>1 DEF Ids
<1>5. Ascending(entries)'
  BY <1>1, <1>3 DEF Ascending
<1> QED BY <1>3, <1>4, <1>5

LEMMA ShapeParts ==
  ASSUME TypeOK, BatchInv, PartInv, Shapes
  PROVE  PartInv'
<1>0. /\ nextId >= 1 /\ Ascending(entries)
      /\ Partition(Ids(entries), Ids(batch), delivered, lost, dropped, nextId)
  BY DEF PartInv
<1>1. CASE Stores
  BY <1>1, StoresParts
<1>2. CASE Discards
  <2>1. PICK d \in 0..Len(entries) :
          /\ entries' = Drop(entries, d)
          /\ dropped' = dropped \cup Ids(SubSeq(entries, 1, d))
    BY <1>2 DEF Discards
  <2>2. /\ Ascending(Drop(entries, d))
        /\ Ids(entries) = Ids(SubSeq(entries, 1, d)) \cup Ids(Drop(entries, d))
        /\ Ids(SubSeq(entries, 1, d)) \cap Ids(Drop(entries, d)) = {}
    BY SplitIds DEF TypeOK, ObjectTypeOK, PartInv
  <2>3. Partition(Ids(Drop(entries, d)), Ids(batch), delivered, lost,
                  dropped \cup Ids(SubSeq(entries, 1, d)), nextId)
    BY <1>0, <2>2, PartitionMoves
  <2>4. Ids(entries)' = Ids(Drop(entries, d)) /\ Ids(batch)' = Ids(batch)
    BY <1>2, <2>1 DEF Ids, Discards
  <2>5. Partition(Ids(entries), Ids(batch), delivered, lost, dropped, nextId)'
    BY <1>2, <2>1, <2>3, <2>4 DEF Discards
  <2>6. Ascending(entries)' /\ nextId' >= 1
    BY <1>0, <1>2, <2>1, <2>2 DEF Ascending, Discards
  <2> QED BY <2>5, <2>6 DEF PartInv
<1>3. CASE Starts
  <2>1. Ids(batch) = {}
    BY <1>3 DEF Starts, BatchInv, Ids
  <2>2. Takes(1) /\ UNCHANGED <<nextId, delivered, lost, dropped>>
    BY <1>3 DEF Starts
  <2>3. /\ Ascending(entries)'
        /\ Ids(entries) = Ids(batch)' \cup Ids(entries)'
        /\ Ids(batch)' \cap Ids(entries)' = {}
    BY <2>2, TakesParts
  <2>4. Partition(Ids(entries)', Ids(batch)', delivered, lost, dropped, nextId)
    BY <1>0, <2>1, <2>3, PartitionMoves
  <2>5. Partition(Ids(entries), Ids(batch), delivered, lost, dropped, nextId)'
    BY <2>2, <2>4
  <2> QED BY <1>0, <2>2, <2>3, <2>5 DEF PartInv
<1>4. CASE Settles
  <2>1. /\ Takes(0) /\ UNCHANGED <<nextId, dropped>>
        /\ \/ delivered' = delivered \cup Ids(batch) /\ lost' = lost
           \/ lost' = lost \cup Ids(batch) /\ delivered' = delivered
    BY <1>4 DEF Settles
  <2>2. /\ Ascending(entries)'
        /\ Ids(entries) = Ids(batch)' \cup Ids(entries)'
        /\ Ids(batch)' \cap Ids(entries)' = {}
    BY <2>1, TakesParts
  <2>3. /\ Partition(Ids(entries)', Ids(batch)', delivered \cup Ids(batch), lost,
                     dropped, nextId)
        /\ Partition(Ids(entries)', Ids(batch)', delivered, lost \cup Ids(batch),
                     dropped, nextId)
    BY <1>0, <2>2, PartitionMoves
  <2>4. Partition(Ids(entries)', Ids(batch)', delivered', lost', dropped', nextId')
    BY <2>1, <2>3
  <2> QED BY <1>0, <2>1, <2>2, <2>4 DEF PartInv
<1>5. CASE Stays
  BY <1>0, <1>5 DEF Stays, PartInv, Ascending, Ids
<1> QED BY <1>1, <1>2, <1>3, <1>4, <1>5 DEF Shapes

(* What Fifo is shown from, and NoEntryVanishes.                           *)
FifoInv == BatchInv /\ PartInv

LEMMA FifoInvariant == RoomySpec => []FifoInv
<1>1. ASSUME Init PROVE FifoInv
  <2>1. entries = << >> /\ batch = << >> /\ nextId = 1 /\ ~Busy
        /\ delivered = {} /\ lost = {} /\ dropped = {}
    BY <1>1 DEF Init, Busy
  <2>2. Ids(<< >>) = {} /\ Ascending(<< >>)
    BY DEF Ids, Ascending
  <2>3. Partition({}, {}, {}, {}, {}, 1)
    BY DEF Partition
  <2>4. Ids(entries) = {} /\ Ids(batch) = {} /\ Ascending(entries)
    BY <2>1, <2>2
  <2>5. Partition(Ids(entries), Ids(batch), delivered, lost, dropped, nextId)
    BY <2>1, <2>3, <2>4
  <2> QED BY <2>1, <2>4, <2>5 DEF FifoInv, BatchInv, PartInv
<1>2. ASSUME FifoInv, TypeOK, CountsInv, [RoomyNext]_vars PROVE FifoInv'
  BY <1>2, StepShape, ShapeParts DEF FifoInv
<1>3. RoomySpec => []TypeOK
  BY RoomyIsSpec, TypeCorrect, PTL
<1>4. RoomySpec => []CountsInv
  BY CountsInvariant
<1> QED BY <1>1, <1>2, <1>3, <1>4, PTL DEF RoomySpec

(* Every stored entry is on the queue, in the batch being sent,            *)
(* acknowledged, given up or dropped, and only one of these, if producers  *)
(* leave a coalescing timer room.                                          *)
THEOREM NothingVanishes == RoomySpec => []NoEntryVanishes
<1>1. ASSUME FifoInv PROVE NoEntryVanishes
  <2> DEFINE sent == IF pc \in {"handler", "sleep"} THEN Ids(batch) ELSE {}
             parts == <<Ids(entries), sent, delivered, lost, dropped>>
  <2>1. sent = Ids(batch)
    <3>1. Busy \/ batch = << >>
      BY <1>1 DEF FifoInv, BatchInv
    <3> QED BY <3>1 DEF Busy, Ids
  <2>2. Partition(Ids(entries), sent, delivered, lost, dropped, nextId)
    BY <1>1, <2>1 DEF FifoInv, PartInv
  <2> HIDE DEF sent
  <2>3. /\ parts[1] = Ids(entries) /\ parts[2] = sent /\ parts[3] = delivered
        /\ parts[4] = lost /\ parts[5] = dropped /\ 1..5 = {1, 2, 3, 4, 5}
    OBVIOUS
  <2> HIDE DEF parts
  <2>4. UNION {parts[i] : i \in 1..5}
          = parts[1] \cup parts[2] \cup parts[3] \cup parts[4] \cup parts[5]
    BY <2>3
  <2>5. UNION {parts[i] : i \in 1..5} = 1..(nextId - 1)
    BY <2>2, <2>3, <2>4 DEF Partition
  <2>6. \A i, j \in {1, 2, 3, 4, 5} : i # j => parts[i] \cap parts[j] = {}
    BY <2>2, <2>3 DEF Partition
  <2> QED BY <2>3, <2>5, <2>6 DEF NoEntryVanishes, parts, sent
<1>2. RoomySpec => []FifoInv
  BY FifoInvariant
<1> QED BY <1>1, <1>2, PTL

-----------------------------------------------------------------------------
(* Every step is one of LossyFifo *)

(* The mapping shows LossyFifo the ids of the entries.                     *)
IdSeq(s) == [i \in DOMAIN s |-> s[i].id]

LEMMA IdSeqType ==
  ASSUME NEW s \in Seq(Entry)
  PROVE  /\ IdSeq(s) \in Seq(Nat) /\ Len(IdSeq(s)) = Len(s)
         /\ \A i \in 1..Len(s) : IdSeq(s)[i] = s[i].id
         /\ Fifo!Members(IdSeq(s)) = Ids(s)
         /\ IdSeq(s) = << >> <=> s = << >>
<1>1. DOMAIN s = 1..Len(s) /\ Len(s) \in Nat /\ \A i \in 1..Len(s) : s[i].id \in Nat
  BY LenProperties, IdsOf
<1> DEFINE t == IdSeq(s)
<1>2. t \in [1..Len(s) -> Nat] /\ \A i \in 1..Len(s) : t[i] = s[i].id
  BY <1>1 DEF IdSeq
<1> HIDE DEF t
<1>3. t \in Seq(Nat)
  BY <1>1, <1>2, SeqDef
<1>4. Len(t) \in Nat /\ DOMAIN t = 1..Len(t)
  BY <1>3, LenProperties
<1>5. DOMAIN t = 1..Len(s)
  BY <1>2
<1>6. Len(t) = Len(s)
  <2> DEFINE m == Len(t)
             k == Len(s)
  <2>1. m \in Nat /\ k \in Nat /\ 1..m = 1..k
    BY <1>1, <1>4, <1>5
  <2> HIDE DEF m, k
  <2>2. (m \in 1..m \/ m = 0) /\ (k \in 1..k \/ k = 0)
    BY <2>1
  <2>3. (m \in 1..k \/ m = 0) /\ (k \in 1..m \/ k = 0)
    BY <2>1, <2>2
  <2>4. m <= k /\ k <= m
    BY <2>1, <2>3
  <2>5. m = k
    BY <2>1, <2>4
  <2> QED BY <2>5 DEF m, k
<1>7. Fifo!Members(t) = Ids(s)
  BY <1>1, <1>2, <1>5 DEF Fifo!Members, Ids
<1>8. t = << >> <=> s = << >>
  BY <1>3, <1>6, EmptySeq
<1> QED BY <1>2, <1>3, <1>6, <1>7, <1>8 DEF t

(* The first n, and what is behind them, look the same through IdSeq.      *)
LEMMA SplitIdSeq ==
  ASSUME NEW s \in Seq(Entry), NEW n \in 0..Len(s)
  PROVE  /\ IdSeq(SubSeq(s, 1, n)) = Fifo!First(IdSeq(s), n)
         /\ IdSeq(Drop(s, n)) = Fifo!Rest(IdSeq(s), n)
<1> DEFINE t == IdSeq(s)
           a == SubSeq(s, 1, n)
           b == Drop(s, n)
           c == SubSeq(t, 1, n)
           d == Drop(t, n)
<1>1. t \in Seq(Nat) /\ Len(t) = Len(s) /\ \A i \in 1..Len(s) : t[i] = s[i].id
  BY IdSeqType
<1>2. a \in Seq(Entry) /\ Len(a) = n /\ \A i \in 1..n : a[i] = s[i]
  BY SplitProperties
<1>3. b \in Seq(Entry) /\ Len(b) = Len(s) - n /\ \A i \in 1..(Len(s) - n) : b[i] = s[n + i]
  BY SplitProperties
<1>4. IdSeq(a) \in Seq(Nat) /\ Len(IdSeq(a)) = n /\ \A i \in 1..n : IdSeq(a)[i] = a[i].id
  BY <1>2, IdSeqType
<1>5. /\ IdSeq(b) \in Seq(Nat) /\ Len(IdSeq(b)) = Len(s) - n
      /\ \A i \in 1..(Len(s) - n) : IdSeq(b)[i] = b[i].id
  BY <1>3, IdSeqType
<1>c. Len(s) \in Nat /\ n \in Nat /\ n <= Len(s)
  BY LenProperties
<1> HIDE DEF t
<1>n. n \in 0..Len(t) /\ t \in Seq(Nat)
  <2> HIDE DEF a, b, c, d
  <2> QED BY <1>1
<1>6. c \in Seq(Nat) /\ Len(c) = n /\ \A i \in 1..n : c[i] = t[i]
  <2> HIDE DEF a, b, d
  <2> QED BY <1>n, SplitProperties, SMTT(20)
<1>7. d \in Seq(Nat) /\ Len(d) = Len(s) - n /\ \A i \in 1..(Len(s) - n) : d[i] = t[n + i]
  <2>1. d \in Seq(Nat) /\ Len(d) = Len(t) - n /\ \A i \in 1..(Len(t) - n) : d[i] = t[n + i]
    BY <1>1, <1>n, SplitProperties
  <2> QED BY <1>1, <2>1
<1> HIDE DEF a, b, c, d
<1>8. \A i \in 1..n : i \in 1..Len(s)
  BY <1>c
<1>9. \A i \in 1..(Len(s) - n) : n + i \in 1..Len(s)
  BY <1>c
<1>10. ASSUME NEW i \in 1..n PROVE IdSeq(a)[i] = c[i]
  <2>1. IdSeq(a)[i] = s[i].id
    BY <1>2, <1>4
  <2>2. c[i] = s[i].id
    BY <1>1, <1>6, <1>8
  <2> QED BY <2>1, <2>2
<1>11. ASSUME NEW i \in 1..(Len(s) - n) PROVE IdSeq(b)[i] = d[i]
  <2>1. IdSeq(b)[i] = s[n + i].id
    BY <1>3, <1>5
  <2>2. d[i] = s[n + i].id
    BY <1>1, <1>7, <1>9
  <2> QED BY <2>1, <2>2
<1>12. IdSeq(a) = c
  BY <1>4, <1>6, <1>10, SeqEqual
<1>13. IdSeq(b) = d
  BY <1>5, <1>7, <1>11, SeqEqual
<1> QED BY <1>12, <1>13 DEF a, b, c, d, t, Fifo!First, Fifo!Rest, Drop

LEMMA AppendIdSeq ==
  ASSUME NEW s \in Seq(Entry), NEW e \in Entry
  PROVE  IdSeq(Append(s, e)) = Append(IdSeq(s), e.id)
<1> DEFINE u == Append(s, e)
           t == IdSeq(s)
           v == Append(t, e.id)
<1>1. u \in Seq(Entry) /\ Len(u) = Len(s) + 1 /\ Len(s) \in Nat
      /\ (\A i \in 1..Len(s) : u[i] = s[i]) /\ u[Len(s) + 1] = e
  BY AppendProperties, LenProperties
<1>2. t \in Seq(Nat) /\ Len(t) = Len(s) /\ \A i \in 1..Len(s) : t[i] = s[i].id
  BY IdSeqType
<1> HIDE DEF t
<1>3. v \in Seq(Nat) /\ Len(v) = Len(s) + 1
      /\ (\A i \in 1..Len(s) : v[i] = t[i]) /\ v[Len(s) + 1] = e.id
  <2>1. e.id \in Nat
    BY DEF Entry
  <2>2. v \in Seq(Nat) /\ Len(v) = Len(t) + 1
        /\ (\A i \in 1..Len(t) : v[i] = t[i]) /\ v[Len(t) + 1] = e.id
    BY <1>2, <2>1, AppendProperties
  <2> QED BY <1>2, <2>2
<1> HIDE DEF u, v
<1>4. /\ IdSeq(u) \in Seq(Nat) /\ Len(IdSeq(u)) = Len(s) + 1
      /\ \A i \in 1..(Len(s) + 1) : IdSeq(u)[i] = u[i].id
  <2>1. /\ IdSeq(u) \in Seq(Nat) /\ Len(IdSeq(u)) = Len(u)
        /\ \A i \in 1..Len(u) : IdSeq(u)[i] = u[i].id
    BY <1>1, IdSeqType
  <2> QED BY <1>1, <2>1
<1>5. \A i \in 1..(Len(s) + 1) : i \in 1..Len(s) \/ i = Len(s) + 1
  BY <1>1
<1>6. ASSUME NEW i \in 1..(Len(s) + 1) PROVE IdSeq(u)[i] = v[i]
  <2>1. CASE i \in 1..Len(s)
    <3>1. v[i] = s[i].id
      BY <1>2, <1>3, <2>1
    <3>2. IdSeq(u)[i] = s[i].id
      BY <1>1, <1>4, <2>1
    <3> QED BY <3>1, <3>2
  <2>2. CASE i = Len(s) + 1
    BY <1>1, <1>3, <1>4, <2>2
  <2> QED BY <1>5, <2>1, <2>2
<1>7. IdSeq(u) = v
  BY <1>3, <1>4, <1>6, SeqEqual
<1> QED BY <1>7 DEF u, v, t

LEMMA StoresIsStore ==
  ASSUME TypeOK, TypeOK', CountsInv', Stores
  PROVE  Fifo!Store
<1>1. PICK d \in 0..Len(entries), size \in Nat :
        /\ entries' = Append(Drop(entries, d), [id |-> nextId, size |-> size])
        /\ dropped' = dropped \cup Ids(SubSeq(entries, 1, d))
        /\ nextId' = nextId + 1
        /\ UNCHANGED <<batch, delivered, lost>>
  BY DEF Stores
<1> DEFINE e == [id |-> nextId, size |-> size]
<1>2. /\ entries \in Seq(Entry) /\ entries' \in Seq(Entry) /\ Len(entries') <= MaxEntries
      /\ nextId \in Nat /\ e \in Entry /\ e.id = nextId
  BY DEF TypeOK, ObjectTypeOK, GhostTypeOK, CountsInv, Entry
<1>3. SubSeq(entries, 1, d) \in Seq(Entry) /\ Drop(entries, d) \in Seq(Entry)
  BY <1>2, SplitProperties
<1>4. IdSeq(entries') = Append(Fifo!Rest(IdSeq(entries), d), nextId)
  <2>1. IdSeq(Append(Drop(entries, d), e)) = Append(IdSeq(Drop(entries, d)), e.id)
    BY <1>2, <1>3, AppendIdSeq
  <2> QED BY <1>1, <1>2, <2>1, SplitIdSeq
<1>5. dropped' = dropped \cup Fifo!Members(Fifo!First(IdSeq(entries), d))
  <2>1. Fifo!Members(IdSeq(SubSeq(entries, 1, d))) = Ids(SubSeq(entries, 1, d))
    BY <1>3, IdSeqType
  <2>2. IdSeq(SubSeq(entries, 1, d)) = Fifo!First(IdSeq(entries), d)
    BY <1>2, SplitIdSeq
  <2> QED BY <1>1, <2>1, <2>2
<1>6. d \in 0..Len(IdSeq(entries)) /\ Len(IdSeq(entries')) <= MaxEntries
  BY <1>2, IdSeqType
<1>7. nextId = (nextId - 1) + 1 /\ nextId' - 1 = (nextId - 1) + 1
  BY <1>1, <1>2
<1>8. \E c \in 0..Len(IdSeq(entries)) :
        /\ IdSeq(entries') = Append(Fifo!Rest(IdSeq(entries), c), (nextId - 1) + 1)
        /\ dropped' = dropped \cup Fifo!Members(Fifo!First(IdSeq(entries), c))
  BY <1>4, <1>5, <1>6, <1>7
<1> QED BY <1>1, <1>6, <1>7, <1>8 DEF Fifo!Store, IdSeq

LEMMA TakesIsTake ==
  ASSUME TypeOK, NEW least \in Nat, Takes(least)
  PROVE  Fifo!Take(least)
<1>1. PICK n \in least..MaxBatchSize :
        /\ n <= Len(entries)
        /\ batch' = SubSeq(entries, 1, n)
        /\ entries' = Drop(entries, n)
  BY DEF Takes
<1>2. entries \in Seq(Entry) /\ Len(entries) \in Nat
  BY LenProperties DEF TypeOK, ObjectTypeOK
<1>3. n \in 0..Len(entries)
  BY <1>1, <1>2
<1>4. /\ IdSeq(batch') = Fifo!First(IdSeq(entries), n)
      /\ IdSeq(entries') = Fifo!Rest(IdSeq(entries), n)
  BY <1>1, <1>2, <1>3, SplitIdSeq
<1>5. n <= Len(IdSeq(entries))
  BY <1>1, <1>2, IdSeqType
<1> QED BY <1>4, <1>5 DEF Fifo!Take, IdSeq

LEMMA StepIsFifo ==
  ASSUME \A size \in Sizes : ~Oversize(size), TypeOK, TypeOK', CountsInv,
         CountsInv', FifoInv, [RoomyNext]_vars
  PROVE  [Fifo!Next]_(Fifo!vars)
<1>1. Shapes
  BY StepShape DEF FifoInv
<1>2. batch \in Seq(Entry)
  BY DEF TypeOK, ObjectTypeOK
<1>3. CASE Stores
  BY <1>3, StoresIsStore DEF Fifo!Next
<1>4. CASE Starts
  <2>1. IdSeq(batch) = << >>
    <3>1. batch = << >>
      BY <1>4 DEF Starts, FifoInv, BatchInv
    <3> QED BY <1>2, <3>1, IdSeqType
  <2>2. Fifo!Take(1)
    BY <1>4, TakesIsTake DEF Starts
  <2>3. Fifo!Start
    BY <1>4, <2>1, <2>2 DEF Starts, Fifo!Start, IdSeq
  <2> QED BY <2>3 DEF Fifo!Next
<1>5. CASE Settles
  <2>1. IdSeq(batch) # << >> /\ Fifo!Members(IdSeq(batch)) = Ids(batch)
    BY <1>2, <1>5, IdSeqType DEF Settles, FifoInv, BatchInv
  <2>2. Fifo!Take(0)
    BY <1>5, TakesIsTake DEF Settles
  <2>3. \/ delivered' = delivered \cup Fifo!Members(IdSeq(batch)) /\ lost' = lost
        \/ lost' = lost \cup Fifo!Members(IdSeq(batch)) /\ delivered' = delivered
    BY <1>5, <2>1 DEF Settles
  <2>4. Fifo!Settle
    BY <1>5, <2>1, <2>2, <2>3 DEF Settles, Fifo!Settle, IdSeq
  <2> QED BY <2>4 DEF Fifo!Next
<1>6. CASE Discards
  BY <1>6 DEF Discards
<1>7. CASE Stays
  BY <1>7 DEF Stays, Fifo!vars
<1> QED BY <1>1, <1>3, <1>4, <1>5, <1>6, <1>7 DEF Shapes

(* The queue implements the bounded first-in first-out buffer, its         *)
(* fairness aside, if producers leave a coalescing timer room and no entry *)
(* is refused for its length: what is stored goes to the back, batches and *)
(* discarded entries are taken from the front, at most max_entries wait,   *)
(* and a batch is settled as a whole before the next one is taken.         *)
THEOREM QueueIsFifo ==
  (\A size \in Sizes : ~Oversize(size))
    => (RoomySpec => Fifo!Init /\ [][Fifo!Next]_(Fifo!vars))
<1> SUFFICES ASSUME \A size \in Sizes : ~Oversize(size)
             PROVE  RoomySpec => Fifo!Init /\ [][Fifo!Next]_(Fifo!vars)
  OBVIOUS
<1>1. Init => Fifo!Init
  <2> SUFFICES ASSUME Init PROVE Fifo!Init
    OBVIOUS
  <2>1. IdSeq(<< >>) = << >>
    <3>1. << >> \in Seq(Entry)
      BY EmptySeq
    <3> QED BY <3>1, IdSeqType
  <2> QED BY <2>1 DEF Init, Fifo!Init, IdSeq
<1>2. TypeOK /\ TypeOK' /\ CountsInv /\ CountsInv' /\ FifoInv /\ [RoomyNext]_vars
      => [Fifo!Next]_(Fifo!vars)
  BY StepIsFifo
<1>3. RoomySpec => []TypeOK
  BY RoomyIsSpec, TypeCorrect, PTL
<1>4. RoomySpec => []CountsInv
  BY CountsInvariant
<1>5. RoomySpec => []FifoInv
  BY FifoInvariant
<1> QED BY <1>1, <1>2, <1>3, <1>4, <1>5, PTL DEF RoomySpec
=============================================================================
