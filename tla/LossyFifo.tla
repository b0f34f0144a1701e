----------------------------- MODULE LossyFifo -----------------------------
(***************************************************************************)
(* What kong/tools/queue.lua promises to the plugins that log through it,  *)
(* without semaphores, timers or delays: a bounded first-in first-out      *)
(* buffer whose consumer takes batches from the front, one at a time, and  *)
(* settles each as a whole, acknowledged or failed; a producer that finds  *)
(* the buffer full discards its oldest entries and stores its own.         *)
(***************************************************************************)
EXTENDS Naturals, Sequences

CONSTANTS Capacity,   \* how many entries may wait
          BatchSize   \* how many entries a batch may hold

VARIABLES stored,     \* how many entries were stored; entries are numbered
          waiting,    \* the numbers of the waiting entries, oldest first
          sending,    \* the numbers in the batch being sent
          acked, failed, discarded

vars == <<stored, waiting, sending, acked, failed, discarded>>

Members(s) == {s[i] : i \in DOMAIN s}
First(s, n) == SubSeq(s, 1, n)
Rest(s, n) == SubSeq(s, n + 1, Len(s))

Init ==
  /\ stored = 0
  /\ waiting = << >> /\ sending = << >>
  /\ acked = {} /\ failed = {} /\ discarded = {}

Store ==
  /\ \E d \in 0..Len(waiting) :
       /\ waiting' = Append(Rest(waiting, d), stored + 1)
       /\ discarded' = discarded \cup Members(First(waiting, d))
  /\ Len(waiting') <= Capacity
  /\ stored' = stored + 1
  /\ UNCHANGED <<sending, acked, failed>>

Take(least) ==
  \E n \in least..BatchSize :
    /\ n <= Len(waiting)
    /\ sending' = First(waiting, n)
    /\ waiting' = Rest(waiting, n)

Start ==
  /\ sending = << >>
  /\ Take(1)
  /\ UNCHANGED <<stored, acked, failed, discarded>>

Settle ==
  /\ sending # << >>
  /\ \/ acked' = acked \cup Members(sending) /\ failed' = failed
     \/ failed' = failed \cup Members(sending) /\ acked' = acked
  /\ Take(0)
  /\ UNCHANGED <<stored, discarded>>

Next == Store \/ Start \/ Settle

Spec == Init /\ [][Next]_vars /\ WF_vars(Start) /\ WF_vars(Settle)
=============================================================================
