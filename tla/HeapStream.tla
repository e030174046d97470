----------------------------- MODULE HeapStream -----------------------------
(***************************************************************************)
(* The heap trend: gplug_mem::Ring (heap_monitor.h), pushed to by          *)
(* mem_service_ on the loop task, and handle_heap_ on the httpd task, that *)
(* copies a batch of samples under mem_mutex_, sends it without the lock   *)
(* and resumes by push sequence.                                           *)
(*                                                                         *)
(* A sample is its own sequence number.                                    *)
(***************************************************************************)
EXTENDS Naturals, Sequences

CONSTANTS
  N,           \* size of the ring (288)
  Batch,       \* BATCH (32)
  MaxPushes    \* bound: samples pushed

ASSUME RingSizesAssumption == {N, Batch} \subseteq Nat \ {0} /\ MaxPushes \in Nat

VARIABLES
  buf, head, count, pushed,    \* Ring
  pc, next, out, sent,         \* handle_heap_: its position, the batch, the answer
  opened                       \* history: pushed() when the request came

ring == <<buf, head, count, pushed>>
request == <<pc, next, out, sent, opened>>

RingInit ==
  /\ buf = [i \in 0 .. N - 1 |-> MaxPushes] /\ head = 0 /\ count = 0 /\ pushed = 0
  /\ pc = "gone" /\ next = 0 /\ out = <<>> /\ sent = <<>> /\ opened = 0

Oldest == pushed - count

\* at(i), oldest first.
At(i) == buf[(head + N - count + i) % N]

\* mem_service_: a sample every five minutes.
Push ==
  /\ pushed < MaxPushes
  /\ buf' = [buf EXCEPT ![head] = pushed]
  /\ head' = (head + 1) % N
  /\ count' = IF count < N THEN count + 1 ELSE count
  /\ pushed' = pushed + 1
  /\ UNCHANGED request

\* GET /api/heap.
Open ==
  /\ pc \in {"done", "gone"}
  /\ pc' = "copy" /\ next' = 0 /\ out' = <<>> /\ sent' = <<>> /\ opened' = pushed
  /\ UNCHANGED ring

\* Where the next batch begins: what left the ring meanwhile is skipped.
Resume == IF next < Oldest THEN Oldest ELSE next
Stop == IF Resume + Batch < pushed THEN Resume + Batch ELSE pushed

\* Mutant: the samples are taken by their position in the answer.
Place_InAnswer(q) == q
Place(q) == q - Oldest

\* A batch is copied under the lock.
CopyBatch ==
  /\ pc = "copy" /\ Resume < pushed
  /\ out' = [i \in 1 .. Stop - Resume |-> At(Place(Resume + i - 1))]
  /\ next' = Stop
  /\ pc' = "send"
  /\ UNCHANGED <<ring, sent, opened>>

\* Nothing is left: the answer is closed.
Close ==
  /\ pc = "copy" /\ Resume >= pushed
  /\ next' = Resume
  /\ pc' = "done"
  /\ UNCHANGED <<ring, out, sent, opened>>

\* The batch is sent, however long that takes, or the client is gone.
Send ==
  /\ pc = "send"
  /\ sent' = sent \o out
  /\ out' = <<>>
  /\ pc' = "copy"
  /\ UNCHANGED <<ring, next, opened>>

ClientGone ==
  /\ pc = "send"
  /\ pc' = "gone"
  /\ UNCHANGED <<ring, next, out, sent, opened>>

Answer == Open \/ CopyBatch \/ Close \/ Send \/ ClientGone

-----------------------------------------------------------------------------
(* Properties.                                                             *)

\* No sample is sent twice and none out of order, whatever is pushed between
\* two batches.
SentInOrder == \A i, j \in DOMAIN sent : i < j => sent[i] < sent[j]

\* A complete answer has every sample of the moment of the request, except what
\* the ring had dropped before its turn came ("resume where it stopped even if
\* a push moved the ring", heap_monitor.h).
OnlyDroppedMissing ==
  pc \in {"copy", "done"} =>
    \A q \in 0 .. (IF pc = "done" THEN opened ELSE next) - 1 :
      q < Oldest \/ \E i \in DOMAIN sent : sent[i] = q

\* handle_heap_: the samples are sent once and in order, and only those are
\* missing that the ring had dropped.
HeapExported == SentInOrder /\ OnlyDroppedMissing

=============================================================================
