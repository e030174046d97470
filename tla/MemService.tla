----------------------------- MODULE MemService -----------------------------
(***************************************************************************)
(* mem_service_ on the loop task: every five minutes a sample goes into    *)
(* the ring (HeapStream) and its figures into a latch (LowLatch), whatever *)
(* point a GET /api/heap on the httpd task has reached.                    *)
(***************************************************************************)
EXTENDS HeapStream, LowLatch

vars == <<ring, request, latchVars>>

Init == RingInit /\ LatchInit

Measure(level) == Push /\ Update(level)

Next ==
  \/ \E level \in Levels : Measure(level)
  \/ Answer /\ UNCHANGED latchVars

Spec == Init /\ [][Next]_vars
=============================================================================
