----------------------------- MODULE MCSemaphore -----------------------------
(* The requests of the runs: more than the slots and the queue can hold.       *)
EXTENDS Semaphore

CONSTANTS r1, r2, r3, r4, r5
=============================================================================
