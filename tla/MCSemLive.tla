------------------------------ MODULE MCSemLive ------------------------------
(* Two tasks that may change priority, and one semaphore.                  *)
EXTENDS SemKernel, TLC

CONSTANTS main, a, idle, sem1

MCBasePri == (main :> 0) @@ (a :> 1) @@ (idle :> 1)
=============================================================================
