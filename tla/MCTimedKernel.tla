-------------------------- MODULE MCTimedKernel --------------------------
(* Two tasks of different priorities, one semaphore and one mailbox.       *)
EXTENDS TimedKernel, TLC

CONSTANTS main, a, idle, sem1, mbx1, d1

MCBasePri == (main :> 0) @@ (a :> 1) @@ (idle :> 1)
=============================================================================
