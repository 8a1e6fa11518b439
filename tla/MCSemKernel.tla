---------------------------- MODULE MCSemKernel ----------------------------
(* Three tasks on two priorities, the main task above the others, and one  *)
(* semaphore.                                                              *)
EXTENDS SemKernel, TLC

CONSTANTS main, a, b, idle, sem1

MCTask == {main, a, b}
MCBasePri == (main :> 0) @@ (a :> 1) @@ (b :> 1) @@ (idle :> 1)

Symmetric == Permutations({a, b})
=============================================================================
