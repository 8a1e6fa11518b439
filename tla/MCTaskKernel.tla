---------------------------- MODULE MCTaskKernel ----------------------------
(* Three tasks on two priorities, the two of the lower one alike.          *)
EXTENDS TaskKernel, TLC

CONSTANTS main, a, b, idle

MCBasePri == (main :> 0) @@ (a :> 1) @@ (b :> 1) @@ (idle :> 1)

Sym == Permutations({a, b})
=============================================================================
