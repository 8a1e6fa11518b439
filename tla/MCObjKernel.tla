---------------------------- MODULE MCObjKernel ----------------------------
(* Three tasks: the main one, and two above it of the same priority.       *)
EXTENDS ObjKernel, TLC

CONSTANTS main, a, b, idle, mbx1, flg1, mpf1, b1, b2, d1, d2

MCBasePri == (main :> 1) @@ (a :> 0) @@ (b :> 0) @@ (idle :> 1)
MCShape == {<<1, 24>>, <<2, 24>>}

Sym ==
  Permutations({a, b}) \cup Permutations({b1, b2}) \cup Permutations({d1, d2})
=============================================================================
