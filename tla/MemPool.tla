------------------------------ MODULE MemPool ------------------------------
(***************************************************************************)
(* The fixed-size memory pools of core/kernel/port/mempool.c.              *)
(*                                                                         *)
(* The memory of a pool belongs to its creator, who is assumed not to give *)
(* it to a new pool while a task of the old one is still on its way with a *)
(* block.  Callers release only blocks they were given.                    *)
(***************************************************************************)
EXTENDS WaitObject

CONSTANTS Mpf, Shape    \* pool IDs, <<blkcnt, aligned blksz>> of new pools

ASSUME MpfAssumption ==
  Mpf \subseteq WaitObj /\ \A s \in Shape : s \in Nat \X (Nat \ {0})

VARIABLES
  mpfbmap,            \* the pools that exist
  mpf, blksz,         \* fields of mpfpool_t; blkcnt is the pool's size
  held,               \* the blocks the callers own
  given               \* history: tasks given a block while they waited

mpfVars == <<mpfbmap, mpf, blksz, held, given>>

MpfTypeOK ==
  /\ mpfbmap \subseteq Mpf
  /\ \A p \in Mpf : mpf[p] \in PoolType(Cardinality(Blocks(mpf[p])))
  /\ blksz \in [Mpf -> Nat]
  /\ held \subseteq Mpf \X Nat
  /\ given \subseteq Task

MpfInit ==
  /\ mpfbmap = {}
  /\ mpf = [p \in Mpf |-> init_pool(0)] /\ blksz = [p \in Mpf |-> 0]
  /\ held = {}
  /\ given = {}

cre_mpf(t, p, shape) ==
  /\ Running(t, "user")
  /\ p \notin mpfbmap
  /\ \A u \in given : extdat[u][1] # p
  /\ mpfbmap' = mpfbmap \cup {p}
  /\ mpf' = [mpf EXCEPT ![p] = init_pool(shape[1])]
  /\ blksz' = [blksz EXCEPT ![p] = shape[2]]
  /\ waitq' = [waitq EXCEPT !.head[p] = NULL, !.tail[p] = NULL]
  /\ UNCHANGED <<readyVars, tmq, tcbVars, cpuVars, pc, resched, waitObjVars,
                 held, given>>

del_mpf(t, p) ==
  /\ p \in mpfbmap
  /\ BeginDelete(t, p, "del_mpf")
  /\ UNCHANGED mpfVars

del_mpf_release(t) == ReleaseWaiter(t, "del_mpf") /\ UNCHANGED mpfVars

(* The callers' blocks go with the pool.                                   *)
del_mpf_end(t) ==
  /\ EndDelete(t, "del_mpf")
  /\ mpfbmap' = mpfbmap \ {victim}
  /\ held' = {b \in held : b[1] # victim}
  /\ UNCHANGED <<mpf, blksz, given>>

get_mpf_ok(t, p) ==
  LET k == AllocBlock(mpf[p]) IN
    /\ Running(t, "user")
    /\ p \in mpfbmap /\ k # NULL
    /\ mpf' = [mpf EXCEPT ![p] = mpalloc(@)]
    /\ held' = held \cup {<<p, k>>}
    /\ UNCHANGED <<schedVars, waitObjVars, mpfbmap, blksz, given>>

(* wobjid is not set: it keeps what an earlier wait left there.            *)
get_mpf(t, p) ==
  /\ Running(t, "user")
  /\ p \in mpfbmap /\ AllocBlock(mpf[p]) = NULL
  /\ Block(t, p)
  /\ ThenSchedule(t, "get_mpf")
  /\ UNCHANGED <<tmq, tskpri, wobjid, wuptim, waitObjVars, mpfVars>>

(* The block in extdat, if wobjid does not say E_DLT.                      *)
get_mpf_end(t) ==
  /\ Running(t, "get_mpf")
  /\ pc' = [pc EXCEPT ![t] = "user"]
  /\ dltd' = dltd \ {t} /\ given' = given \ {t}
  /\ held' = IF wobjid[t] # "E_DLT" /\ extdat[t][1] \in mpfbmap
             THEN held \cup {extdat[t]} ELSE held
  /\ UNCHANGED <<readyVars, tmq, waitq, tcbVars, cpuVars, resched, extdat, victim,
                 mpfbmap, mpf, blksz>>

(* "Check invalid blk pointer": the test of rel_mpf_sys(), in bytes from   *)
(* the head of the pool.                                                   *)
InRange(p, k) == BlockAddr(k, blksz[p]) <= Cardinality(Blocks(mpf[p])) * blksz[p]

(* Wrong variant: the block is also put on the free list.                  *)
rel_mpf_both(t, p, k) ==
  LET w == waitq.head[p] IN
    /\ Running(t, "user")
    /\ p \in mpfbmap /\ <<p, k>> \in held /\ InRange(p, k)
    /\ held' = held \ {<<p, k>>}
    /\ mpf' = [mpf EXCEPT ![p] = mpfree(@, k)]
    /\ \/ /\ w # NULL
          /\ waitq' = queue_extract(waitq, p)
          /\ extdat' = [extdat EXCEPT ![w] = <<p, k>>]
          /\ rq_insert(w)
          /\ given' = given \cup {w}
       \/ /\ w = NULL
          /\ UNCHANGED <<readyVars, waitq, extdat, given>>
    /\ ThenSchedule(t, "user")
    /\ UNCHANGED <<tmq, tcbVars, victim, dltd, mpfbmap, blksz>>

(* Wrong variant: waiting tasks are overlooked.                            *)
rel_mpf_free(t, p, k) ==
  /\ Running(t, "user")
  /\ p \in mpfbmap /\ <<p, k>> \in held /\ InRange(p, k)
  /\ held' = held \ {<<p, k>>}
  /\ mpf' = [mpf EXCEPT ![p] = mpfree(@, k)]
  /\ ThenSchedule(t, "user")
  /\ UNCHANGED <<readyVars, tmq, waitq, tcbVars, waitObjVars, mpfbmap, blksz, given>>

(* The first waiter is given the block, with its tskstat left at WAI.      *)
rel_mpf(t, p, k) ==
  LET w == waitq.head[p] IN
    /\ Running(t, "user")
    /\ p \in mpfbmap /\ <<p, k>> \in held /\ InRange(p, k)
    /\ held' = held \ {<<p, k>>}
    /\ \/ /\ w # NULL
          /\ waitq' = queue_extract(waitq, p)
          /\ extdat' = [extdat EXCEPT ![w] = <<p, k>>]
          /\ rq_insert(w)
          /\ given' = given \cup {w}
          /\ UNCHANGED mpf
       \/ /\ w = NULL
          /\ mpf' = [mpf EXCEPT ![p] = mpfree(@, k)]
          /\ UNCHANGED <<readyVars, waitq, extdat, given>>
    /\ ThenSchedule(t, "user")
    /\ UNCHANGED <<tmq, tcbVars, victim, dltd, mpfbmap, blksz>>

MpfStep ==
  \/ \E t \in Task, p \in Mpf :
       \/ \E shape \in Shape : cre_mpf(t, p, shape)
       \/ del_mpf(t, p) \/ get_mpf_ok(t, p) \/ get_mpf(t, p)
       \/ \E k \in Blocks(mpf[p]) : rel_mpf(t, p, k)
  \/ \E t \in Task : del_mpf_release(t) \/ del_mpf_end(t) \/ get_mpf_end(t)
=============================================================================
