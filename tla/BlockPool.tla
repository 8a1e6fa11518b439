----------------------------- MODULE BlockPool -----------------------------
(***************************************************************************)
(* The fixed-size block pools of core/libc/mpool.c.                        *)
(*                                                                         *)
(* A pool is a free list, threaded through the headers of the blocks, and  *)
(* an index of the first block never handed out.  Blocks are numbered in   *)
(* the order of their addresses.  The operators say what the C functions   *)
(* do to any list, so that a block freed twice closes a cycle.             *)
(***************************************************************************)
EXTENDS Queue, Integers

(* A pool of n blocks, as init_pool() leaves it.                           *)
init_pool(n) ==
  [free |-> NULL, freeidx |-> 1, next |-> [k \in 1..n |-> NULL]]

PoolType(n) ==
  [free : 1..n \cup {NULL}, freeidx : 1..(n + 1),
   next : [1..n -> 1..n \cup {NULL}]]

Blocks(p) == DOMAIN p.next

(* Wrong variant: the end of the pool is tested one block too late.        *)
AllocBlock_past(p) ==
  IF p.free # NULL THEN p.free
  ELSE IF p.freeidx - 1 \in Blocks(p) \cup {0} THEN p.freeidx ELSE NULL

(* mpalloc(): the block that is returned, and what is left of the pool.    *)
AllocBlock(p) ==
  IF p.free # NULL THEN p.free
  ELSE IF p.freeidx \in Blocks(p) THEN p.freeidx ELSE NULL

mpalloc(p) ==
  IF p.free # NULL
  THEN [p EXCEPT !.free = p.next[p.free], !.next[p.free] = NULL]
  ELSE IF p.freeidx \in Blocks(p)
       THEN [p EXCEPT !.freeidx = @ + 1, !.next[p.freeidx] = NULL]
       ELSE p

mpfree(p, k) == [p EXCEPT !.next[k] = p.free, !.free = k]

----------------------------------------------------------------------------
(* Addresses in bytes, counted from the struct mpool at the head of the    *)
(* pool.  A pointer has 4 bytes, struct mpool has 20, and a                *)
(* struct mpool_block, whose data array is empty, has 4.                   *)

PtrSize == 4
PoolHeader == 20

(* freeidx points to struct mpool_block: adding to it scales by PtrSize.   *)
BlockAddr(k, blksz) ==
  PoolHeader + PtrSize * (k - 1) * (blksz + PtrSize) + PtrSize
=============================================================================
