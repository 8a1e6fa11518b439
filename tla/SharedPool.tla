----------------------------- MODULE SharedPool -----------------------------
(***************************************************************************)
(* The system pool as the network stack uses it.  sys_malloc and sys_free  *)
(* (lwip/contrib/src/sys_arch.c) call the allocator with interrupts and    *)
(* dispatching enabled, from every task that allocates a packet buffer.    *)
(* A task can be preempted anywhere inside malloc_ex; the model has the    *)
(* one preemption point between its search and its first write.            *)
(***************************************************************************)
EXTENDS Tlsf

CONSTANTS
  Thread,      \* the tasks that allocate
  MaxHeld      \* bound on the buffers a task holds

VARIABLES
  call,        \* call[t]: the locals of the malloc_ex that t is in
  got          \* got[t]: the buffers t holds

sharedVars == <<heap, request, call, got>>

Idle == [pc |-> "idle"]

SharedInit ==
  /\ TlsfInit
  /\ call = [t \in Thread |-> Idle]
  /\ got = [t \in Thread |-> {}]

(* sys_malloc up to the end of the search: the block found is a local.  A  *)
(* search that finds nothing returns null and changes nothing.             *)
sys_malloc(t, size) ==
  LET cell == MallocSearch(heap, size)
  IN  /\ call[t] = Idle
      /\ Cardinality(got[t]) < MaxHeld
      /\ cell[1] # -1
      /\ call' = [call EXCEPT ![t] = [pc |-> "take", size |-> size, cell |-> cell,
                                      b |-> FreeList(heap, cell)[1]]]
      /\ UNCHANGED <<heap, request, got>>

(* The rest of it, on the block found before.  Where that block has since  *)
(* been merged away, its header is dead memory and the model stops.        *)
sys_malloc_take(t) ==
  /\ call[t].pc = "take"
  /\ call[t].b \in DOMAIN heap.hdr
  /\ heap' = MallocTake(heap, call[t].b, call[t].cell, call[t].size)
  /\ got' = [got EXCEPT ![t] = @ \cup {Buffer(call[t].b)}]
  /\ call' = [call EXCEPT ![t] = Idle]
  /\ UNCHANGED request

sys_free(t, ptr) ==
  /\ call[t] = Idle
  /\ heap' = free_ex(heap, ptr)
  /\ got' = [got EXCEPT ![t] = @ \ {ptr}]
  /\ UNCHANGED <<request, call>>

SharedStep ==
  \E t \in Thread :
    \/ \E size \in Request : sys_malloc(t, size)
    \/ sys_malloc_take(t)
    \/ \E ptr \in got[t] : sys_free(t, ptr)

Spec == SharedInit /\ [][SharedStep]_sharedVars

(* No buffer is handed to two tasks: the "protection for certain critical  *)
(* regions during buffer allocation and deallocation and memory allocation *)
(* and deallocation" that lwipopts.h selects with SYS_LIGHTWEIGHT_PROT.    *)
NoSharedBuffer ==
  \A s, t \in Thread : s # t => got[s] \cap got[t] = {}
=============================================================================
