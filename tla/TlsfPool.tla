------------------------------ MODULE TlsfPool ------------------------------
(***************************************************************************)
(* A variable-size memory pool: the allocator called inside the critical   *)
(* sections of get_mpl and rel_mpl (port/mempool.c), and its services that *)
(* resize and clear.  Each call is atomic, interrupts being disabled.      *)
(***************************************************************************)
EXTENDS Tlsf

CONSTANT MaxHeld    \* bound on the buffers held at a time

ASSUME PoolAssumption == MaxHeld \in Nat

MayHold == Cardinality(DOMAIN request) < MaxHeld

(* The program now holds buffer ptr, asked for with size bytes.            *)
Hold(ptr, size) ==
  request' = [p \in DOMAIN request \cup {ptr} |-> IF p = ptr THEN size ELSE request[p]]

Drop(ptr) == request' = [p \in DOMAIN request \ {ptr} |-> request[p]]

(* A request for more than the whole pool is E_PAR.  One that the          *)
(* allocator cannot serve returns E_OK and a null pointer.                 *)
get_mpl(size) ==
  LET r == malloc_ex(heap, size)
  IN  IF size > PoolSize \/ r.ptr = Null
      THEN UNCHANGED tlsfVars
      ELSE heap' = r.heap /\ Hold(r.ptr, size)

rel_mpl(ptr) ==
  /\ heap' = free_ex(heap, ptr)
  /\ Drop(ptr)

(* A null buffer is allocated, a new size of 0 frees, and a move that      *)
(* finds no room leaves the old buffer as it was.                          *)
realloc_mpl(ptr, size) ==
  LET r == realloc_ex(heap, ptr, size)
  IN  \/ /\ size = 0
         /\ heap' = free_ex(heap, ptr)
         /\ Drop(ptr)
      \/ /\ size # 0 /\ r.ptr = Null
         /\ UNCHANGED tlsfVars
      \/ /\ size # 0 /\ r.ptr # Null
         /\ heap' = r.heap
         /\ request' = [p \in (DOMAIN request \ {ptr}) \cup {r.ptr} |->
                          IF p = r.ptr THEN size ELSE request[p]]

calloc_mpl(nelem, size) ==
  LET r == malloc_ex(heap, nelem * size)
  IN  IF nelem * size = 0 \/ r.ptr = Null
      THEN UNCHANGED tlsfVars
      ELSE heap' = r.heap /\ Hold(r.ptr, nelem * size)

PoolStep ==
  \/ \E size \in Request : MayHold /\ get_mpl(size)
  \/ \E ptr \in DOMAIN request : rel_mpl(ptr)
  \/ \E ptr \in DOMAIN request, size \in Request : realloc_mpl(ptr, size)
  \/ \E size \in Request : MayHold /\ calloc_mpl(2, size)

Spec == TlsfInit /\ [][PoolStep]_tlsfVars

-----------------------------------------------------------------------------

(* The headers and buffers fill the area without gap or overlap: the block *)
(* after each block is the next header, up to the last block, which stays  *)
(* where process_area put it and inside the pool.                          *)
HeapTiled ==
  /\ LastBlock + BHDR_OVERHEAD <= PoolSize
  /\ FirstBlock \in DOMAIN heap.hdr /\ LastBlock \in DOMAIN heap.hdr
  /\ \A b \in DOMAIN heap.hdr \ {LastBlock} :
       /\ Next_b(heap, b) \in DOMAIN heap.hdr
       /\ \A c \in DOMAIN heap.hdr : c > b => c >= Next_b(heap, b)

(* Boundary tags: the flag in a header tells the state of the block before *)
(* it, and where that block is free, prev_hdr leads back to it.  free_ex   *)
(* merges backwards on these two fields alone.                             *)
BoundaryTags ==
  \A b \in DOMAIN heap.hdr \ {LastBlock} :
    LET next == heap.hdr[Next_b(heap, b)]
    IN  /\ next.prev_free = heap.hdr[b].free
        /\ heap.hdr[b].free => next.prev_hdr = b

(* No two neighbours are both free: every free, trim and growth merges     *)
(* what it leaves, so that memory all given back is one block again.       *)
FullyCoalesced ==
  \A b \in DOMAIN heap.hdr \ {LastBlock} :
    ~ (heap.hdr[b].free /\ heap.hdr[Next_b(heap, b)].free)

(* The free blocks are exactly the members of the lists, each once and in  *)
(* the list of its size, and a bitmap bit is set when the list has one.    *)
ListsMatchBlocks ==
  /\ \A c \in DOMAIN heap.matrix :
       /\ \A i \in DOMAIN heap.matrix[c] :
            LET b == heap.matrix[c][i]
            IN  b \in DOMAIN heap.hdr /\ heap.hdr[b].free
                /\ MAPPING_INSERT(heap.hdr[b].size) = c
       /\ \A i, j \in DOMAIN heap.matrix[c] :
            heap.matrix[c][i] = heap.matrix[c][j] => i = j
  /\ \A f \in 0 .. REAL_FLI - 1, s \in 0 .. MAX_SLI - 1 :
       (s \in heap.sl_bitmap[f]) = (<<f, s>> \in DOMAIN heap.matrix)
  /\ \A b \in DOMAIN heap.hdr : heap.hdr[b].free =>
       LET list == FreeList(heap, MAPPING_INSERT(heap.hdr[b].size))
       IN  \E i \in DOMAIN list : list[i] = b
  /\ \A f \in 0 .. REAL_FLI - 1 : (f \in heap.fl_bitmap) = (heap.sl_bitmap[f] # {})

(* Every buffer the program holds is a used block of at least the size it  *)
(* asked for, and apart from the two that frame the area every used block  *)
(* is such a buffer: nothing is handed out twice and nothing leaks.        *)
RequestsServed ==
  /\ \A p \in DOMAIN request :
       /\ BlockOf(p) \in DOMAIN heap.hdr /\ ~ heap.hdr[BlockOf(p)].free
       /\ heap.hdr[BlockOf(p)].size >= request[p]
  /\ \A b \in DOMAIN heap.hdr \ {FirstBlock, LastBlock} :
       heap.hdr[b].free \/ Buffer(b) \in DOMAIN request

(* The search through the two bitmaps misses nothing: a request fails only *)
(* when no free block has the size it is rounded up to.                    *)
SearchComplete ==
  \A size \in Request :
    MallocSearch(heap, size)[1] = -1 =>
      \A b \in DOMAIN heap.hdr :
        heap.hdr[b].free => heap.hdr[b].size < SearchSize(Rounded(size))
=============================================================================
