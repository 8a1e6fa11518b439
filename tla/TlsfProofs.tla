---------------------------- MODULE TlsfProofs -----------------------------
(***************************************************************************)
(* Proofs that the allocator of Tlsf keeps its heap well formed, for every *)
(* pool size and every set of requests.                                    *)
(***************************************************************************)
EXTENDS TlsfPool, TlsfServiceProofs

(* The heap is well formed, and its used blocks are the buffers the        *)
(* program holds, each of the size asked for or more.                      *)
PoolInv ==
  /\ Good(heap)
  /\ \A p \in DOMAIN request :
       /\ p \in Int /\ BlockOf(p) \in Used(heap)
       /\ request[p] \in Nat /\ heap.hdr[BlockOf(p)].size >= request[p]
  /\ \A b \in Used(heap) : Buffer(b) \in DOMAIN request

(* init_memory_pool and every service of the pool keep the heap well       *)
(* formed and agree with the program on who holds which block.             *)
THEOREM PoolInvariance == Spec => []PoolInv
<1>1. TlsfInit => PoolInv
  <2> SUFFICES ASSUME TlsfInit PROVE PoolInv
    OBVIOUS
  <2> DEFINE h == process_area
             r == h.hdr
             a == AreaBlock
  <2>1. /\ FirstBlock \in Int /\ a \in Int /\ LastBlock \in Int /\ AreaSize \in Nat /\ AreaSize >= 8
        /\ a = FirstBlock + 16 /\ LastBlock = a + 8 + AreaSize
        /\ FirstBlock < a /\ a < LastBlock
    BY Layout
  <2>2. FirstBlock # a /\ FirstBlock # LastBlock /\ a # LastBlock
    BY <2>1
  <2>3. /\ DOMAIN r = {FirstBlock, a, LastBlock}
        /\ r[FirstBlock] = Header(Null, MIN_BLOCK_SIZE, FALSE, FALSE)
        /\ r[a] = Header(Null, AreaSize, FALSE, FALSE)
        /\ r[LastBlock] = Header(a, 0, FALSE, TRUE)
    BY <2>2, Zenon DEF process_area
  <2>4. /\ h.matrix = << >> /\ h.fl_bitmap = {}
        /\ h.sl_bitmap = [f \in 0 .. REAL_FLI - 1 |-> {}]
    BY DEF process_area
  <2> HIDE DEF h, a
  <2>5. /\ r[FirstBlock].size = 8 /\ r[a].size = AreaSize /\ r[LastBlock].size = 0
        /\ r[FirstBlock].free = FALSE /\ r[a].free = FALSE /\ r[LastBlock].free = FALSE
        /\ r[FirstBlock].prev_free = FALSE /\ r[a].prev_free = FALSE /\ r[LastBlock].prev_free = TRUE
        /\ r[FirstBlock].prev_hdr = 0 /\ r[a].prev_hdr = 0 /\ r[LastBlock].prev_hdr = a
    BY <2>3 DEF Header, Null, MIN_BLOCK_SIZE
  <2> HIDE DEF r
  <2>6. Headers(r, a)
    <3>1. Nx(r, FirstBlock) = a /\ Nx(r, a) = LastBlock
      BY <2>1, <2>5 DEF Nx
    <3>2. \A x \in DOMAIN r :
            /\ r[x].prev_hdr \in Int /\ r[x].size \in Nat
            /\ r[x].free \in BOOLEAN /\ r[x].prev_free \in BOOLEAN
      <4>1. DOMAIN r = {FirstBlock, a, LastBlock}
        BY <2>3
      <4>2. \A x \in DOMAIN r : r[x].free \in BOOLEAN /\ r[x].prev_free \in BOOLEAN
        BY <2>5, <4>1, Zenon
      <4>3. \A x \in DOMAIN r : r[x].prev_hdr \in Int /\ r[x].size \in Nat
        BY <2>1, <2>5, <4>1
      <4> QED BY <4>2, <4>3
    <3>3. DOMAIN r \subseteq FirstBlock .. LastBlock
      BY <2>1, <2>3
    <3>4. DOMAIN r \ {LastBlock} = {FirstBlock, a} /\ DOMAIN r \ {FirstBlock} = {a, LastBlock}
      BY <2>2, <2>3
    <3>5. \A x \in DOMAIN r \ {LastBlock} :
            /\ r[x].size >= 8 /\ Nx(r, x) \in DOMAIN r
            /\ \A y \in DOMAIN r : y > x => y >= Nx(r, x)
      <4>1. DOMAIN r = {FirstBlock, a, LastBlock}
        BY <2>3
      <4>2. r[FirstBlock].size >= 8 /\ r[a].size >= 8
        BY <2>1, <2>5
      <4>3. \A y \in DOMAIN r : (y > FirstBlock => y >= a) /\ (y > a => y >= LastBlock)
        BY <2>1, <4>1
      <4> QED BY <3>1, <3>4, <4>1, <4>2, <4>3
    <3>6. \A x \in DOMAIN r \ {FirstBlock} : \E p \in DOMAIN r \ {LastBlock} : Nx(r, p) = x
      BY <3>1, <3>4
    <3>7. \A x \in DOMAIN r \ {LastBlock} : x # a =>
            /\ r[Nx(r, x)].prev_free <=> r[x].free
            /\ r[x].free => r[Nx(r, x)].prev_hdr = x
      BY <2>5, <3>1, <3>4
    <3>8. \A x \in DOMAIN r \ {LastBlock} : ~ r[x].free
      BY <2>5, <3>4
    <3> QED BY Zenon, <2>3, <2>5, <3>2, <3>3, <3>5, <3>6, <3>7, <3>8 DEF Headers
  <2>7. FreeBlocks(h, a) = {} /\ Used(h) = {a} /\ Lists(h, {})
    <3>1. \A x \in DOMAIN r : ~ r[x].free
      BY Zenon, <2>3, <2>5
    <3>2. FreeBlocks(h, a) = {}
      BY <3>1 DEF FreeBlocks, r
    <3>3. Used(h) = {a}
      BY <2>2, <2>3, <3>1 DEF Used, r
    <3>4. DOMAIN h.matrix = {}
      BY <2>4
    <3>5. /\ h.sl_bitmap \in [0 .. REAL_FLI - 1 -> SUBSET (0 .. MAX_SLI - 1)]
          /\ \A f \in 0 .. REAL_FLI - 1 : h.sl_bitmap[f] = {}
      BY <2>4, Zenon
    <3>6. \A c \in Cells : c[1] \in 0 .. REAL_FLI - 1
      BY DEF Cells
    <3>7. Bitmaps(h)
      BY <2>4, <3>4, <3>5, <3>6, Zenon DEF Bitmaps
    <3> QED BY <3>2, <3>3, <3>4, <3>7 DEF Lists, Members
  <2>8. Good(heap) /\ SameUsed(h, heap, a) /\ a \notin Used(heap)
    <3>1. heap = free_ex(h, Buffer(a))
      BY DEF TlsfInit, init_memory_pool, h, a
    <3>2. Loose(h, a) /\ a \in DOMAIN h.hdr \ {FirstBlock, LastBlock} /\ ~ h.hdr[a].free
      BY Zenon, <2>2, <2>3, <2>5, <2>6, <2>7 DEF Loose, r
    <3> QED BY <3>1, <3>2, Free
  <2>9. Used(heap) = {}
    BY <2>7, <2>8 DEF SameUsed
  <2>10. DOMAIN request = {}
    BY DEF TlsfInit
  <2> QED BY <2>8, <2>9, <2>10 DEF PoolInv
<1>2. ASSUME PoolInv, NEW size \in Nat, size <= 2^29, malloc_ex(heap, size).ptr # Null,
             heap' = malloc_ex(heap, size).heap, Hold(malloc_ex(heap, size).ptr, size)
      PROVE  PoolInv'
  <2> DEFINE m == malloc_ex(heap, size)
             b == BlockOf(m.ptr)
  <2>1. /\ Good(heap') /\ SameUsed(heap, heap', b) /\ b \in Used(heap') /\ b \notin Used(heap)
        /\ m.ptr = Buffer(b) /\ heap'.hdr[b].size >= size
    BY <1>2, Malloc DEF PoolInv
  <2>2. /\ DOMAIN request' = DOMAIN request \cup {m.ptr} /\ request'[m.ptr] = size
        /\ \A p \in DOMAIN request : p # m.ptr => request'[p] = request[p]
    BY <1>2 DEF Hold
  <2> HIDE DEF b, m
  <2>3. b \in Int
    BY <2>1, UsedBlock
  <2>4. ASSUME NEW p \in DOMAIN request'
        PROVE  /\ p \in Int /\ BlockOf(p) \in Used(heap')
               /\ request'[p] \in Nat /\ heap'.hdr[BlockOf(p)].size >= request'[p]
    <3>1. CASE p = m.ptr
      <4>1. p \in Int /\ BlockOf(p) = b
        BY <2>1, <2>3, <3>1 DEF BlockOf, Buffer, BHDR_OVERHEAD
      <4> QED BY <2>1, <2>2, <3>1, <4>1
    <3>2. CASE p # m.ptr
      <4>1. /\ p \in Int /\ BlockOf(p) \in Used(heap)
            /\ request[p] \in Nat /\ heap.hdr[BlockOf(p)].size >= request[p] /\ request'[p] = request[p]
        BY <1>2, <2>2, <3>2 DEF PoolInv
      <4>2. BlockOf(p) \in Used(heap') /\ heap'.hdr[BlockOf(p)].size = heap.hdr[BlockOf(p)].size
        BY <2>1, <4>1 DEF SameUsed
      <4> QED BY <4>1, <4>2
    <3> QED BY <3>1, <3>2
  <2>5. \A x \in Used(heap') : Buffer(x) \in DOMAIN request'
    BY <1>2, <2>1, <2>2 DEF PoolInv, SameUsed
  <2> QED BY <2>1, <2>4, <2>5 DEF PoolInv
<1>3. ASSUME PoolInv, NEW ptr \in DOMAIN request, heap' = free_ex(heap, ptr), Drop(ptr)
      PROVE  PoolInv'
  <2> DEFINE b == BlockOf(ptr)
  <2>1. ptr \in Int /\ b \in Used(heap) /\ Good(heap)
    BY <1>3 DEF PoolInv
  <2>2. Buffer(b) = ptr
    BY <2>1 DEF BlockOf, Buffer, BHDR_OVERHEAD
  <2> HIDE DEF b
  <2>3. Good(heap') /\ SameUsed(heap, heap', b) /\ b \notin Used(heap')
    BY <1>3, <2>1, <2>2, UsedBlock, Free
  <2>4. /\ DOMAIN request' = DOMAIN request \ {ptr}
        /\ \A p \in DOMAIN request' : request'[p] = request[p]
    BY <1>3 DEF Drop
  <2>5. ASSUME NEW p \in DOMAIN request'
        PROVE  /\ p \in Int /\ BlockOf(p) \in Used(heap')
               /\ request'[p] \in Nat /\ heap'.hdr[BlockOf(p)].size >= request'[p]
    <3>1. /\ p \in Int /\ BlockOf(p) \in Used(heap)
          /\ request[p] \in Nat /\ heap.hdr[BlockOf(p)].size >= request[p] /\ request'[p] = request[p]
      BY <1>3, <2>4 DEF PoolInv
    <3>2. BlockOf(p) # b
      BY <2>1, <2>4, <3>1 DEF BlockOf, BHDR_OVERHEAD, b
    <3> QED BY <2>3, <3>1, <3>2 DEF SameUsed
  <2>6. ASSUME NEW x \in Used(heap') PROVE Buffer(x) \in DOMAIN request'
    <3>1. x \in Used(heap) /\ x # b
      BY <2>3 DEF SameUsed
    <3>2. Buffer(x) # ptr
      <4>1. x \in Int /\ b \in Int
        BY <2>1, <3>1, UsedBlock
      <4> QED BY <2>2, <3>1, <4>1 DEF Buffer, BHDR_OVERHEAD
    <3> QED BY <1>3, <2>4, <3>1, <3>2 DEF PoolInv
  <2> QED BY <2>3, <2>5, <2>6 DEF PoolInv
<1>4. ASSUME PoolInv, NEW ptr \in DOMAIN request, NEW size \in Request, realloc_mpl(ptr, size)
      PROVE  PoolInv'
  <2> DEFINE m == realloc_ex(heap, ptr, size)
             b == BlockOf(ptr)
             c == BlockOf(m.ptr)
  <2>1. ptr \in Int /\ b \in Used(heap) /\ Good(heap)
    BY <1>4 DEF PoolInv
  <2>2. Buffer(b) = ptr
    BY <2>1 DEF BlockOf, Buffer, BHDR_OVERHEAD
  <2>3. size \in Nat /\ size <= 2^29
    BY TlsfAssumption
  <2>4. CASE size = 0 /\ heap' = free_ex(heap, ptr) /\ Drop(ptr)
    BY <1>3, <1>4, <2>4
  <2>5. CASE UNCHANGED tlsfVars
    BY <1>4, <2>5 DEF tlsfVars, PoolInv
  <2>6. CASE m.ptr # Null /\ heap' = m.heap
             /\ request' = [p \in (DOMAIN request \ {ptr}) \cup {m.ptr} |->
                              IF p = m.ptr THEN size ELSE request[p]]
    <3>1. /\ Good(heap') /\ Used(heap') = (Used(heap) \ {b}) \cup {c}
          /\ \A x \in Used(heap) \ {b} : x # c /\ heap'.hdr[x].size = heap.hdr[x].size
          /\ m.ptr = Buffer(c) /\ heap'.hdr[c].size >= size
      <4> HIDE DEF b
      <4> QED BY <2>1, <2>2, <2>3, <2>6, Realloc
    <3>2. /\ DOMAIN request' = (DOMAIN request \ {ptr}) \cup {m.ptr} /\ request'[m.ptr] = size
          /\ \A p \in DOMAIN request \ {ptr} : p # m.ptr => request'[p] = request[p]
      BY <2>6
    <3> HIDE DEF m, c
    <3>3. c \in Int
      BY <3>1, UsedBlock
    <3>4. ASSUME NEW p \in DOMAIN request'
          PROVE  /\ p \in Int /\ BlockOf(p) \in Used(heap')
                 /\ request'[p] \in Nat /\ heap'.hdr[BlockOf(p)].size >= request'[p]
      <4>1. CASE p = m.ptr
        <5>1. p \in Int /\ BlockOf(p) = c
          BY <3>1, <3>3, <4>1 DEF BlockOf, Buffer, BHDR_OVERHEAD
        <5> QED BY <2>3, <3>1, <3>2, <4>1, <5>1
      <4>2. CASE p # m.ptr
        <5>1. /\ p \in Int /\ BlockOf(p) \in Used(heap) /\ p # ptr /\ request[p] \in Nat
              /\ heap.hdr[BlockOf(p)].size >= request[p] /\ request'[p] = request[p]
          BY <1>4, <3>2, <4>2 DEF PoolInv
        <5>2. BlockOf(p) # b
          BY <2>1, <5>1 DEF BlockOf, BHDR_OVERHEAD
        <5> HIDE DEF b
        <5> QED BY <3>1, <5>1, <5>2
      <4> QED BY <4>1, <4>2
    <3>5. ASSUME NEW x \in Used(heap') PROVE Buffer(x) \in DOMAIN request'
      <4>1. CASE x = c
        BY <3>1, <3>2, <4>1
      <4>2. CASE x # c
        <5>1. x \in Used(heap) /\ x # b
          BY <3>1, <4>2
        <5>2. Buffer(x) # ptr
          <6>1. x \in Int /\ b \in Int
            BY <2>1, <5>1, UsedBlock
          <6> QED BY <2>2, <5>1, <6>1 DEF Buffer, BHDR_OVERHEAD
        <5> QED BY <1>4, <3>2, <5>1, <5>2 DEF PoolInv
      <4> QED BY <4>1, <4>2
    <3> QED BY <3>1, <3>4, <3>5 DEF PoolInv
  <2> QED BY <1>4, <2>4, <2>5, <2>6 DEF realloc_mpl
<1>5. PoolInv /\ [PoolStep]_tlsfVars => PoolInv'
  <2> SUFFICES ASSUME PoolInv, [PoolStep]_tlsfVars PROVE PoolInv'
    OBVIOUS
  <2>1. ASSUME NEW size \in Request PROVE size \in Nat /\ size <= 2^29 /\ 2 * size \in Nat /\ 2 * size <= 2^29
    BY TlsfAssumption
  <2>2. CASE UNCHANGED tlsfVars
    BY <2>2 DEF tlsfVars, PoolInv
  <2>3. ASSUME NEW size \in Request, get_mpl(size) PROVE PoolInv'
    <3>1. CASE size > PoolSize \/ malloc_ex(heap, size).ptr = Null
      BY <2>2, <2>3, <3>1 DEF get_mpl
    <3>2. CASE ~ (size > PoolSize \/ malloc_ex(heap, size).ptr = Null)
      BY <1>2, <2>1, <2>3, <3>2 DEF get_mpl
    <3> QED BY <3>1, <3>2
  <2>4. ASSUME NEW ptr \in DOMAIN request, rel_mpl(ptr) PROVE PoolInv'
    BY <1>3, <2>4 DEF rel_mpl
  <2>5. ASSUME NEW ptr \in DOMAIN request, NEW size \in Request, realloc_mpl(ptr, size)
        PROVE  PoolInv'
    BY <1>4, <2>5
  <2>6. ASSUME NEW size \in Request, calloc_mpl(2, size) PROVE PoolInv'
    <3>1. CASE 2 * size = 0 \/ malloc_ex(heap, 2 * size).ptr = Null
      BY <2>2, <2>6, <3>1 DEF calloc_mpl
    <3>2. CASE ~ (2 * size = 0 \/ malloc_ex(heap, 2 * size).ptr = Null)
      BY <1>2, <2>1, <2>6, <3>2 DEF calloc_mpl
    <3> QED BY <3>1, <3>2
  <2> QED BY <2>2, <2>3, <2>4, <2>5, <2>6 DEF PoolStep
<1> QED BY <1>1, <1>5, PTL DEF Spec

(* The blocks always fill the area from end to end, their boundary tags    *)
(* and state bits agree, no two free blocks are neighbours, and the lists  *)
(* and bitmaps hold exactly the free blocks: what every service of tlsf.c  *)
(* takes for granted and has to leave behind.                              *)
THEOREM HeapCorrect ==
  Spec => [](HeapTiled /\ BoundaryTags /\ FullyCoalesced /\ ListsMatchBlocks)
<1>1. PoolInv => HeapTiled /\ BoundaryTags /\ FullyCoalesced /\ ListsMatchBlocks
  <2> SUFFICES ASSUME PoolInv PROVE HeapTiled /\ BoundaryTags /\ FullyCoalesced /\ ListsMatchBlocks
    OBVIOUS
  <2> DEFINE r == heap.hdr
  <2>1. /\ Headers(r, Null) /\ Bitmaps(heap) /\ Members(heap, FreeBlocks(heap, Null))
    BY DEF PoolInv, Good, Loose, Lists
  <2>2. /\ \A x : Next_b(heap, x) = Nx(r, x)
        /\ \A x \in DOMAIN r : x # Null
        /\ \A x \in DOMAIN r \ {LastBlock} : Nx(r, x) \in DOMAIN r
    <3>1. \A x : Next_b(heap, x) = Nx(r, x)
      BY DEF Next_b, GET_NEXT_BLOCK, BHDR_OVERHEAD, Nx
    <3>2. \A x \in DOMAIN r : x # Null
      BY <2>1, HeaderFacts DEF Null
    <3> QED BY <2>1, <3>1, <3>2 DEF Headers
  <2>3. HeapTiled
    <3>1. LastBlock + BHDR_OVERHEAD <= PoolSize
      BY Layout DEF BHDR_OVERHEAD
    <3> QED BY <2>1, <2>2, <3>1 DEF HeapTiled, Headers
  <2>4. BoundaryTags
    <3> SUFFICES ASSUME NEW b \in DOMAIN r \ {LastBlock}
                 PROVE  /\ r[Nx(r, b)].prev_free = r[b].free
                        /\ r[b].free => r[Nx(r, b)].prev_hdr = b
      BY <2>2 DEF BoundaryTags
    <3>1. /\ r[Nx(r, b)].prev_free <=> r[b].free
          /\ r[b].free => r[Nx(r, b)].prev_hdr = b
          /\ r[Nx(r, b)].prev_free \in BOOLEAN /\ r[b].free \in BOOLEAN
      BY <2>1, <2>2 DEF Headers
    <3> QED BY <3>1
  <2>5. FullyCoalesced
    <3> SUFFICES ASSUME NEW b \in DOMAIN r \ {LastBlock} PROVE ~ (r[b].free /\ r[Nx(r, b)].free)
      BY <2>2 DEF FullyCoalesced
    <3> QED BY <2>1, <2>2 DEF Headers
  <2>6. ListsMatchBlocks
    <3>1. ASSUME NEW c \in DOMAIN heap.matrix
          PROVE  /\ \A i \in DOMAIN heap.matrix[c] :
                      LET b == heap.matrix[c][i]
                      IN  b \in DOMAIN r /\ r[b].free /\ MAPPING_INSERT(r[b].size) = c
                 /\ \A i, j \in DOMAIN heap.matrix[c] :
                      heap.matrix[c][i] = heap.matrix[c][j] => i = j
      <4>1. DOMAIN heap.matrix[c] = 1 .. Len(heap.matrix[c])
        BY <2>1 DEF Members
      <4>2. \A i \in 1 .. Len(heap.matrix[c]) :
              heap.matrix[c][i] \in FreeBlocks(heap, Null) /\ Cell(heap, heap.matrix[c][i]) = c
        BY <2>1 DEF Members
      <4>3. \A i, j \in 1 .. Len(heap.matrix[c]) : heap.matrix[c][i] = heap.matrix[c][j] => i = j
        BY <2>1 DEF Members
      <4> QED BY <4>1, <4>2, <4>3 DEF FreeBlocks, Cell
    <3>2. ASSUME NEW f \in 0 .. REAL_FLI - 1, NEW s \in 0 .. MAX_SLI - 1
          PROVE  (s \in heap.sl_bitmap[f]) = (<<f, s>> \in DOMAIN heap.matrix)
      <4>1. <<f, s>> \in Cells /\ <<f, s>>[1] = f /\ <<f, s>>[2] = s
        BY DEF Cells
      <4> QED BY <2>1, <4>1 DEF Bitmaps
    <3>3. ASSUME NEW b \in DOMAIN r, r[b].free
          PROVE  LET list == FreeList(heap, MAPPING_INSERT(r[b].size))
                 IN  \E i \in DOMAIN list : list[i] = b
      <4> DEFINE list == FreeList(heap, Cell(heap, b))
      <4>1. b \in FreeBlocks(heap, Null)
        BY <2>2, <3>3 DEF FreeBlocks
      <4>2. \E i \in 1 .. Len(list) : list[i] = b
        BY <2>1, <4>1 DEF Members
      <4>3. list # << >>
        BY <4>2
      <4>4. list \in Seq(Int)
        BY <2>1, <4>3 DEF FreeList, Members
      <4> QED BY <4>2, <4>4 DEF Cell
    <3>4. \A f \in 0 .. REAL_FLI - 1 : (f \in heap.fl_bitmap) = (heap.sl_bitmap[f] # {})
      BY <2>1 DEF Bitmaps
    <3> QED BY <3>1, <3>2, <3>3, <3>4 DEF ListsMatchBlocks
  <2> QED BY <2>3, <2>4, <2>5, <2>6
<1> QED BY <1>1, PoolInvariance, PTL

(* Nothing is handed out twice, too small, or lost, in whatever order the  *)
(* program allocates, frees and resizes.                                   *)
THEOREM BuffersCorrect == Spec => []RequestsServed
<1>1. PoolInv => RequestsServed
  BY DEF PoolInv, RequestsServed, Used
<1> QED BY <1>1, PoolInvariance, PTL

(* malloc_ex gives up only when no free block has the size it looks for.   *)
THEOREM SearchCorrect == Spec => []SearchComplete
<1>1. PoolInv => SearchComplete
  <2> SUFFICES ASSUME PoolInv, NEW size \in Request, MallocSearch(heap, size)[1] = -1
               PROVE  \A b \in DOMAIN heap.hdr :
                        heap.hdr[b].free => heap.hdr[b].size < SearchSize(Rounded(size))
    BY DEF SearchComplete
  <2>1. size \in Nat /\ size <= 2^29
    BY TlsfAssumption
  <2> QED BY <2>1, Malloc DEF PoolInv
<1> QED BY <1>1, PoolInvariance, PTL

=============================================================================
