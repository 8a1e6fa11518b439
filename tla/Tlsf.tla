-------------------------------- MODULE Tlsf --------------------------------
(***************************************************************************)
(* The two-level segregated-fit allocator (libc/tlsf.c) behind the         *)
(* system's pools and the variable-size memory pools (get_mpl, rel_mpl).   *)
(*                                                                         *)
(* A pool is a run of adjacent blocks, each a header of BHDR_OVERHEAD      *)
(* bytes and its buffer.  Addresses are offsets from the pool's base.  A   *)
(* heap is a record: hdr maps the address of every live header to its      *)
(* fields (the two low bits of the C size field are the Booleans free and  *)
(* prev_free), matrix maps the index <<fl, sl>> of each non-null entry to  *)
(* its free list, a doubly linked list in the code and a sequence here,    *)
(* and sl_bitmap and fl_bitmap are the sets of their one bits.  A header   *)
(* absorbed by its neighbour leaves the domain of hdr, so that a use of a  *)
(* dead header has no value.  prev_hdr is kept when stale, as in the code. *)
(***************************************************************************)
EXTENDS Integers, Sequences, FiniteSets

CONSTANTS
  PoolSize,    \* mem_pool_size
  Request      \* the sizes the program asks for

ASSUME TlsfAssumption ==
  /\ PoolSize \in Nat /\ PoolSize >= 3244 /\ PoolSize <= 2^29 /\ PoolSize % 8 = 0
  /\ \A size \in Request : size \in Nat /\ size <= 2^28

VARIABLES
  heap,        \* the pool
  request      \* ghost: buffer address -> the size asked for, while allocated

tlsfVars == <<heap, request>>

Null == 0
BLOCK_ALIGN == 8
MIN_BLOCK_SIZE == 8
BHDR_OVERHEAD == 8
SizeofBhdr == 16
SizeofTlsf == 3180
MAX_FLI == 30
MAX_LOG2_SLI == 5
MAX_SLI == 32
FLI_OFFSET == 6
SMALL_BLOCK == 128
REAL_FLI == 24

ROUNDUP_SIZE(r) == ((r + BLOCK_ALIGN - 1) \div BLOCK_ALIGN) * BLOCK_ALIGN
ROUNDDOWN_SIZE(r) == (r \div BLOCK_ALIGN) * BLOCK_ALIGN

(* The highest one bit of x, for the sizes below 2^MAX_FLI.                *)
ms_bit(x) == CHOOSE k \in 0 .. MAX_FLI - 1 : 2^k <= x /\ x < 2^(k + 1)

(* The lowest one bit of a bitmap, -1 when it has none.                    *)
ls_bit(bits) ==
  IF bits = {} THEN -1 ELSE CHOOSE k \in bits : \A j \in bits : k <= j

(* The list a free block of r bytes is kept in.                            *)
MAPPING_INSERT(r) ==
  IF r < SMALL_BLOCK
  THEN <<0, r \div (SMALL_BLOCK \div MAX_SLI)>>
  ELSE LET fl == ms_bit(r)
       IN  <<fl - FLI_OFFSET, (r \div 2^(fl - MAX_LOG2_SLI)) - MAX_SLI>>

(* Wrong variant: the search does not round the size up to a class.        *)
SearchSize_exact(r) == r

(* The size a search for r bytes rounds r up to, so that every block of    *)
(* the class found is large enough.                                        *)
SearchSize(r) ==
  IF r < SMALL_BLOCK
  THEN r
  ELSE LET step == 2^(ms_bit(r) - MAX_LOG2_SLI)
       IN  ((r + step - 1) \div step) * step

MAPPING_SEARCH(r) == [size |-> SearchSize(r), cell |-> MAPPING_INSERT(SearchSize(r))]

(* Wrong variant: only the first-level list of the request is searched.    *)
FIND_SUITABLE_BLOCK_onelevel(h, cell) ==
  LET above == {s \in h.sl_bitmap[cell[1]] : s >= cell[2]}
  IN  IF above # {} THEN <<cell[1], ls_bit(above)>> ELSE <<-1, 0>>

(* The first non-empty list at or above a cell; its first component is     *)
(* -1 when there is none.                                                  *)
FIND_SUITABLE_BLOCK(h, cell) ==
  LET above == {s \in h.sl_bitmap[cell[1]] : s >= cell[2]}
      fl == ls_bit({f \in h.fl_bitmap : f > cell[1]})
  IN  IF above # {} THEN <<cell[1], ls_bit(above)>>
      ELSE IF fl > 0 THEN <<fl, ls_bit(h.sl_bitmap[fl])>>
      ELSE <<-1, 0>>

GET_NEXT_BLOCK(b, size) == b + BHDR_OVERHEAD + size
Next_b(h, b) == GET_NEXT_BLOCK(b, h.hdr[b].size)
Buffer(b) == b + BHDR_OVERHEAD
BlockOf(ptr) == ptr - BHDR_OVERHEAD

(* A heap with other headers, or with other lists.                         *)
WithHeaders(h, hdr) ==
  [hdr |-> hdr, matrix |-> h.matrix, sl_bitmap |-> h.sl_bitmap, fl_bitmap |-> h.fl_bitmap]

WithLists(h, matrix, sl_bitmap, fl_bitmap) ==
  [hdr |-> h.hdr, matrix |-> matrix, sl_bitmap |-> sl_bitmap, fl_bitmap |-> fl_bitmap]

(* The free list of a cell, and the matrix with another list there.        *)
FreeList(h, cell) == IF cell \in DOMAIN h.matrix THEN h.matrix[cell] ELSE << >>

WithList(h, cell, list) ==
  [c \in IF list = << >> THEN DOMAIN h.matrix \ {cell} ELSE DOMAIN h.matrix \cup {cell} |->
     IF c = cell THEN list ELSE h.matrix[c]]

(* Wrong variant: the bit of an emptied list stays set.                    *)
SetList_stalebit(h, cell, list) ==
  WithLists(h, WithList(h, cell, list), h.sl_bitmap, h.fl_bitmap)

(* A list that has lost a block; an empty one clears its bit, and the last *)
(* one of a row the bit of the row.                                        *)
SetList(h, cell, list) ==
  LET row == IF list = << >> THEN h.sl_bitmap[cell[1]] \ {cell[2]}
                             ELSE h.sl_bitmap[cell[1]]
  IN  WithLists(h, WithList(h, cell, list),
                [h.sl_bitmap EXCEPT ![cell[1]] = row],
                IF row = {} THEN h.fl_bitmap \ {cell[1]} ELSE h.fl_bitmap)

(* Take block b, found as the head of a list, off that list: the list goes *)
(* on with b's next link, which is null once b has been taken off.         *)
EXTRACT_BLOCK_HDR(h, b, cell) ==
  LET list == FreeList(h, cell)
  IN  SetList(h, cell, IF list # << >> /\ list[1] = b THEN Tail(list) ELSE << >>)

(* Unlink block b from its list, the head or an inner block of it.         *)
EXTRACT_BLOCK(h, b) ==
  LET cell == MAPPING_INSERT(h.hdr[b].size)
      list == FreeList(h, cell)
      k    == CHOOSE i \in 1 .. Len(list) : list[i] = b
  IN  SetList(h, cell, [i \in 1 .. Len(list) - 1 |-> IF i < k THEN list[i] ELSE list[i + 1]])

INSERT_BLOCK(h, b) ==
  LET cell == MAPPING_INSERT(h.hdr[b].size)
  IN  WithLists(h, WithList(h, cell, <<b>> \o FreeList(h, cell)),
                [h.sl_bitmap EXCEPT ![cell[1]] = @ \cup {cell[2]}],
                h.fl_bitmap \cup {cell[1]})

Header(prev, size, free, prev_free) ==
  [prev_hdr |-> prev, size |-> size, free |-> free, prev_free |-> prev_free]

SetHeader(h, b, hd) == WithHeaders(h, [h.hdr EXCEPT ![b] = hd])

(* The state bit of block b.                                               *)
Mark(h, b, free) ==
  SetHeader(h, b, Header(h.hdr[b].prev_hdr, h.hdr[b].size, free, h.hdr[b].prev_free))

(* The two fields of the block after b that tell about b.                  *)
TagNext(h, b, prev, prev_free) ==
  LET next == Next_b(h, b)
  IN  SetHeader(h, next, Header(prev, h.hdr[next].size, h.hdr[next].free, prev_free))

(* The headers of the heap without header gone, block b having size bytes. *)
Merge(h, b, gone, size) ==
  WithHeaders(h, [x \in DOMAIN h.hdr \ {gone} |->
    IF x = b THEN Header(h.hdr[b].prev_hdr, size, h.hdr[b].free, h.hdr[b].prev_free)
             ELSE h.hdr[x]])

(* Wrong variant: the header of the next block is not counted.             *)
Absorb_noheader(h, b) ==
  LET next == Next_b(h, b)
  IN  Merge(h, b, next, h.hdr[b].size + h.hdr[next].size)

(* Block b swallows the header and the buffer of the block after it.       *)
Absorb(h, b) ==
  LET next == Next_b(h, b)
  IN  Merge(h, b, next, h.hdr[b].size + h.hdr[next].size + BHDR_OVERHEAD)

(* Cut the used block b, on no list, down to size bytes; what is left of   *)
(* it becomes a free block, whose prev_hdr is not set.  realloc_ex() sets  *)
(* PREV_FREE in the block behind it; malloc_ex() need not, for it cuts a   *)
(* block that was free, so that the flag is set already.                   *)
Split(h, b, size) ==
  LET rest == GET_NEXT_BLOCK(b, size)
      left == h.hdr[b].size - size - BHDR_OVERHEAD
      next == Next_b(h, b)
      cut  == WithHeaders(h, [x \in DOMAIN h.hdr \cup {rest} |->
                IF x = rest THEN Header(0, left, TRUE, FALSE)
                ELSE IF x = b
                THEN Header(h.hdr[b].prev_hdr, size, FALSE, h.hdr[b].prev_free)
                ELSE IF x = next
                THEN Header(rest, h.hdr[next].size, h.hdr[next].free, TRUE)
                ELSE h.hdr[x]])
  IN  INSERT_BLOCK(cut, rest)

(***************************************************************************)
(* The services of the allocator, as functions of the heap.  A result is   *)
(* the new heap and a buffer address, Null when there is none.             *)
(***************************************************************************)

Rounded(size) == IF size < MIN_BLOCK_SIZE THEN MIN_BLOCK_SIZE ELSE ROUNDUP_SIZE(size)

(* The half of malloc_ex that only reads: the list to take a block from.   *)
MallocSearch(h, size) ==
  FIND_SUITABLE_BLOCK(h, MAPPING_SEARCH(Rounded(size)).cell)

(* The half of malloc_ex that writes: block b of list cell is taken, and   *)
(* split when what it has too much can hold a block.                       *)
MallocTake(h, b, cell, size) ==
  LET want == MAPPING_SEARCH(Rounded(size)).size
      out  == EXTRACT_BLOCK_HDR(h, b, cell)
  IN  IF h.hdr[b].size - want >= SizeofBhdr
      THEN Split(out, b, want)
      ELSE Mark(TagNext(out, b, h.hdr[Next_b(h, b)].prev_hdr, FALSE), b, FALSE)

malloc_ex(h, size) ==
  LET cell == MallocSearch(h, size)
      b    == FreeList(h, cell)[1]
  IN  IF cell[1] = -1
      THEN [heap |-> h, ptr |-> Null]
      ELSE [heap |-> MallocTake(h, b, cell, size), ptr |-> Buffer(b)]

(* Wrong variant: the block is not merged with the free block before it.   *)
free_ex_onesided(h, ptr) ==
  LET b    == BlockOf(ptr)
      next == Next_b(h, b)
      h1   == Mark(h, b, TRUE)
      h2   == IF h.hdr[next].free THEN Absorb(EXTRACT_BLOCK(h1, next), b) ELSE h1
  IN  TagNext(INSERT_BLOCK(h2, b), b, b, TRUE)

(* Free a block: it is merged with a free block after it, then with a free *)
(* block before it, and put on the list of its size.                       *)
free_ex(h, ptr) ==
  LET b    == BlockOf(ptr)
      next == Next_b(h, b)
      h1   == Mark(h, b, TRUE)
      h2   == IF h.hdr[next].free THEN Absorb(EXTRACT_BLOCK(h1, next), b) ELSE h1
      prev == h.hdr[b].prev_hdr
      h3   == IF h.hdr[b].prev_free THEN Absorb(EXTRACT_BLOCK(h2, prev), prev) ELSE h2
      c    == IF h.hdr[b].prev_free THEN prev ELSE b
  IN  TagNext(INSERT_BLOCK(h3, c), c, c, TRUE)

(* Cut a used block down to size where the rest can hold a block.          *)
Trim(h, b, size) ==
  IF h.hdr[b].size - size >= SizeofBhdr THEN Split(h, b, size) ELSE h

(* Wrong variant: after growing over a free block, the block behind it     *)
(* still has its previous-is-free flag.                                    *)
GrowInPlace_flag(h, b, size) ==
  Trim(Absorb(EXTRACT_BLOCK(h, Next_b(h, b)), b), b, size)

(* Grow a used block over the free block that follows it.                  *)
GrowInPlace(h, b, size) ==
  Trim(TagNext(Absorb(EXTRACT_BLOCK(h, Next_b(h, b)), b), b, b, FALSE), b, size)

(* realloc_ex of a buffer to a size other than 0: shrink in place, grow in *)
(* place, or move.                                                         *)
realloc_ex(h, ptr, new_size) ==
  LET b    == BlockOf(ptr)
      next == Next_b(h, b)
      size == Rounded(new_size)
      old  == h.hdr[b].size
      moved == malloc_ex(h, size)
  IN  IF size <= old
      THEN [heap |-> Trim(IF h.hdr[next].free
                          THEN Absorb(EXTRACT_BLOCK(h, next), b) ELSE h, b, size),
            ptr  |-> ptr]
      ELSE IF h.hdr[next].free /\ size <= old + h.hdr[next].size
      THEN [heap |-> GrowInPlace(h, b, size), ptr |-> ptr]
      ELSE IF moved.ptr = Null
      THEN moved
      ELSE [heap |-> free_ex(moved.heap, ptr), ptr |-> moved.ptr]

(* The area of the pool: an information block, one free block, and a last  *)
(* block of size 0 that is never free.                                     *)
FirstBlock == ROUNDUP_SIZE(SizeofTlsf)
AreaBlock == GET_NEXT_BLOCK(FirstBlock, MIN_BLOCK_SIZE)
AreaSize ==
  ROUNDDOWN_SIZE(ROUNDDOWN_SIZE(PoolSize - SizeofTlsf) - 3 * BHDR_OVERHEAD - MIN_BLOCK_SIZE)
LastBlock == GET_NEXT_BLOCK(AreaBlock, AreaSize)

process_area ==
  [hdr |-> [x \in {FirstBlock, AreaBlock, LastBlock} |->
              IF x = FirstBlock THEN Header(Null, MIN_BLOCK_SIZE, FALSE, FALSE)
              ELSE IF x = AreaBlock THEN Header(Null, AreaSize, FALSE, FALSE)
              ELSE Header(AreaBlock, 0, FALSE, TRUE)],
   matrix |-> << >>,
   sl_bitmap |-> [f \in 0 .. REAL_FLI - 1 |-> {}],
   fl_bitmap |-> {}]

init_memory_pool == free_ex(process_area, Buffer(AreaBlock))

TlsfInit ==
  /\ heap = init_memory_pool
  /\ request = << >>
=============================================================================
