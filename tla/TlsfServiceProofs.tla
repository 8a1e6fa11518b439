------------------------- MODULE TlsfServiceProofs -------------------------
(***************************************************************************)
(* The services of Tlsf: malloc_ex, free_ex and realloc_ex take a well     *)
(* formed heap to a well formed heap and touch one used block.             *)
(***************************************************************************)
EXTENDS TlsfBlockProofs

(* malloc_ex fails only when no free block is large enough, and otherwise  *)
(* turns a free block into a used one of the size asked for, and more.     *)
LEMMA Malloc ==
  ASSUME NEW h, Good(h), NEW size \in Nat, size <= 2^29
  PROVE  LET m == malloc_ex(h, size)
             b == BlockOf(m.ptr)
         IN  /\ MallocSearch(h, size)[1] = -1 =>
                  \A x \in DOMAIN h.hdr : h.hdr[x].free => h.hdr[x].size < SearchSize(Rounded(size))
             /\ m.ptr # Null =>
                  /\ Good(m.heap) /\ SameUsed(h, m.heap, b)
                  /\ b \in Used(m.heap) /\ b \notin Used(h) /\ m.ptr = Buffer(b)
                  /\ m.heap.hdr[b].size >= size
<1> DEFINE w    == SearchSize(Rounded(size))
           cell == MallocSearch(h, size)
           L    == FreeList(h, cell)
           b    == L[1]
<1>1. /\ w \in Nat /\ w < 2^30 /\ w >= 8 /\ w >= size /\ MAPPING_INSERT(w) \in Cells
      /\ \A s \in Nat : s < 2^30 => (s >= w <=> AtLeast(MAPPING_INSERT(s), MAPPING_INSERT(w)))
  <2>1. /\ Rounded(size) \in Nat /\ Rounded(size) >= 8 /\ Rounded(size) >= size
        /\ w \in Nat /\ w < 2^30 /\ w >= Rounded(size)
        /\ \A s \in Nat : s < 2^30 => (s >= w <=> AtLeast(MAPPING_INSERT(s), MAPPING_INSERT(w)))
    BY Mapping
  <2>2. MAPPING_INSERT(w) \in Cells
    <3> HIDE DEF w
    <3> QED BY <2>1, Mapping
  <2> QED BY <2>1, <2>2
<1>2. /\ cell = FIND_SUITABLE_BLOCK(h, MAPPING_INSERT(w))
      /\ MAPPING_SEARCH(Rounded(size)).size = w
  BY DEF MallocSearch, MAPPING_SEARCH
<1> HIDE DEF w
<1>3. Headers(h.hdr, Null) /\ Lists(h, FreeBlocks(h, Null)) /\ Bitmaps(h) /\ Members(h, FreeBlocks(h, Null))
  BY DEF Good, Loose, Lists
<1>4. \/ cell[1] = -1 /\ \A d \in DOMAIN h.matrix : ~ AtLeast(d, MAPPING_INSERT(w))
      \/ cell \in DOMAIN h.matrix /\ cell[1] # -1 /\ AtLeast(cell, MAPPING_INSERT(w))
  BY <1>1, <1>2, <1>3, Find
<1> HIDE DEF cell
<1>5. \A x \in DOMAIN h.hdr : h.hdr[x].free =>
        x # Null /\ x # FirstBlock /\ x # LastBlock /\ h.hdr[x].size \in Nat /\ h.hdr[x].size < 2^30
  <2>1. \A x \in DOMAIN h.hdr : h.hdr[x].size \in Nat
    BY <1>3 DEF Headers
  <2> QED BY <1>3, <2>1, HeaderFacts DEF Null
<1>6. ASSUME cell[1] = -1, NEW x \in DOMAIN h.hdr, h.hdr[x].free
      PROVE  h.hdr[x].size < w
  <2>1. x \in FreeBlocks(h, Null)
    BY <1>5, <1>6 DEF FreeBlocks
  <2>2. \E i \in 1 .. Len(FreeList(h, Cell(h, x))) : FreeList(h, Cell(h, x))[i] = x
    BY <1>3, <2>1 DEF Members
  <2>3. FreeList(h, Cell(h, x)) # << >>
    BY <2>2
  <2>4. Cell(h, x) \in DOMAIN h.matrix
    BY <2>3 DEF FreeList
  <2>5. ~ AtLeast(MAPPING_INSERT(h.hdr[x].size), MAPPING_INSERT(w))
    BY <1>4, <1>6, <2>4 DEF Cell
  <2> QED BY <1>1, <1>5, <1>6, <2>5
<1>7. ASSUME cell[1] # -1
      PROVE  LET g == MallocTake(h, b, cell, size)
             IN  /\ Good(g) /\ SameUsed(h, g, b) /\ b \in Used(g) /\ b \notin Used(h)
                 /\ g.hdr[b].size >= size /\ b \in Int /\ b >= 3184
  <2> DEFINE out == EXTRACT_BLOCK_HDR(h, b, cell)
             g   == MallocTake(h, b, cell, size)
             n   == Next_b(h, b)
             q   == h.hdr[n].prev_hdr
  <2>1. /\ cell \in DOMAIN h.matrix /\ AtLeast(cell, MAPPING_INSERT(w)) /\ L = h.matrix[cell]
        /\ 1 \in 1 .. Len(L)
    <3>1. cell \in DOMAIN h.matrix /\ AtLeast(cell, MAPPING_INSERT(w)) /\ L = h.matrix[cell]
      BY <1>4, <1>7 DEF FreeList
    <3>2. L \in Seq(Int) /\ L # << >>
      BY <1>3, <3>1 DEF Members
    <3> QED BY <3>1, <3>2
  <2>2. b \in FreeBlocks(h, Null) /\ Cell(h, b) = cell
    BY <1>3, <2>1 DEF Members
  <2> HIDE DEF L
  <2>3. b \in DOMAIN h.hdr /\ h.hdr[b].free /\ b # FirstBlock /\ b # LastBlock /\ b # Null
    BY <1>5, <2>2 DEF FreeBlocks
  <2> HIDE DEF b
  <2>4. cell \in Cells
    BY <1>3, <2>1 DEF Bitmaps
  <2>5. h.hdr[b].size \in Nat /\ h.hdr[b].size >= w
    BY <1>1, <1>5, <2>1, <2>2, <2>3 DEF Cell
  <2>6. Lists(out, FreeBlocks(h, Null) \ {b}) /\ out.hdr = h.hdr
    BY <1>3, <2>2, <2>4, Extract DEF L, b
  <2> HIDE DEF out
  <2>7. /\ n = Nx(h.hdr, b) /\ n \in DOMAIN h.hdr /\ ~ h.hdr[n].free /\ q \in Int
        /\ Next_b(out, b) = n /\ b \in Int /\ b >= 3184
    <3>1. n = Nx(h.hdr, b) /\ Next_b(out, b) = n
      BY <2>6 DEF Next_b, GET_NEXT_BLOCK, BHDR_OVERHEAD, Nx
    <3>2. b \in Int /\ b >= 3184 /\ Nx(h.hdr, b) \in DOMAIN h.hdr
      <4>1. b \in Int /\ b >= 3184
        BY <1>3, <2>3, HeaderFacts
      <4>2. Nx(h.hdr, b) \in DOMAIN h.hdr
        BY <1>3, <2>3 DEF Headers
      <4> QED BY <4>1, <4>2
    <3>3. Nx(h.hdr, b) # Null
      BY <1>3, <3>2, HeaderFacts DEF Null
    <3>4. ~ h.hdr[Nx(h.hdr, b)].free
      BY <1>3, <2>3, <3>3 DEF Headers
    <3> HIDE DEF n
    <3>5. q \in Int
      BY <1>3, <3>1, <3>2 DEF Headers
    <3> QED BY <3>1, <3>2, <3>4, <3>5
  <2> HIDE DEF n, q
  <2>8. Loose(out, b)
    <3>1. Headers(h.hdr, b)
      <4>1. \A x \in DOMAIN h.hdr : x # Null
        BY <1>3, HeaderFacts DEF Null
      <4>2. \A x \in DOMAIN h.hdr \ {LastBlock} : Nx(h.hdr, x) \in DOMAIN h.hdr
        BY <1>3 DEF Headers
      <4> QED BY <1>3, <4>1, <4>2 DEF Headers
    <3>2. FreeBlocks(out, b) = FreeBlocks(h, Null) \ {b}
      BY <1>5, <2>6 DEF FreeBlocks
    <3> QED BY <2>6, <3>1, <3>2 DEF Loose
  <2>9. Good(g) /\ SameUsed(out, g, b) /\ b \in Used(g) /\ g.hdr[b].size >= size
    <3>1. CASE h.hdr[b].size - w >= 16
      <4>1. g = Split(out, b, w)
        BY Zenon, <1>2, <3>1 DEF MallocTake, SizeofBhdr, out
      <4> QED BY <1>1, <2>3, <2>6, <2>7, <2>8, <3>1, <4>1, Splitting
    <3>2. CASE ~ (h.hdr[b].size - w >= 16)
      <4>1. g = Mark(TagNext(out, b, q, FALSE), b, FALSE)
        BY Zenon, <1>2, <3>2 DEF MallocTake, SizeofBhdr, out, q, n
      <4>2. Good(g) /\ SameUsed(out, g, b) /\ b \in Used(g) /\ g.hdr[b].size = out.hdr[b].size
        <5>1. b \in DOMAIN out.hdr \ {FirstBlock, LastBlock}
          BY <2>3, <2>6
        <5>2. \A p \in Int :
                LET k == Mark(TagNext(out, b, p, FALSE), b, FALSE)
                IN  Good(k) /\ SameUsed(out, k, b) /\ b \in Used(k) /\ k.hdr[b].size = out.hdr[b].size
          BY <2>8, <5>1, Settling, Zenon
        <5> HIDE DEF g
        <5>3. q \in Int
          BY <2>7
        <5> QED BY <4>1, <5>2, <5>3, Zenon
      <4> QED BY <1>1, <2>5, <2>6, <4>2
    <3> QED BY <3>1, <3>2
  <2> HIDE DEF g
  <2>10. SameUsed(h, g, b)
    BY <2>6, <2>9 DEF SameUsed, Used
  <2>11. b \notin Used(h)
    BY <2>3 DEF Used
  <2> QED BY <2>7, <2>9, <2>10, <2>11 DEF g
<1> HIDE DEF L, b
<1>8. CASE cell[1] = -1
  <2>1. malloc_ex(h, size).ptr = Null
    BY <1>8 DEF malloc_ex, cell
  <2> QED BY <1>6, <1>8, <2>1 DEF w, cell
<1>9. CASE cell[1] # -1
  <2> DEFINE m == malloc_ex(h, size)
  <2>1. m.heap = MallocTake(h, b, cell, size) /\ m.ptr = Buffer(b)
    BY <1>9 DEF malloc_ex, cell, b, L
  <2> HIDE DEF m
  <2>2. BlockOf(m.ptr) = b
    BY <1>7, <1>9, <2>1 DEF BlockOf, Buffer, BHDR_OVERHEAD
  <2> QED BY <1>7, <1>9, <2>1, <2>2 DEF m, cell
<1> QED BY <1>8, <1>9

(* free_ex of a used block, which may still be wrongly told of by the      *)
(* block after it, as the one of process_area is.                          *)
LEMMA Free ==
  ASSUME NEW h, NEW b \in DOMAIN h.hdr \ {FirstBlock, LastBlock}, Loose(h, b), ~ h.hdr[b].free
  PROVE  LET g == free_ex(h, Buffer(b))
         IN  Good(g) /\ SameUsed(h, g, b) /\ b \notin Used(g)
<1> DEFINE r    == h.hdr
           n    == Next_b(h, b)
           h1   == Mark(h, b, TRUE)
           h2   == IF r[n].free THEN Absorb(EXTRACT_BLOCK(h1, n), b) ELSE h1
           prev == r[b].prev_hdr
           h3   == IF r[b].prev_free THEN Absorb(EXTRACT_BLOCK(h2, prev), prev) ELSE h2
           c    == IF r[b].prev_free THEN prev ELSE b
           g    == TagNext(INSERT_BLOCK(h3, c), c, c, TRUE)
<1>1. \A k, x : Next_b(k, x) = Nx(k.hdr, x)
  BY DEF Next_b, GET_NEXT_BLOCK, BHDR_OVERHEAD, Nx
<1>2. /\ Headers(r, b) /\ b \in Int /\ b # Null /\ n = Nx(r, b) /\ n \in DOMAIN r
      /\ n \in Int /\ n > b
  <2>1. Headers(r, b)
    BY DEF Loose
  <2>2. b \in Int /\ b >= 3184 /\ Nx(r, b) \in Int /\ Nx(r, b) >= b + 16
    BY <2>1, HeaderFacts
  <2>3. Nx(r, b) \in DOMAIN r
    BY <2>1 DEF Headers
  <2> QED BY <1>1, <2>1, <2>2, <2>3 DEF Null
<1>3. free_ex(h, Buffer(b)) = g
  <2>1. BlockOf(Buffer(b)) = b
    BY <1>2 DEF BlockOf, Buffer, BHDR_OVERHEAD
  <2> QED BY <2>1, Zenon DEF free_ex
<1>4. /\ DOMAIN h1.hdr = DOMAIN r
      /\ \A x \in DOMAIN r : x # b => h1.hdr[x] = r[x]
      /\ h1.hdr[b].prev_hdr = r[b].prev_hdr /\ h1.hdr[b].size = r[b].size
      /\ h1.hdr[b].free = TRUE /\ h1.hdr[b].prev_free = r[b].prev_free
      /\ h1.matrix = h.matrix /\ h1.sl_bitmap = h.sl_bitmap /\ h1.fl_bitmap = h.fl_bitmap
  BY DEF Mark, SetHeader, WithHeaders, Header
<1> HIDE DEF h1, n
<1>5. /\ Loose(h1, b) /\ SameUsed(h, h1, b)
      /\ \A x \in DOMAIN r : Nx(h1.hdr, x) = Nx(r, x) /\ h1.hdr[x].size = r[x].size
  <2>1. \A x \in DOMAIN r : h1.hdr[x].size = r[x].size
    BY <1>4
  <2>2. \A x \in DOMAIN r : Nx(h1.hdr, x) = Nx(r, x)
    BY <2>1 DEF Nx
  <2>3. \A x \in DOMAIN r :
          h1.hdr[x].prev_free = r[x].prev_free /\ h1.hdr[x].prev_hdr = r[x].prev_hdr
    BY <1>4
  <2>4. \A x \in DOMAIN r : x # b => h1.hdr[x].free = r[x].free
    BY <1>4
  <2>5. Headers(h1.hdr, b)
    <3>1. \A x \in DOMAIN r :
            /\ h1.hdr[x].prev_hdr \in Int /\ h1.hdr[x].size \in Nat
            /\ h1.hdr[x].free \in BOOLEAN /\ h1.hdr[x].prev_free \in BOOLEAN
      BY Zenon, <1>2, <1>4, <2>1, <2>3, <2>4 DEF Headers
    <3>2. /\ ~ h1.hdr[FirstBlock].free /\ ~ h1.hdr[FirstBlock].prev_free /\ ~ h1.hdr[LastBlock].free
          /\ FirstBlock \in DOMAIN r /\ LastBlock \in DOMAIN r
          /\ DOMAIN r \subseteq FirstBlock .. LastBlock
      BY <1>2, <2>3, <2>4 DEF Headers
    <3>3. /\ \A x \in DOMAIN r \ {LastBlock} :
               /\ h1.hdr[x].size >= 8 /\ Nx(h1.hdr, x) \in DOMAIN r
               /\ \A y \in DOMAIN r : y > x => y >= Nx(h1.hdr, x)
          /\ \A x \in DOMAIN r \ {FirstBlock} : \E p \in DOMAIN r \ {LastBlock} : Nx(h1.hdr, p) = x
      BY <1>2, <2>1, <2>2 DEF Headers
    <3>4. \A x \in DOMAIN r \ {LastBlock} : x # b =>
            /\ h1.hdr[Nx(h1.hdr, x)].prev_free <=> h1.hdr[x].free
            /\ h1.hdr[x].free => h1.hdr[Nx(h1.hdr, x)].prev_hdr = x
      BY <1>2, <2>2, <2>3, <2>4 DEF Headers
    <3>5. \A x \in DOMAIN r \ {LastBlock} :
            x # b /\ Nx(h1.hdr, x) # b => ~ (h1.hdr[x].free /\ h1.hdr[Nx(h1.hdr, x)].free)
      BY <1>2, <2>2, <2>4 DEF Headers
    <3> QED BY <1>4, <3>1, <3>2, <3>3, <3>4, <3>5 DEF Headers
  <2>6. FreeBlocks(h1, b) = FreeBlocks(h, b)
    BY <1>4, <2>4 DEF FreeBlocks
  <2>7. Lists(h1, FreeBlocks(h, b))
    <3>1. \A x \in FreeBlocks(h, b) : h1.hdr[x].size = h.hdr[x].size
      BY <2>1 DEF FreeBlocks
    <3> QED BY <1>4, <3>1, Relist DEF Loose
  <2>8. SameUsed(h, h1, b)
    BY <1>4, <2>1, <2>4 DEF SameUsed, Used
  <2> QED BY <2>1, <2>2, <2>5, <2>6, <2>7, <2>8 DEF Loose
<1>6. /\ Loose(h2, b) /\ SameUsed(h, h2, b) /\ b \in DOMAIN h2.hdr
      /\ h2.hdr[b].free /\ h2.hdr[b].prev_free = r[b].prev_free /\ h2.hdr[b].prev_hdr = prev
      /\ ~ h2.hdr[Next_b(h2, b)].free
  <2>1. CASE r[n].free
    <3> DEFINE e == EXTRACT_BLOCK(h1, n)
               k == Absorb(e, b)
    <3>1. h2 = k
      BY <2>1
    <3>2. n \in FreeBlocks(h1, b) /\ h1.hdr[n] = r[n] /\ n # LastBlock
      BY <1>2, <1>4, <2>1 DEF FreeBlocks, Headers
    <3>3. Lists(e, FreeBlocks(h1, b) \ {n}) /\ e.hdr = h1.hdr
      <4>1. Lists(h1, FreeBlocks(h1, b)) /\ Headers(h1.hdr, b)
        BY <1>5 DEF Loose
      <4>2. Cell(h1, n) \in Cells
        <5>1. n \in DOMAIN h1.hdr \ {LastBlock} /\ h1.hdr[n].free
          BY <1>2, <1>4, <2>1, <3>2
        <5> QED BY <4>1, <5>1, HeaderFacts DEF Cell
      <4> QED BY <3>2, <4>1, <4>2, Extract
    <3> HIDE DEF e
    <3>4. Headers(e.hdr, b) /\ b \in DOMAIN e.hdr \ {LastBlock} /\ Next_b(e, b) = n /\ e.hdr[n].free
          /\ Lists(e, FreeBlocks(e, b) \ {n}) /\ Next_b(e, n) = Nx(r, n)
      <4>1. FreeBlocks(e, b) = FreeBlocks(h1, b)
        BY <3>3 DEF FreeBlocks
      <4> QED BY <1>1, <1>2, <1>4, <1>5, <2>1, <3>2, <3>3, <4>1 DEF Loose
    <3>5. /\ Loose(k, b) /\ SameUsed(e, k, b) /\ Next_b(k, b) = Nx(r, n)
          /\ Nx(r, n) \in DOMAIN k.hdr /\ Nx(r, n) # b /\ b \in DOMAIN k.hdr
          /\ \A x \in DOMAIN k.hdr : x # b => k.hdr[x] = e.hdr[x]
          /\ k.hdr[b].prev_hdr = e.hdr[b].prev_hdr /\ k.hdr[b].free = e.hdr[b].free
          /\ k.hdr[b].prev_free = e.hdr[b].prev_free
      BY <3>4, Absorbing
    <3> HIDE DEF k
    <3>6. ~ r[Nx(r, n)].free /\ Nx(r, n) \in DOMAIN r
      <4>1. Nx(r, n) \in DOMAIN r
        BY <1>2, <3>2 DEF Headers
      <4> QED BY <1>2, <2>1, <3>2, <3>5, <4>1 DEF Headers
    <3>7. k.hdr[Nx(r, n)] = r[Nx(r, n)]
      BY <1>4, <3>3, <3>5, <3>6
    <3>8. SameUsed(h, k, b)
      <4>1. SameUsed(h1, k, b)
        BY <3>3, <3>5 DEF SameUsed, Used
      <4> QED BY <1>5, <4>1 DEF SameUsed
    <3> QED BY <1>4, <3>1, <3>3, <3>5, <3>6, <3>7, <3>8
  <2>2. CASE ~ r[n].free
    <3>1. h2 = h1
      BY <2>2
    <3>2. Next_b(h1, b) = n /\ h1.hdr[n].free = r[n].free
      BY <1>1, <1>2, <1>4, <1>5
    <3> QED BY <1>4, <1>5, <2>2, <3>1, <3>2
  <2> QED BY <2>1, <2>2
<1> HIDE DEF h2
<1>7. PICK p \in DOMAIN h2.hdr \ {LastBlock} :
        /\ Nx(h2.hdr, p) = b /\ p # b /\ p < b
        /\ r[b].prev_free <=> h2.hdr[p].free
        /\ h2.hdr[p].free => p = prev
  <2>1. Headers(h2.hdr, b)
    BY <1>6 DEF Loose
  <2>2. PICK p \in DOMAIN h2.hdr \ {LastBlock} : Nx(h2.hdr, p) = b
    BY <1>6, <2>1 DEF Headers
  <2>3. p \in Int /\ Nx(h2.hdr, p) >= p + 16
    BY <2>1, HeaderFacts
  <2>4. p # b /\ p < b
    BY <1>2, <2>2, <2>3
  <2>5. /\ h2.hdr[b].prev_free <=> h2.hdr[p].free
        /\ h2.hdr[p].free => h2.hdr[b].prev_hdr = p
    BY SMTT(30), <2>1, <2>2, <2>4 DEF Headers
  <2> QED BY <1>6, <2>2, <2>4, <2>5
<1>8. /\ Loose(h3, c) /\ SameUsed(h, h3, b) /\ b \notin Used(h3) /\ c \in DOMAIN h3.hdr
      /\ h3.hdr[c].free /\ ~ h3.hdr[c].prev_free /\ ~ h3.hdr[Next_b(h3, c)].free
  <2>1. CASE r[b].prev_free
    <3> DEFINE e == EXTRACT_BLOCK(h2, p)
               k == Absorb(e, p)
    <3>1. h3 = k /\ c = p /\ h2.hdr[p].free
      BY <1>7, <2>1
    <3>2. p \in FreeBlocks(h2, b) /\ Headers(h2.hdr, b) /\ Lists(h2, FreeBlocks(h2, b))
      BY <1>6, <1>7, <3>1 DEF FreeBlocks, Loose
    <3>3. Lists(e, FreeBlocks(h2, b) \ {p}) /\ e.hdr = h2.hdr
      <4>1. Cell(h2, p) \in Cells
        BY <1>7, <3>1, <3>2, HeaderFacts DEF Cell
      <4> QED BY <3>2, <4>1, Extract
    <3> HIDE DEF e
    <3>4. /\ Headers(e.hdr, b) /\ p \in DOMAIN e.hdr \ {LastBlock} /\ Next_b(e, p) = b
          /\ e.hdr[b].free /\ Lists(e, FreeBlocks(e, p) \ {b}) /\ Next_b(e, b) = Next_b(h2, b)
      <4>1. FreeBlocks(e, p) \ {b} = FreeBlocks(h2, b) \ {p}
        BY <3>3 DEF FreeBlocks
      <4> QED BY SMTT(30), <1>1, <1>6, <1>7, <3>2, <3>3, <4>1
    <3>5. /\ Loose(k, p) /\ SameUsed(e, k, p) /\ Next_b(k, p) = Next_b(h2, b)
          /\ Next_b(h2, b) \in DOMAIN k.hdr /\ Next_b(h2, b) # p /\ p \in DOMAIN k.hdr
          /\ DOMAIN k.hdr = DOMAIN e.hdr \ {b}
          /\ \A x \in DOMAIN k.hdr : x # p => k.hdr[x] = e.hdr[x]
          /\ k.hdr[p].free = e.hdr[p].free /\ k.hdr[p].prev_free = e.hdr[p].prev_free
      BY <3>4, Absorbing
    <3> HIDE DEF k
    <3>6. ~ h2.hdr[p].prev_free
      <4>1. p # FirstBlock
        BY <3>1, <3>2 DEF Headers
      <4>2. PICK q \in DOMAIN h2.hdr \ {LastBlock} : Nx(h2.hdr, q) = p
        BY <1>7, <3>2, <4>1 DEF Headers
      <4>3. q # b
        <5>1. Nx(h2.hdr, b) \in Int /\ Nx(h2.hdr, b) >= b + 16
          BY <1>6, <3>2, HeaderFacts
        <5>2. p \in Int
          BY <1>7, <3>2, HeaderFacts
        <5> QED BY <1>2, <1>7, <4>2, <5>1, <5>2
      <4>4. ~ (h2.hdr[q].free /\ h2.hdr[p].free)
        BY <1>7, <3>2, <4>2, <4>3 DEF Headers
      <4>5. h2.hdr[p].prev_free <=> h2.hdr[q].free
        BY <3>2, <4>2, <4>3 DEF Headers
      <4> QED BY <3>1, <4>4, <4>5
    <3>7. ~ k.hdr[Next_b(k, p)].free
      BY <1>6, <3>3, <3>5
    <3>8. Used(k) = Used(h2) /\ \A x \in Used(h2) : k.hdr[x].size = h2.hdr[x].size
      BY <1>6, <3>1, <3>3, <3>5 DEF SameUsed, Used
    <3>9. SameUsed(h, k, b) /\ b \notin Used(k)
      BY <1>6, <3>5, <3>8 DEF SameUsed, Used
    <3> QED BY Zenon, <3>1, <3>3, <3>5, <3>6, <3>7, <3>9
  <2>2. CASE ~ r[b].prev_free
    <3>1. h3 = h2 /\ c = b
      BY <2>2
    <3> QED BY <1>6, <2>2, <3>1 DEF Used
  <2> QED BY ZenonT(40), <2>1, <2>2
<1> HIDE DEF h3, c
<1>9. Good(g) /\ SameUsed(h3, g, Null)
  <2>1. c \in DOMAIN h3.hdr \ {FirstBlock, LastBlock}
    <3>1. Headers(h3.hdr, c)
      BY <1>8 DEF Loose
    <3> QED BY <1>8, <3>1, HeaderFacts
  <2> QED BY <1>8, <2>1, Settling, Zenon
<1> HIDE DEF g
<1>10. SameUsed(h, g, b) /\ b \notin Used(g)
  <2>1. Headers(h3.hdr, c) /\ Headers(g.hdr, Null)
    BY <1>8, <1>9 DEF Good, Loose
  <2>2. Null \notin Used(h3) /\ Null \notin Used(g)
    BY <2>1, HeaderFacts DEF Used, Null
  <2> QED BY <1>2, <1>8, <1>9, <2>2 DEF SameUsed
<1> QED BY <1>3, <1>9, <1>10

(* An operation may start on any used block: what Headers leaves out for a *)
(* loose block holds, and it is on no list.                                *)
LEMMA UsedBlock ==
  ASSUME NEW h, Good(h), NEW b \in Used(h)
  PROVE  /\ Loose(h, b) /\ b \in DOMAIN h.hdr \ {FirstBlock, LastBlock} /\ ~ h.hdr[b].free
         /\ b \in Int /\ b >= 3184 /\ h.hdr[b].size \in Nat
         /\ FreeBlocks(h, b) = FreeBlocks(h, Null)
<1>1. b \in DOMAIN h.hdr \ {FirstBlock, LastBlock} /\ ~ h.hdr[b].free
  BY DEF Used
<1>2. Headers(h.hdr, Null) /\ Lists(h, FreeBlocks(h, Null))
  BY DEF Good, Loose
<1>3. \A y \in DOMAIN h.hdr : y # Null /\ y \in Int /\ y >= 3184
  BY <1>2, HeaderFacts DEF Null
<1>4. \A y \in DOMAIN h.hdr \ {LastBlock} : Nx(h.hdr, y) \in DOMAIN h.hdr
  BY <1>2 DEF Headers
<1>5. Headers(h.hdr, b)
  BY <1>2, <1>3, <1>4 DEF Headers
<1>6. FreeBlocks(h, b) = FreeBlocks(h, Null)
  BY <1>1, <1>3 DEF FreeBlocks
<1>7. h.hdr[b].size \in Nat
  BY SMTT(30), <1>1, <1>2 DEF Headers
<1> QED BY <1>1, <1>2, <1>3, <1>5, <1>6, <1>7 DEF Loose

(* realloc_ex, where it succeeds, exchanges a used block for one of the    *)
(* new size, which may be the same block.                                  *)
LEMMA Realloc ==
  ASSUME NEW h, Good(h), NEW b \in Used(h), NEW new_size \in Nat, new_size <= 2^29
  PROVE  LET m == realloc_ex(h, Buffer(b), new_size)
             c == BlockOf(m.ptr)
         IN  m.ptr # Null =>
               /\ Good(m.heap) /\ Used(m.heap) = (Used(h) \ {b}) \cup {c}
               /\ \A x \in Used(h) \ {b} : x # c /\ m.heap.hdr[x].size = h.hdr[x].size
               /\ m.ptr = Buffer(c) /\ m.heap.hdr[c].size >= new_size
<1> DEFINE r    == h.hdr
           n    == Next_b(h, b)
           size == Rounded(new_size)
           old  == r[b].size
           m    == realloc_ex(h, Buffer(b), new_size)
           v    == malloc_ex(h, size)
<1>1. \A k, x : Next_b(k, x) = Nx(k.hdr, x)
  BY DEF Next_b, GET_NEXT_BLOCK, BHDR_OVERHEAD, Nx
<1>2. size \in Nat /\ size >= 8 /\ size <= 2^29 /\ size >= new_size
  BY Mapping
<1> HIDE DEF size
<1>3. ASSUME NEW k, Good(k), NEW x \in Used(k)
      PROVE  /\ Loose(k, x) /\ x \in DOMAIN k.hdr \ {FirstBlock, LastBlock} /\ ~ k.hdr[x].free
             /\ x \in Int /\ x >= 3184 /\ k.hdr[x].size \in Nat
             /\ FreeBlocks(k, x) = FreeBlocks(k, Null)
  BY <1>3, UsedBlock
<1>4. ASSUME NEW k, Good(k), b \in Used(k), ~ k.hdr[Next_b(k, b)].free, k.hdr[b].size >= size
      PROVE  LET g == Trim(k, b, size)
             IN  Good(g) /\ SameUsed(k, g, b) /\ b \in Used(g) /\ g.hdr[b].size >= size
  <2>1. /\ Loose(k, b) /\ b \in DOMAIN k.hdr \ {FirstBlock, LastBlock}
        /\ k.hdr[b].size \in Nat
    BY <1>3, <1>4
  <2>2. CASE k.hdr[b].size - size >= 16
    <3>1. Trim(k, b, size) = Split(k, b, size)
      BY <2>2 DEF Trim, SizeofBhdr
    <3> QED BY <1>2, <1>4, <2>1, <2>2, <3>1, Splitting
  <2>3. CASE ~ (k.hdr[b].size - size >= 16)
    <3>1. Trim(k, b, size) = k
      BY <2>3 DEF Trim, SizeofBhdr
    <3> QED BY <1>4, <3>1 DEF SameUsed
  <2> QED BY <2>2, <2>3
<1>5. /\ Loose(h, b) /\ b \in DOMAIN r \ {FirstBlock, LastBlock} /\ ~ r[b].free
      /\ b \in Int /\ b >= 3184 /\ old \in Nat /\ n = Nx(r, b) /\ n \in DOMAIN r
      /\ Headers(r, b) /\ Headers(r, Null) /\ Lists(h, FreeBlocks(h, Null))
      /\ FreeBlocks(h, b) = FreeBlocks(h, Null) /\ BlockOf(Buffer(b)) = b /\ Buffer(b) # Null
  <2>1. /\ Loose(h, b) /\ b \in DOMAIN r \ {FirstBlock, LastBlock} /\ ~ r[b].free
        /\ b \in Int /\ b >= 3184 /\ old \in Nat /\ FreeBlocks(h, b) = FreeBlocks(h, Null)
    BY <1>3
  <2>2. Headers(r, b) /\ Headers(r, Null) /\ Lists(h, FreeBlocks(h, Null)) /\ n = Nx(r, b)
    BY SMTT(30), <1>1, <2>1 DEF Good, Loose
  <2>3. n \in DOMAIN r
    BY <2>1, <2>2 DEF Headers
  <2>4. BlockOf(Buffer(b)) = b /\ Buffer(b) # Null
    BY <2>1 DEF BlockOf, Buffer, BHDR_OVERHEAD, Null
  <2> QED BY <2>1, <2>2, <2>3, <2>4
<1> HIDE DEF n
<1>6. ASSUME NEW g, Good(g), SameUsed(h, g, b), b \in Used(g), g.hdr[b].size >= size,
             m.heap = g, m.ptr = Buffer(b)
      PROVE  LET c == BlockOf(m.ptr)
             IN  /\ Good(m.heap) /\ Used(m.heap) = (Used(h) \ {b}) \cup {c}
                 /\ \A x \in Used(h) \ {b} : x # c /\ m.heap.hdr[x].size = h.hdr[x].size
                 /\ m.ptr = Buffer(c) /\ m.heap.hdr[c].size >= new_size
  <2>1. Used(g) = (Used(h) \ {b}) \cup {b}
    BY <1>6 DEF SameUsed
  <2>2. g.hdr[b].size >= new_size
    <3>1. g.hdr[b].size \in Nat
      BY <1>3, <1>6
    <3> QED BY <1>2, <1>6, <3>1
  <2> HIDE DEF m
  <2> QED BY <1>5, <1>6, <2>1, <2>2 DEF SameUsed
<1> DEFINE e == EXTRACT_BLOCK(h, n)
           k == Absorb(e, b)
<1>7. ASSUME r[n].free
      PROVE  /\ Loose(k, b) /\ SameUsed(h, k, b) /\ b \in DOMAIN k.hdr \ {FirstBlock, LastBlock}
             /\ k.hdr[b].size = old + r[n].size + 8 /\ r[n].size \in Nat /\ r[n].size >= 8
             /\ ~ k.hdr[Next_b(k, b)].free /\ ~ k.hdr[b].free
  <2>1. n \in FreeBlocks(h, Null) /\ n # LastBlock /\ n # Null
    <3>1. n # Null /\ n # LastBlock
      BY <1>5, <1>7, HeaderFacts DEF Null
    <3> QED BY <1>5, <1>7, <3>1 DEF FreeBlocks
  <2>2. Lists(e, FreeBlocks(h, Null) \ {n}) /\ e.hdr = r
    <3>1. Cell(h, n) \in Cells
      BY <1>5, <1>7, <2>1, HeaderFacts DEF Cell
    <3> QED BY <1>5, <2>1, <3>1, Extract
  <2> HIDE DEF e
  <2>3. /\ Headers(e.hdr, b) /\ b \in DOMAIN e.hdr \ {LastBlock} /\ Next_b(e, b) = n
        /\ e.hdr[n].free /\ Lists(e, FreeBlocks(e, b) \ {n}) /\ Next_b(e, n) = Nx(r, n)
    <3>1. FreeBlocks(e, b) = FreeBlocks(h, b)
      BY SMTT(30), <2>2 DEF FreeBlocks
    <3> QED BY <1>1, <1>5, <1>7, <2>2, <3>1
  <2>4. /\ Loose(k, b) /\ SameUsed(e, k, b) /\ Next_b(k, b) = Nx(r, n)
        /\ Nx(r, n) \in DOMAIN k.hdr /\ Nx(r, n) # b /\ b \in DOMAIN k.hdr
        /\ \A x \in DOMAIN k.hdr : x # b => k.hdr[x] = e.hdr[x]
        /\ k.hdr[b].free = e.hdr[b].free /\ k.hdr[b].size = e.hdr[b].size + e.hdr[n].size + 8
    BY SMTT(30), <2>3, Absorbing
  <2> HIDE DEF k
  <2>5. ~ r[Nx(r, n)].free /\ r[n].size \in Nat /\ r[n].size >= 8
    <3>1. Nx(r, n) # Null
      <4>1. Nx(r, n) \in DOMAIN r
        BY <1>5, <2>1 DEF Headers
      <4> QED BY SMTT(30), <1>5, <4>1, HeaderFacts DEF Null
    <3> QED BY <1>5, <1>7, <2>1, <3>1 DEF Headers
  <2>6. SameUsed(h, k, b)
    BY <2>2, <2>4 DEF SameUsed, Used
  <2> QED BY <1>5, <2>2, <2>4, <2>5, <2>6
<1> HIDE DEF e
<1>8. CASE size <= old
  <2> DEFINE g == Trim(IF r[n].free THEN k ELSE h, b, size)
  <2>1. m.heap = g /\ m.ptr = Buffer(b)
    BY SMTT(30), <1>5, <1>8 DEF realloc_ex, n, e, size
  <2>2. Good(g) /\ SameUsed(h, g, b) /\ b \in Used(g) /\ g.hdr[b].size >= size
    <3>1. CASE r[n].free
      <4> HIDE DEF k
      <4>1. k.hdr[b].size - size >= 16 /\ k.hdr[b].size \in Nat
        BY <1>2, <1>5, <1>7, <1>8, <3>1
      <4>2. g = Split(k, b, size)
        BY <3>1, <4>1 DEF Trim, SizeofBhdr
      <4>3. Good(g) /\ SameUsed(k, g, b) /\ b \in Used(g) /\ g.hdr[b].size = size
        BY SMTT(30), <1>2, <1>7, <3>1, <4>1, <4>2, Splitting
      <4> HIDE DEF g
      <4> QED BY <1>2, <1>7, <3>1, <4>3 DEF SameUsed
    <3>2. CASE ~ r[n].free
      BY SMTT(30), <1>4, <1>5, <1>8, <3>2 DEF n
    <3> QED BY <3>1, <3>2
  <2> HIDE DEF g, m
  <2> QED BY <1>6, <2>1, <2>2 DEF m
<1>9. CASE ~ (size <= old) /\ r[n].free /\ size <= old + r[n].size
  <2> HIDE DEF k
  <2> DEFINE t == TagNext(k, b, b, FALSE)
             g == Trim(t, b, size)
  <2>1. m.heap = g /\ m.ptr = Buffer(b)
    <3>1. m.heap = GrowInPlace(h, b, size) /\ m.ptr = Buffer(b)
      BY <1>5, <1>9 DEF realloc_ex, n, size
    <3>2. GrowInPlace(h, b, size) = g
      BY Zenon DEF GrowInPlace, n, e, k
    <3> QED BY <3>1, <3>2
  <2>2. /\ Good(t) /\ SameUsed(k, t, Null) /\ DOMAIN t.hdr = DOMAIN k.hdr
        /\ t.hdr[b] = k.hdr[b] /\ Next_b(t, b) = Next_b(k, b)
        /\ t.hdr[Next_b(k, b)].free = k.hdr[Next_b(k, b)].free
    <3>1. Loose(k, b) /\ b \in DOMAIN k.hdr \ {FirstBlock, LastBlock} /\ ~ k.hdr[b].free
      BY <1>7, <1>9
    <3>2. b \in Int
      BY <1>5
    <3> QED BY <3>1, <3>2, Settling, Zenon
  <2> HIDE DEF t
  <2>3. b \in Used(t) /\ t.hdr[b].size >= size /\ ~ t.hdr[Next_b(t, b)].free
    <3>1. t.hdr[b].size >= size
      BY <1>2, <1>5, <1>7, <1>9, <2>2
    <3> QED BY SMTT(30), <1>7, <1>9, <2>2, <3>1 DEF Used
  <2>4. Good(g) /\ SameUsed(t, g, b) /\ b \in Used(g) /\ g.hdr[b].size >= size
    BY <1>4, <2>2, <2>3
  <2>5. SameUsed(h, g, b)
    <3>1. Null \notin Used(k) /\ Null \notin Used(t)
      <4>1. Headers(k.hdr, b) /\ Headers(t.hdr, Null)
        BY <1>7, <1>9, <2>2 DEF Good, Loose
      <4> QED BY <4>1, HeaderFacts DEF Used, Null
    <3>2. SameUsed(k, t, b)
      BY SMTT(30), <2>2, <3>1 DEF SameUsed
    <3> HIDE DEF g
    <3> QED BY <1>7, <1>9, <2>4, <3>2 DEF SameUsed
  <2> HIDE DEF g, m
  <2> QED BY <1>6, <2>1, <2>4, <2>5 DEF m
<1>10. CASE ~ (size <= old) /\ ~ (r[n].free /\ size <= old + r[n].size)
  <2>1. CASE v.ptr = Null
    <3>1. m = v
      BY <1>5, <1>10, <2>1 DEF realloc_ex, n, size
    <3> QED BY <2>1, <3>1
  <2>2. CASE v.ptr # Null
    <3> DEFINE c == BlockOf(v.ptr)
               g == free_ex(v.heap, Buffer(b))
    <3>1. m.heap = g /\ m.ptr = v.ptr
      BY <1>5, <1>10, <2>2 DEF realloc_ex, n, size
    <3>2. /\ Good(v.heap) /\ SameUsed(h, v.heap, c) /\ c \in Used(v.heap) /\ c \notin Used(h)
          /\ v.ptr = Buffer(c) /\ v.heap.hdr[c].size >= size
      BY <1>2, <2>2, Malloc
    <3> HIDE DEF v, c, m
    <3>3. b \in Used(v.heap) /\ b # c
      BY <3>2 DEF SameUsed
    <3>4. Good(g) /\ SameUsed(v.heap, g, b) /\ b \notin Used(g)
      BY <1>3, <3>2, <3>3, Free
    <3> HIDE DEF g
    <3>5. Used(g) = (Used(h) \ {b}) \cup {c}
      BY <3>2, <3>3, <3>4 DEF SameUsed
    <3>6. \A x \in Used(h) \ {b} : x # c /\ g.hdr[x].size = h.hdr[x].size
      BY <3>2, <3>3, <3>4 DEF SameUsed
    <3>7. g.hdr[c].size >= new_size
      <4>1. g.hdr[c].size = v.heap.hdr[c].size /\ v.heap.hdr[c].size \in Nat
        BY <1>3, <3>2, <3>3, <3>4 DEF SameUsed
      <4> QED BY <1>2, <3>2, <4>1
    <3> QED BY SMTT(30), <3>1, <3>2, <3>4, <3>5, <3>6, <3>7 DEF m, c
  <2> QED BY <2>1, <2>2
<1> QED BY <1>8, <1>9, <1>10
============================================================================
