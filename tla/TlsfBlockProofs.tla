-------------------------- MODULE TlsfBlockProofs --------------------------
(***************************************************************************)
(* The steps the services of Tlsf are made of: merging a block with the    *)
(* one after it, cutting it, and settling the block in hand.               *)
(***************************************************************************)
EXTENDS TlsfListProofs

(* Block p swallows the block after it, which is on no list any more: p is *)
(* loose then, if one of the two was before.                               *)
LEMMA Absorbing ==
  ASSUME NEW h, NEW f, Headers(h.hdr, f), NEW p \in DOMAIN h.hdr \ {LastBlock},
         f \in {p, Next_b(h, p)}, h.hdr[Next_b(h, p)].free,
         Lists(h, FreeBlocks(h, p) \ {Next_b(h, p)})
  PROVE  LET n == Next_b(h, p)
             g == Absorb(h, p)
         IN  /\ Loose(g, p) /\ SameUsed(h, g, p) /\ n \in DOMAIN h.hdr \ {LastBlock}
             /\ Next_b(g, p) = Next_b(h, n) /\ Next_b(h, n) \in DOMAIN g.hdr /\ Next_b(h, n) # p
             /\ DOMAIN g.hdr = DOMAIN h.hdr \ {n} /\ p \in DOMAIN g.hdr
             /\ \A x \in DOMAIN g.hdr : x # p => g.hdr[x] = h.hdr[x]
             /\ g.hdr[p].prev_hdr = h.hdr[p].prev_hdr /\ g.hdr[p].free = h.hdr[p].free
             /\ g.hdr[p].prev_free = h.hdr[p].prev_free
             /\ g.hdr[p].size = h.hdr[p].size + h.hdr[n].size + 8
<1>hdr. ASSUME NEW r, Headers(r, f), p \in DOMAIN r \ {LastBlock},
             Nx(r, p) # LastBlock, f \in {p, Nx(r, p)},
             NEW g, DOMAIN g = DOMAIN r \ {Nx(r, p)},
             \A x \in DOMAIN g : x # p => g[x] = r[x],
             g[p] = Header(r[p].prev_hdr, r[p].size + r[Nx(r, p)].size + 8, r[p].free, r[p].prev_free)
      PROVE  Headers(g, p) /\ Nx(g, p) = Nx(r, Nx(r, p))
  <2> USE <1>hdr
  <2> DEFINE n == Nx(r, p)
  <2>1. /\ \A x \in DOMAIN r : x \in Int
        /\ \A x \in DOMAIN r \ {LastBlock} : Nx(r, x) \in Int /\ Nx(r, x) > x
        /\ \A x, y \in DOMAIN r \ {LastBlock} : Nx(r, x) = Nx(r, y) => x = y
    BY HeaderFacts
  <2>2. /\ n \in DOMAIN r \ {LastBlock} /\ n > p /\ p \in DOMAIN g /\ n # FirstBlock
        /\ n = p + 8 + r[p].size
    <3>1. n \in DOMAIN r /\ n > p
      BY <2>1 DEF Headers
    <3>2. p >= FirstBlock /\ p \in Int /\ FirstBlock \in Int
      BY Layout DEF Headers
    <3> QED BY <2>1, <3>1, <3>2 DEF Nx
  <2>3. /\ g[p].prev_hdr = r[p].prev_hdr /\ g[p].free = r[p].free
        /\ g[p].prev_free = r[p].prev_free /\ g[p].size = r[p].size + r[n].size + 8
    BY DEF Header
  <2>4. r[p].size \in Nat /\ r[n].size \in Nat /\ p \in Int
    BY <2>1, <2>2 DEF Headers
  <2>5. Nx(g, p) = Nx(r, n)
    BY <2>2, <2>3, <2>4 DEF Nx
  <2>6. \A x \in DOMAIN g : x # p => Nx(g, x) = Nx(r, x)
    BY DEF Nx
  <2> HIDE DEF n
  <2>7. DOMAIN g = DOMAIN r \ {n}
    BY DEF n
  <2>8. \A x \in DOMAIN r \ {LastBlock} : x # p => Nx(r, x) # n
    BY <2>1 DEF n
  <2>9. \A x \in DOMAIN g :
          g[x].prev_hdr \in Int /\ g[x].size \in Nat /\ g[x].free \in BOOLEAN /\ g[x].prev_free \in BOOLEAN
    <3> TAKE x \in DOMAIN g
    <3>1. CASE x = p
      BY <2>2, <2>3, <2>4, <2>7, <3>1 DEF Headers
    <3>2. CASE x # p
      BY <2>7, <3>2 DEF Headers
    <3> QED BY <3>1, <3>2
  <2>10. /\ DOMAIN g \subseteq FirstBlock .. LastBlock
         /\ FirstBlock \in DOMAIN g /\ LastBlock \in DOMAIN g
         /\ ~ g[FirstBlock].free /\ ~ g[FirstBlock].prev_free /\ ~ g[LastBlock].free
    BY Zenon, <2>2, <2>3, <2>7 DEF Headers
  <2>11. ASSUME NEW x \in DOMAIN g \ {LastBlock}
         PROVE  /\ g[x].size >= 8 /\ Nx(g, x) \in DOMAIN g
                /\ \A y \in DOMAIN g : y > x => y >= Nx(g, x)
    <3>1. CASE x = p
      <4>1. Nx(r, n) \in DOMAIN r /\ Nx(r, n) # n
        BY <2>1, <2>2 DEF Headers
      <4>2. ASSUME NEW y \in DOMAIN g, y > p PROVE y >= Nx(r, n)
        <5>1. y >= n /\ y # n
          BY <2>7, <4>2 DEF Headers, n
        <5>2. y > n
          BY <2>1, <2>2, <2>7, <5>1
        <5> QED BY <2>2, <2>7, <5>2 DEF Headers
      <4>3. g[p].size >= 8
        <5>1. r[p].size >= 8
          BY DEF Headers
        <5> QED BY <2>3, <2>4, <5>1
      <4> QED BY <2>5, <2>7, <3>1, <4>1, <4>2, <4>3
    <3>2. CASE x # p
      <4>1. Nx(g, x) = Nx(r, x) /\ x \in DOMAIN r \ {LastBlock} /\ g[x] = r[x]
        BY <2>6, <2>7, <3>2
      <4>2. Nx(r, x) # n
        BY <2>8, <3>2, <4>1
      <4> QED BY Zenon, <2>7, <4>1, <4>2 DEF Headers
    <3> QED BY <3>1, <3>2
  <2>12. ASSUME NEW x \in DOMAIN g \ {FirstBlock}
         PROVE  \E q \in DOMAIN g \ {LastBlock} : Nx(g, q) = x
    <3>1. PICK q \in DOMAIN r \ {LastBlock} : Nx(r, q) = x
      BY <2>7 DEF Headers
    <3>2. CASE q = n
      BY <2>2, <2>5, <3>1, <3>2
    <3>3. CASE q # n
      <4>1. q # p
        BY <2>7, <3>1 DEF n
      <4> QED BY <2>6, <2>7, <3>1, <3>3, <4>1
    <3> QED BY <3>2, <3>3
  <2>13. ASSUME NEW x \in DOMAIN g \ {LastBlock}, x # p
         PROVE  /\ x \in DOMAIN r \ {LastBlock} /\ g[x] = r[x] /\ x # f
                /\ Nx(g, x) = Nx(r, x) /\ Nx(r, x) \in DOMAIN g
                /\ g[Nx(r, x)].prev_free = r[Nx(r, x)].prev_free
                /\ g[Nx(r, x)].prev_hdr = r[Nx(r, x)].prev_hdr
                /\ g[Nx(r, x)].free = r[Nx(r, x)].free
    <3>1. x \in DOMAIN r \ {LastBlock} /\ g[x] = r[x] /\ x # f /\ Nx(g, x) = Nx(r, x)
      BY <2>6, <2>7, <2>13 DEF n
    <3>2. Nx(r, x) \in DOMAIN g
      BY Zenon, <2>7, <2>8, <2>13, <3>1 DEF Headers
    <3>3. CASE Nx(r, x) = p
      BY <2>3, <3>1, <3>2, <3>3
    <3>4. CASE Nx(r, x) # p
      BY <3>1, <3>2, <3>4
    <3> QED BY <3>1, <3>2, <3>3, <3>4
  <2>14. \A x \in DOMAIN g \ {LastBlock} : x # p =>
           /\ g[Nx(g, x)].prev_free <=> g[x].free
           /\ g[x].free => g[Nx(g, x)].prev_hdr = x
    BY <2>13 DEF Headers
  <2>15. \A x \in DOMAIN g \ {LastBlock} :
           x # p /\ Nx(g, x) # p => ~ (g[x].free /\ g[Nx(g, x)].free)
    <3> TAKE x \in DOMAIN g \ {LastBlock}
    <3> HAVE x # p /\ Nx(g, x) # p
    <3>1. Nx(r, x) # f
      BY <2>7, <2>13 DEF n
    <3> QED BY <2>13, <3>1 DEF Headers
  <2> QED BY <2>5, <2>9, <2>10, <2>11, <2>12, <2>14, <2>15 DEF Headers, n
<1> DEFINE n == Next_b(h, p)
           g == Absorb(h, p)
           r == h.hdr
<1>1. \A x : Next_b(h, x) = Nx(r, x) /\ Next_b(g, x) = Nx(g.hdr, x)
  BY DEF Next_b, GET_NEXT_BLOCK, BHDR_OVERHEAD, Nx
<1>2. n \in DOMAIN r \ {LastBlock} /\ n # p
  <2>1. Nx(r, p) \in DOMAIN r /\ Nx(r, p) # p
    <3>1. Nx(r, p) \in Int /\ Nx(r, p) >= p + 16 /\ p \in Int
      BY HeaderFacts
    <3> QED BY <3>1 DEF Headers
  <2>2. Nx(r, p) # LastBlock
    BY <1>1 DEF Headers
  <2> QED BY <1>1, <2>1, <2>2
<1>3. /\ g.hdr = [x \in DOMAIN r \ {n} |->
                    IF x = p THEN Header(r[p].prev_hdr, r[p].size + r[n].size + 8, r[p].free, r[p].prev_free)
                             ELSE r[x]]
      /\ g.matrix = h.matrix /\ g.sl_bitmap = h.sl_bitmap /\ g.fl_bitmap = h.fl_bitmap
  BY DEF Absorb, Merge, WithHeaders, BHDR_OVERHEAD
<1> HIDE DEF n, g
<1>4. /\ DOMAIN g.hdr = DOMAIN r \ {n} /\ p \in DOMAIN g.hdr
      /\ \A x \in DOMAIN g.hdr : x # p => g.hdr[x] = r[x]
      /\ g.hdr[p] = Header(r[p].prev_hdr, r[p].size + r[n].size + 8, r[p].free, r[p].prev_free)
  BY <1>2, <1>3
<1>5. /\ g.hdr[p].prev_hdr = r[p].prev_hdr /\ g.hdr[p].free = r[p].free
      /\ g.hdr[p].prev_free = r[p].prev_free /\ g.hdr[p].size = r[p].size + r[n].size + 8
  BY <1>4 DEF Header
<1>6. n = Nx(r, p)
  BY <1>1 DEF n
<1>7. Headers(g.hdr, p) /\ Nx(g.hdr, p) = Nx(r, n)
  <2>1. f \in {p, n} /\ Headers(r, f)
    BY DEF n
  <2> HIDE DEF r
  <2> QED BY <1>2, <1>4, <1>6, <2>1, <1>hdr
<1>8. Nx(r, n) \in DOMAIN g.hdr /\ Nx(r, n) # p
  <2>1. Nx(g.hdr, p) \in DOMAIN g.hdr
    BY <1>4, <1>7 DEF Headers
  <2>2. Nx(g.hdr, p) # p
    BY <1>4, <1>7, HeaderFacts
  <2> QED BY <1>7, <2>1, <2>2
<1>9. FreeBlocks(g, p) = FreeBlocks(h, p) \ {n}
  BY <1>4 DEF FreeBlocks
<1>10. Lists(g, FreeBlocks(g, p))
  <2>1. Lists(h, FreeBlocks(g, p))
    BY <1>9 DEF n
  <2>2. \A x \in FreeBlocks(g, p) : g.hdr[x].size = h.hdr[x].size
    BY <1>4 DEF FreeBlocks
  <2>3. g.matrix = h.matrix /\ g.sl_bitmap = h.sl_bitmap /\ g.fl_bitmap = h.fl_bitmap
    BY <1>3
  <2> QED BY <2>1, <2>2, <2>3, Relist
<1>11. SameUsed(h, g, p)
  <2>1. h.hdr[n].free
    BY DEF n
  <2> QED BY <1>4, <2>1 DEF SameUsed, Used
<1> QED BY <1>1, <1>2, <1>4, <1>5, <1>7, <1>8, <1>10, <1>11 DEF Loose, n, g

(* The ends of an operation that do not cut: the loose block is put on its *)
(* list as a free one, stays used, or becomes used, and the block after it *)
(* is told.  Nothing is loose then.                                        *)
LEMMA Settling ==
  ASSUME NEW h, NEW c \in DOMAIN h.hdr \ {FirstBlock, LastBlock}, Loose(h, c)
  PROVE  /\ h.hdr[c].free /\ ~ h.hdr[c].prev_free /\ ~ h.hdr[Next_b(h, c)].free =>
              LET g == TagNext(INSERT_BLOCK(h, c), c, c, TRUE)
              IN  Good(g) /\ SameUsed(h, g, Null)
         /\ \A q \in Int : ~ h.hdr[c].free =>
              LET g == TagNext(h, c, q, FALSE)
              IN  Good(g) /\ SameUsed(h, g, Null) /\ DOMAIN g.hdr = DOMAIN h.hdr
                  /\ g.hdr[c] = h.hdr[c] /\ Next_b(g, c) = Next_b(h, c)
                  /\ g.hdr[Next_b(h, c)].free = h.hdr[Next_b(h, c)].free
         /\ \A q \in Int :
              LET g == Mark(TagNext(h, c, q, FALSE), c, FALSE)
              IN  Good(g) /\ SameUsed(h, g, c) /\ c \in Used(g) /\ g.hdr[c].size = h.hdr[c].size
<1>hdr. ASSUME NEW r, c \in DOMAIN r \ {FirstBlock, LastBlock}, Headers(r, c),
             NEW v \in BOOLEAN, v => ~ r[c].prev_free /\ ~ r[Nx(r, c)].free,
             NEW g, Settled(r, c, v, g)
      PROVE  Headers(g, Null)
  <2> USE <1>hdr
  <2> DEFINE n == Nx(r, c)
  <2>1. /\ \A x \in DOMAIN r : x \in Int
        /\ \A x \in DOMAIN r \ {LastBlock} : Nx(r, x) \in Int /\ Nx(r, x) > x
        /\ \A x, y \in DOMAIN r \ {LastBlock} : Nx(r, x) = Nx(r, y) => x = y
    BY HeaderFacts
  <2>2. n \in DOMAIN r /\ n # c /\ n # FirstBlock
    <3>1. n \in DOMAIN r /\ n > c
      BY <2>1 DEF Headers
    <3>2. c >= FirstBlock /\ c \in Int /\ FirstBlock \in Int
      BY Layout DEF Headers
    <3> QED BY <2>1, <3>1, <3>2
  <2> HIDE DEF n
  <2>3. \A x \in DOMAIN r : Nx(g, x) = Nx(r, x) /\ g[x].size = r[x].size
    <3>1. \A x \in DOMAIN r : g[x].size = r[x].size
      BY DEF Settled
    <3> QED BY <3>1 DEF Nx
  <2>4. \A x \in DOMAIN r : x # c => g[x].free = r[x].free
    BY DEF n, Settled
  <2>5. \A x \in DOMAIN r : x # n => g[x].prev_free = r[x].prev_free /\ g[x].prev_hdr = r[x].prev_hdr
    BY DEF n, Settled
  <2>6. g[c].free = v /\ g[n].prev_free = v /\ (v => g[n].prev_hdr = c) /\ g[n].prev_hdr \in Int
    BY DEF n, Settled
  <2>7. v => ~ r[c].prev_free /\ ~ r[n].free
    BY DEF n
  <2>8. \A x \in DOMAIN r \ {LastBlock} : Nx(r, x) \in DOMAIN r /\ (x # c => Nx(r, x) # n)
    BY <2>1 DEF n, Headers
  <2>0. DOMAIN g = DOMAIN r
    BY DEF Settled
  <2>9. \A x \in DOMAIN g :
          g[x].prev_hdr \in Int /\ g[x].size \in Nat /\ g[x].free \in BOOLEAN /\ g[x].prev_free \in BOOLEAN
    <3> TAKE x \in DOMAIN g
    <3>1. g[x].size \in Nat
      BY <2>0, <2>3 DEF Headers
    <3>2. g[x].free \in BOOLEAN
      BY <2>0, <2>4, <2>6 DEF Headers
    <3>3. g[x].prev_hdr \in Int
      BY <2>0, <2>5, <2>6 DEF Headers
    <3>4. g[x].prev_free \in BOOLEAN
      BY <2>0, <2>5, <2>6 DEF Headers
    <3> QED BY <2>0, <3>1, <3>2, <3>3, <3>4
  <2>10. /\ DOMAIN g \subseteq FirstBlock .. LastBlock
         /\ FirstBlock \in DOMAIN g /\ LastBlock \in DOMAIN g
         /\ ~ g[FirstBlock].free /\ ~ g[FirstBlock].prev_free /\ ~ g[LastBlock].free
    BY <2>0, <2>2, <2>4, <2>5 DEF Headers
  <2>11. ASSUME NEW x \in DOMAIN g \ {LastBlock}
         PROVE  /\ g[x].size >= 8 /\ Nx(g, x) \in DOMAIN g
                /\ \A y \in DOMAIN g : y > x => y >= Nx(g, x)
    BY <2>0, <2>3 DEF Headers
  <2>12. ASSUME NEW x \in DOMAIN g \ {FirstBlock}
         PROVE  \E q \in DOMAIN g \ {LastBlock} : Nx(g, q) = x
    BY <2>0, <2>3 DEF Headers
  <2>13. ASSUME NEW x \in DOMAIN g \ {LastBlock}
         PROVE  /\ g[Nx(g, x)].prev_free <=> g[x].free
                /\ g[x].free => g[Nx(g, x)].prev_hdr = x
    <3>1. CASE x = c
      BY <2>0, <2>3, <2>6, <3>1 DEF n
    <3>2. CASE x # c
      <4>1. Nx(g, x) = Nx(r, x) /\ Nx(r, x) \in DOMAIN r /\ Nx(r, x) # n
        BY <2>0, <2>3, <2>8, <3>2
      <4>2. /\ r[Nx(r, x)].prev_free <=> r[x].free
            /\ r[x].free => r[Nx(r, x)].prev_hdr = x
        BY <2>0, <3>2 DEF Headers
      <4> QED BY <2>0, <2>4, <2>5, <3>2, <4>1, <4>2
    <3> QED BY <2>0, <3>1, <3>2
  <2>14. ASSUME NEW x \in DOMAIN g \ {LastBlock}
         PROVE  ~ (g[x].free /\ g[Nx(g, x)].free)
    <3>1. Nx(g, x) = Nx(r, x) /\ Nx(r, x) \in DOMAIN r
      BY <2>0, <2>3, <2>8
    <3>2. CASE x = c
      BY <2>0, <2>2, <2>4, <2>6, <2>7, <3>1, <3>2 DEF n
    <3>3. CASE x # c /\ Nx(r, x) = c
      <4>1. r[c].prev_free <=> r[x].free
        BY <2>0, <3>3 DEF Headers
      <4> QED BY <2>0, <2>4, <2>6, <2>7, <3>1, <3>3, <4>1
    <3>4. CASE x # c /\ Nx(r, x) # c
      <4>1. ~ (r[x].free /\ r[Nx(r, x)].free)
        BY <2>0, <3>4 DEF Headers
      <4> QED BY <2>0, <2>4, <3>1, <3>4, <4>1
    <3> QED BY <2>0, <3>2, <3>3, <3>4
  <2> QED BY <2>0, <2>9, <2>10, <2>11, <2>12, <2>13, <2>14 DEF Headers
<1> DEFINE n == Next_b(h, c)
           r == h.hdr
<1>1. \A k, x : Next_b(k, x) = Nx(k.hdr, x)
  BY DEF Next_b, GET_NEXT_BLOCK, BHDR_OVERHEAD, Nx
<1>2. n = Nx(r, c) /\ n \in DOMAIN r /\ n # c /\ c \in Int /\ Headers(r, c) /\ c # Null
  <2>1. Headers(r, c)
    BY DEF Loose
  <2>2. n = Nx(r, c)
    BY <1>1
  <2>3. Nx(r, c) \in Int /\ Nx(r, c) >= c + 16 /\ c \in Int /\ c >= 3184
    BY <2>1, HeaderFacts
  <2>4. Nx(r, c) \in DOMAIN r
    BY <2>1 DEF Headers
  <2> QED BY <2>1, <2>2, <2>3, <2>4 DEF Null
<1>3. \A x \in DOMAIN r : x # Null
  BY <1>2, HeaderFacts DEF Null
<1> HIDE DEF n
<1>4. \A k : k.hdr = r => Next_b(k, c) = n
  BY <1>1, <1>2
<1>5. ASSUME r[c].free, ~ r[c].prev_free, ~ r[n].free
      PROVE  LET g == TagNext(INSERT_BLOCK(h, c), c, c, TRUE)
             IN  Good(g) /\ SameUsed(h, g, Null)
  <2> DEFINE k == INSERT_BLOCK(h, c)
             g == TagNext(k, c, c, TRUE)
  <2>1. k.hdr = r /\ Lists(k, FreeBlocks(h, c) \cup {c})
    <3>1. Cell(h, c) \in Cells
      BY <1>2, <1>5, HeaderFacts DEF Cell
    <3>2. c \notin FreeBlocks(h, c)
      BY DEF FreeBlocks
    <3> QED BY <1>2, <3>1, <3>2, Insert DEF Loose
  <2> HIDE DEF k
  <2>2. g.hdr = [r EXCEPT ![n] = Header(c, r[n].size, r[n].free, TRUE)]
    BY Zenon, <1>4, <2>1 DEF TagNext, SetHeader, WithHeaders
  <2>3. g.matrix = k.matrix /\ g.sl_bitmap = k.sl_bitmap /\ g.fl_bitmap = k.fl_bitmap
    BY DEF TagNext, SetHeader, WithHeaders
  <2> HIDE DEF g
  <2>4. /\ DOMAIN g.hdr = DOMAIN r
        /\ \A x \in DOMAIN r : x # n => g.hdr[x] = r[x]
        /\ g.hdr[n] = Header(c, r[n].size, r[n].free, TRUE)
    BY <1>2, <2>2
  <2>5. /\ g.hdr[n].prev_hdr = c /\ g.hdr[n].size = r[n].size
        /\ g.hdr[n].free = r[n].free /\ g.hdr[n].prev_free = TRUE
    BY <2>4 DEF Header
  <2>6. Headers(g.hdr, Null)
    <3>1. g.hdr[c] = r[c] /\ r[c].free = TRUE
      BY <1>2, <1>5, <2>4 DEF Headers
    <3>2. Settled(r, c, TRUE, g.hdr)
      BY Zenon, <1>2, <2>4, <2>5, <3>1 DEF Settled
    <3>3. c \in DOMAIN r \ {FirstBlock, LastBlock}
      OBVIOUS
    <3> HIDE DEF r
    <3> QED BY Zenon, <1>2, <1>5, <3>2, <3>3, <1>hdr
  <2>7. \A x \in DOMAIN r : g.hdr[x].free = r[x].free /\ g.hdr[x].size = r[x].size
    BY Zenon, <2>4, <2>5
  <2>8. FreeBlocks(g, Null) = FreeBlocks(h, c) \cup {c}
    BY <1>3, <1>5, <2>4, <2>7 DEF FreeBlocks
  <2>9. Lists(g, FreeBlocks(g, Null))
    <3>1. \A x \in FreeBlocks(g, Null) : g.hdr[x].size = k.hdr[x].size
      BY <2>1, <2>4, <2>7 DEF FreeBlocks
    <3> QED BY <2>1, <2>3, <2>8, <3>1, Relist
  <2>10. SameUsed(h, g, Null)
    BY <2>4, <2>7 DEF SameUsed, Used
  <2> QED BY Zenon, <2>6, <2>9, <2>10 DEF Good, Loose, g, k
<1>6. ASSUME NEW g,
             g.matrix = h.matrix, g.sl_bitmap = h.sl_bitmap, g.fl_bitmap = h.fl_bitmap,
             Settled(r, c, FALSE, g.hdr)
      PROVE  /\ Good(g) /\ SameUsed(h, g, c) /\ c \in Used(g)
             /\ g.hdr[n].free = r[n].free
  <2>1. DOMAIN g.hdr = DOMAIN r /\ g.hdr[c].free = FALSE /\ g.hdr[n].free = r[n].free
    BY <1>2, <1>6 DEF Settled
  <2>2. Headers(g.hdr, Null)
    <3>1. c \in DOMAIN r \ {FirstBlock, LastBlock}
      OBVIOUS
    <3> HIDE DEF r
    <3> QED BY Zenon, <1>2, <1>6, <3>1, <1>hdr
  <2>3. \A x \in DOMAIN r : g.hdr[x].size = r[x].size /\ (x # c => g.hdr[x].free = r[x].free)
    BY <1>2, <1>6 DEF Settled
  <2>4. FreeBlocks(g, Null) = FreeBlocks(h, c)
    BY <1>3, <2>1, <2>3 DEF FreeBlocks
  <2>5. Lists(g, FreeBlocks(g, Null))
    <3>1. \A x \in FreeBlocks(g, Null) : g.hdr[x].size = h.hdr[x].size
      BY <2>1, <2>3 DEF FreeBlocks
    <3> QED BY <1>6, <2>4, <3>1, Relist DEF Loose
  <2>6. SameUsed(h, g, c) /\ c \in Used(g)
    BY <2>1, <2>3 DEF SameUsed, Used
  <2> QED BY <2>1, <2>2, <2>5, <2>6 DEF Good, Loose
<1>7. ASSUME NEW q \in Int, ~ r[c].free
      PROVE  LET g == TagNext(h, c, q, FALSE)
             IN  Good(g) /\ SameUsed(h, g, Null) /\ DOMAIN g.hdr = DOMAIN r
                 /\ g.hdr[c] = r[c] /\ Next_b(g, c) = n /\ g.hdr[n].free = r[n].free
  <2> DEFINE g == TagNext(h, c, q, FALSE)
  <2>1. /\ g.hdr = [r EXCEPT ![n] = Header(q, r[n].size, r[n].free, FALSE)]
        /\ g.matrix = h.matrix /\ g.sl_bitmap = h.sl_bitmap /\ g.fl_bitmap = h.fl_bitmap
    BY Zenon, <1>4 DEF TagNext, SetHeader, WithHeaders
  <2> HIDE DEF g
  <2>2. /\ DOMAIN g.hdr = DOMAIN r
        /\ \A x \in DOMAIN r : x # n => g.hdr[x] = r[x]
        /\ g.hdr[n] = Header(q, r[n].size, r[n].free, FALSE)
    BY <1>2, <2>1
  <2>3. g.hdr[c] = r[c] /\ r[c].free = FALSE
    BY <1>2, <1>7, <2>2 DEF Headers
  <2>4. Good(g) /\ SameUsed(h, g, c) /\ c \in Used(g) /\ g.hdr[n].free = r[n].free
    <3>1. /\ g.hdr[n].prev_hdr = q /\ g.hdr[n].size = r[n].size
          /\ g.hdr[n].free = r[n].free /\ g.hdr[n].prev_free = FALSE
      BY <2>2 DEF Header
    <3>2. Settled(r, c, FALSE, g.hdr)
      BY Zenon, <1>2, <2>2, <2>3, <3>1 DEF Settled
    <3> QED BY Zenon, <1>6, <2>1, <3>2
  <2>5. SameUsed(h, g, Null)
    BY <1>3, <2>2, <2>3, <2>4 DEF SameUsed, Used
  <2>6. Next_b(g, c) = n
    BY <1>1, <1>2, <2>3 DEF Nx
  <2> QED BY Zenon, <2>2, <2>3, <2>4, <2>5, <2>6 DEF g
<1>8. ASSUME NEW q \in Int
      PROVE  LET g == Mark(TagNext(h, c, q, FALSE), c, FALSE)
             IN  Good(g) /\ SameUsed(h, g, c) /\ c \in Used(g) /\ g.hdr[c].size = r[c].size
  <2> DEFINE t == TagNext(h, c, q, FALSE)
             g == Mark(t, c, FALSE)
  <2>1. /\ t.hdr = [r EXCEPT ![n] = Header(q, r[n].size, r[n].free, FALSE)]
        /\ t.matrix = h.matrix /\ t.sl_bitmap = h.sl_bitmap /\ t.fl_bitmap = h.fl_bitmap
    BY Zenon, <1>4 DEF TagNext, SetHeader, WithHeaders
  <2> HIDE DEF t
  <2>2. /\ g.hdr = [t.hdr EXCEPT ![c] = Header(t.hdr[c].prev_hdr, t.hdr[c].size, FALSE, t.hdr[c].prev_free)]
        /\ g.matrix = h.matrix /\ g.sl_bitmap = h.sl_bitmap /\ g.fl_bitmap = h.fl_bitmap
    BY <2>1 DEF Mark, SetHeader, WithHeaders
  <2> HIDE DEF g
  <2>3. /\ DOMAIN t.hdr = DOMAIN r
        /\ \A x \in DOMAIN r : x # n => t.hdr[x] = r[x]
        /\ t.hdr[n] = Header(q, r[n].size, r[n].free, FALSE)
    BY <1>2, <2>1
  <2>4. /\ DOMAIN g.hdr = DOMAIN r
        /\ \A x \in DOMAIN r : x # c => g.hdr[x] = t.hdr[x]
        /\ g.hdr[c] = Header(r[c].prev_hdr, r[c].size, FALSE, r[c].prev_free)
    BY Zenon, <1>2, <2>2, <2>3
  <2>5. /\ g.hdr[c].prev_hdr = r[c].prev_hdr /\ g.hdr[c].size = r[c].size
        /\ g.hdr[c].free = FALSE /\ g.hdr[c].prev_free = r[c].prev_free
    BY <2>4 DEF Header
  <2>6. Good(g) /\ SameUsed(h, g, c) /\ c \in Used(g)
    <3>1. g.hdr[n] = Header(q, r[n].size, r[n].free, FALSE)
      BY Zenon, <1>2, <2>3, <2>4
    <3>2. /\ g.hdr[n].prev_hdr = q /\ g.hdr[n].size = r[n].size
          /\ g.hdr[n].free = r[n].free /\ g.hdr[n].prev_free = FALSE
      BY <3>1 DEF Header
    <3>3. Settled(r, c, FALSE, g.hdr)
      BY Zenon, <1>2, <2>3, <2>4, <2>5, <3>2 DEF Settled
    <3> QED BY Zenon, <1>6, <2>2, <3>3
  <2> QED BY Zenon, <2>5, <2>6 DEF g, t
<1> QED BY Zenon, <1>5, <1>7, <1>8 DEF n

(* Cutting a loose block ends an operation: nothing is loose any more.     *)
LEMMA Splitting ==
  ASSUME NEW h, NEW b \in DOMAIN h.hdr \ {FirstBlock, LastBlock}, Loose(h, b),
         NEW size \in Nat, size >= 8, h.hdr[b].size - size >= 16,
         ~ h.hdr[Next_b(h, b)].free
  PROVE  LET g == Split(h, b, size)
         IN  Good(g) /\ SameUsed(h, g, b) /\ b \in Used(g) /\ g.hdr[b].size = size
<1>hdr. ASSUME NEW r, b \in DOMAIN r \ {FirstBlock, LastBlock}, Headers(r, b),
             r[b].size - size >= 16, ~ r[Nx(r, b)].free, NEW g, Halved(r, b, size, g)
      PROVE  Headers(g, Null) /\ b + 8 + size \notin DOMAIN r
  <2> USE <1>hdr
  <2>0. PICK rest :
        /\ rest = b + 8 + size /\ DOMAIN g = DOMAIN r \cup {rest}
        /\ g[rest] = Header(0, r[b].size - size - 8, TRUE, FALSE)
        /\ g[b] = Header(r[b].prev_hdr, size, FALSE, r[b].prev_free)
        /\ g[Nx(r, b)] = Header(rest, r[Nx(r, b)].size, r[Nx(r, b)].free, TRUE)
        /\ \A x \in DOMAIN r : x # b /\ x # Nx(r, b) => g[x] = r[x]
    BY Zenon DEF Halved
  <2> USE <2>0
  <2> DEFINE n == Nx(r, b)
  <2>1. /\ \A x \in DOMAIN r : x \in Int
        /\ \A x \in DOMAIN r \ {LastBlock} : Nx(r, x) \in Int /\ Nx(r, x) > x
        /\ \A x, y \in DOMAIN r \ {LastBlock} : Nx(r, x) = Nx(r, y) => x = y
    BY HeaderFacts
  <2>2. /\ n \in DOMAIN r /\ n > b /\ n = b + 8 + r[b].size /\ r[b].size \in Nat
        /\ \A y \in DOMAIN r : y > b => y >= n
        /\ b >= FirstBlock /\ b \in Int /\ n \in Int /\ FirstBlock \in Int /\ LastBlock \in Int
        /\ n <= LastBlock
    BY <2>1, Layout DEF Headers, Nx
  <2>3. rest \in Int /\ rest > b /\ rest < n /\ rest \notin DOMAIN r /\ n # FirstBlock
    BY <2>2
  <2>4. /\ g[rest].prev_hdr = 0 /\ g[rest].size = r[b].size - size - 8
        /\ g[rest].free = TRUE /\ g[rest].prev_free = FALSE
        /\ g[b].prev_hdr = r[b].prev_hdr /\ g[b].size = size
        /\ g[b].free = FALSE /\ g[b].prev_free = r[b].prev_free
        /\ g[n].prev_hdr = rest /\ g[n].size = r[n].size
        /\ g[n].free = r[n].free /\ g[n].prev_free = TRUE
    BY DEF Header
  <2> HIDE DEF n
  <2>5. /\ Nx(g, b) = rest /\ Nx(g, rest) = n
        /\ g[rest].size \in Nat /\ g[rest].size >= 8
    <3>1. Nx(g, b) = b + 8 + g[b].size /\ Nx(g, rest) = rest + 8 + g[rest].size
      BY DEF Nx
    <3>2. g[b].size = size /\ g[rest].size = r[b].size - size - 8
      BY Zenon, <2>4
    <3>3. r[b].size - size - 8 \in Nat /\ r[b].size - size - 8 >= 8
      BY <2>2
    <3>4. Nx(g, b) = rest
      BY Zenon, <3>1, <3>2
    <3>5. rest + 8 + (r[b].size - size - 8) = n
      BY <2>2
    <3>6. Nx(g, rest) = n
      BY Zenon, <3>1, <3>2, <3>5
    <3> QED BY Zenon, <3>2, <3>3, <3>4, <3>6
  <2>6. \A x \in DOMAIN r : x # b => Nx(g, x) = Nx(r, x) /\ g[x].size = r[x].size /\ g[x].free = r[x].free
    <3> TAKE x \in DOMAIN r
    <3> HAVE x # b
    <3>1. g[x].size = r[x].size /\ g[x].free = r[x].free
      BY Zenon, <2>4 DEF n
    <3> QED BY <3>1 DEF Nx
  <2>7. \A x \in DOMAIN r : x # n => g[x].prev_free = r[x].prev_free /\ g[x].prev_hdr = r[x].prev_hdr
    BY Zenon, <2>4 DEF n
  <2>8. \A x \in DOMAIN r \ {LastBlock} : x # b => Nx(r, x) \in DOMAIN r /\ Nx(r, x) # n
    BY <2>1 DEF n, Headers
  <2>9. \A x \in DOMAIN g :
          g[x].prev_hdr \in Int /\ g[x].size \in Nat /\ g[x].free \in BOOLEAN /\ g[x].prev_free \in BOOLEAN
    <3> TAKE x \in DOMAIN g
    <3>1. CASE x = rest
      <4>1. g[rest].prev_hdr \in Int
        BY DEF Header
      <4>2. g[rest].free \in BOOLEAN /\ g[rest].prev_free \in BOOLEAN
        BY <2>4, Zenon
      <4> QED BY Zenon, <2>5, <3>1, <4>1, <4>2
    <3>2. CASE x \in DOMAIN r
      <4>1. g[x].size \in Nat /\ g[x].free \in BOOLEAN
        BY Zenon, <2>4, <2>6, <3>2 DEF Headers
      <4>2. g[x].prev_hdr \in Int /\ g[x].prev_free \in BOOLEAN
        <5>1. CASE x = n
          BY Zenon, <2>3, <2>4, <5>1
        <5>2. CASE x # n
          BY <2>7, <3>2, <5>2 DEF Headers
        <5> QED BY <5>1, <5>2
      <4> QED BY <4>1, <4>2
    <3> QED BY <3>1, <3>2
  <2>10. /\ DOMAIN g \subseteq FirstBlock .. LastBlock
         /\ FirstBlock \in DOMAIN g /\ LastBlock \in DOMAIN g
         /\ ~ g[FirstBlock].free /\ ~ g[FirstBlock].prev_free /\ ~ g[LastBlock].free
    <3>1. rest \in FirstBlock .. LastBlock
      BY <2>2, <2>3
    <3> QED BY <2>3, <2>4, <2>6, <2>7, <3>1 DEF Headers
  <2>11. ASSUME NEW x \in DOMAIN g \ {LastBlock}
         PROVE  /\ g[x].size >= 8 /\ Nx(g, x) \in DOMAIN g
                /\ \A y \in DOMAIN g : y > x => y >= Nx(g, x)
    <3>1. CASE x = rest
      <4>1. \A y \in DOMAIN g : y > rest => y >= n
        BY <2>1, <2>2, <2>3
      <4> QED BY Zenon, <2>2, <2>5, <3>1, <4>1
    <3>2. CASE x = b
      <4>1. \A y \in DOMAIN g : y > b => y >= rest
        BY <2>1, <2>2, <2>3
      <4> QED BY Zenon, <2>4, <2>5, <3>2, <4>1
    <3>3. CASE x \in DOMAIN r /\ x # b
      <4>1. /\ r[x].size >= 8 /\ Nx(r, x) \in DOMAIN r
            /\ \A y \in DOMAIN r : y > x => y >= Nx(r, x)
        BY <3>3 DEF Headers
      <4>2. rest > x => rest >= Nx(r, x)
        <5>1. rest > x => x < n /\ ~ (x > b)
          BY <2>1, <2>2, <2>3, <3>3
        <5>2. rest > x => b > x
          BY <2>1, <2>2, <3>3, <5>1
        <5>3. rest > x => b >= Nx(r, x)
          BY <4>1, <5>2
        <5> QED BY <2>1, <2>2, <2>3, <3>3, <5>3
      <4> QED BY <2>6, <3>3, <4>1, <4>2
    <3> QED BY <3>1, <3>2, <3>3
  <2>12. ASSUME NEW x \in DOMAIN g \ {FirstBlock}
         PROVE  \E q \in DOMAIN g \ {LastBlock} : Nx(g, q) = x
    <3>1. CASE x = rest
      BY <2>5, <3>1
    <3>2. CASE x = n
      <4>1. rest \in DOMAIN g \ {LastBlock}
        BY <2>2, <2>3
      <4> QED BY <2>5, <3>2, <4>1
    <3>3. CASE x \in DOMAIN r /\ x # n
      <4>1. PICK q \in DOMAIN r \ {LastBlock} : Nx(r, q) = x
        BY <3>3 DEF Headers
      <4> QED BY <2>6, <3>3, <4>1 DEF n
    <3> QED BY <3>1, <3>2, <3>3
  <2>13. ASSUME NEW x \in DOMAIN g \ {LastBlock}
         PROVE  /\ g[Nx(g, x)].prev_free <=> g[x].free
                /\ g[x].free => g[Nx(g, x)].prev_hdr = x
    <3>1. CASE x = b \/ x = rest
      BY Zenon, <2>4, <2>5, <3>1
    <3>2. CASE x \in DOMAIN r /\ x # b
      <4>1. Nx(g, x) = Nx(r, x) /\ Nx(r, x) \in DOMAIN r /\ Nx(r, x) # n
        BY <2>6, <2>8, <3>2
      <4>2. /\ r[Nx(r, x)].prev_free <=> r[x].free
            /\ r[x].free => r[Nx(r, x)].prev_hdr = x
        BY <3>2 DEF Headers
      <4> QED BY <2>6, <2>7, <3>2, <4>1, <4>2
    <3> QED BY <3>1, <3>2
  <2>14. ASSUME NEW x \in DOMAIN g \ {LastBlock}
         PROVE  ~ (g[x].free /\ g[Nx(g, x)].free)
    <3>1. CASE x = b
      BY Zenon, <2>4, <3>1
    <3>2. CASE x = rest
      BY Zenon, <2>4, <2>5, <3>2 DEF n
    <3>3. CASE x \in DOMAIN r /\ x # b /\ Nx(r, x) = b
      BY Zenon, <2>4, <2>6, <3>3
    <3>4. CASE x \in DOMAIN r /\ x # b /\ Nx(r, x) # b
      <4>1. ~ (r[x].free /\ r[Nx(r, x)].free)
        BY <3>4 DEF Headers
      <4> QED BY <2>6, <2>8, <3>4, <4>1
    <3> QED BY <3>1, <3>2, <3>3, <3>4
  <2> QED BY <2>3, <2>9, <2>10, <2>11, <2>12, <2>13, <2>14 DEF Headers
<1> DEFINE r    == h.hdr
           rest == b + 8 + size
           n    == Next_b(h, b)
           cut  == WithHeaders(h, [x \in DOMAIN r \cup {rest} |->
                     IF x = rest THEN Header(0, r[b].size - size - 8, TRUE, FALSE)
                     ELSE IF x = b
                     THEN Header(r[b].prev_hdr, size, FALSE, r[b].prev_free)
                     ELSE IF x = n
                     THEN Header(rest, r[n].size, r[n].free, TRUE)
                     ELSE r[x]])
           g    == INSERT_BLOCK(cut, rest)
<1>1. Split(h, b, size) = g
  BY DEF Split, GET_NEXT_BLOCK, BHDR_OVERHEAD
<1>2. n = Nx(r, b) /\ Headers(r, b)
  BY DEF Next_b, GET_NEXT_BLOCK, BHDR_OVERHEAD, Nx, Loose
<1>3. /\ b \in Int /\ b >= 3184 /\ n \in DOMAIN r /\ n \in Int /\ n = b + 8 + r[b].size
      /\ r[b].size \in Nat /\ \A y \in DOMAIN r : y \in Int /\ y # 0 /\ (y > b => y >= n)
  <2>1. /\ b \in Int /\ b >= 3184 /\ n \in Int
        /\ \A y \in DOMAIN r : y \in Int /\ y # 0
    BY <1>2, HeaderFacts
  <2>2. n \in DOMAIN r /\ r[b].size \in Nat /\ \A y \in DOMAIN r : y > b => y >= n
    BY <1>2 DEF Headers
  <2> QED BY <1>2, <2>1, <2>2 DEF Nx
<1>4. rest \in Int /\ rest > b /\ rest < n /\ rest \notin DOMAIN r /\ rest # FirstBlock /\ rest # LastBlock /\ rest # 0
  BY <1>2, <1>3 DEF Headers
<1>5. /\ DOMAIN cut.hdr = DOMAIN r \cup {rest}
      /\ cut.hdr[rest] = Header(0, r[b].size - size - 8, TRUE, FALSE)
      /\ cut.hdr[b] = Header(r[b].prev_hdr, size, FALSE, r[b].prev_free)
      /\ cut.hdr[n] = Header(rest, r[n].size, r[n].free, TRUE)
      /\ \A x \in DOMAIN r : x # b /\ x # n => cut.hdr[x] = r[x]
      /\ cut.matrix = h.matrix /\ cut.sl_bitmap = h.sl_bitmap /\ cut.fl_bitmap = h.fl_bitmap
  <2>1. rest # b /\ rest # n /\ n # b /\ n \in DOMAIN r /\ b \in DOMAIN r /\ rest \notin DOMAIN r
    BY <1>3, <1>4
  <2> HIDE DEF rest, n, r
  <2> QED BY <2>1, Zenon DEF WithHeaders
<1> HIDE DEF cut, n
<1>6. Headers(cut.hdr, Null)
  <2>1. Halved(r, b, size, cut.hdr)
    BY <1>2, <1>5 DEF Halved
  <2>2. b \in DOMAIN r \ {FirstBlock, LastBlock} /\ ~ r[n].free /\ r[b].size - size >= 16
    BY DEF n
  <2> HIDE DEF r
  <2> QED BY <1>2, <2>1, <2>2, <1>hdr
<1>7. /\ cut.hdr[b].size = size /\ cut.hdr[b].free = FALSE
      /\ cut.hdr[rest].free = TRUE
      /\ \A x \in DOMAIN r : x # b => cut.hdr[x].size = r[x].size /\ cut.hdr[x].free = r[x].free
  <2>1. cut.hdr[n].size = r[n].size /\ cut.hdr[n].free = r[n].free
    BY <1>5 DEF Header
  <2>2. cut.hdr[b].size = size /\ cut.hdr[b].free = FALSE /\ cut.hdr[rest].free = TRUE
    BY <1>5 DEF Header
  <2> QED BY Zenon, <1>5, <2>1, <2>2
<1>8. FreeBlocks(cut, Null) = FreeBlocks(h, b) \cup {rest}
  <2>1. DOMAIN cut.hdr = DOMAIN r \cup {rest} /\ rest # 0 /\ b \in DOMAIN r /\ 0 \notin DOMAIN r
        /\ rest \notin DOMAIN r
    BY <1>3, <1>4, <1>5
  <2> HIDE DEF rest, r
  <2>2. \A x \in DOMAIN r : x # b => cut.hdr[x].free = r[x].free
    BY <1>7
  <2>3. cut.hdr[rest].free /\ ~ cut.hdr[b].free
    BY <1>7
  <2>4. FreeBlocks(h, b) = {x \in DOMAIN r : x # b /\ r[x].free}
    BY DEF FreeBlocks, r
  <2>5. FreeBlocks(cut, Null) = {x \in DOMAIN r \cup {rest} : x # 0 /\ cut.hdr[x].free}
    BY <2>1 DEF FreeBlocks, Null
  <2> QED BY <2>1, <2>2, <2>3, <2>4, <2>5
<1>9. Lists(cut, FreeBlocks(h, b))
  <2>1. \A x \in FreeBlocks(h, b) : cut.hdr[x].size = h.hdr[x].size
    BY <1>7 DEF FreeBlocks
  <2>2. Lists(h, FreeBlocks(h, b))
    BY DEF Loose
  <2> QED BY <1>5, <2>1, <2>2, Relist
<1>10. Lists(g, FreeBlocks(h, b) \cup {rest}) /\ g.hdr = cut.hdr
  <2>1. Cell(cut, rest) \in Cells
    <3>1. rest \in DOMAIN cut.hdr \ {LastBlock}
      BY <1>4, <1>5
    <3> QED BY <1>6, <1>7, <3>1, HeaderFacts DEF Cell
  <2>2. rest \notin FreeBlocks(h, b)
    BY <1>4 DEF FreeBlocks
  <2> QED BY <1>4, <1>9, <2>1, <2>2, Insert
<1> HIDE DEF g
<1>11. Good(g)
  <2>1. FreeBlocks(g, Null) = FreeBlocks(cut, Null)
    BY <1>10 DEF FreeBlocks
  <2> QED BY <1>6, <1>8, <1>10, <2>1 DEF Good, Loose
<1>12. SameUsed(h, g, b) /\ b \in Used(g) /\ g.hdr[b].size = size
  <2>1. DOMAIN g.hdr = DOMAIN r \cup {rest} /\ b \in DOMAIN g.hdr
    BY <1>5, <1>10
  <2> QED BY <1>7, <1>10, <2>1 DEF SameUsed, Used
<1> QED BY <1>1, <1>11, <1>12
============================================================================
