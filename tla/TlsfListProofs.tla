-------------------------- MODULE TlsfListProofs ---------------------------
(***************************************************************************)
(* The free lists of Tlsf as a set of blocks, what taking a block off them *)
(* and putting it back does to that set, and the well formed heap: with no *)
(* block loose, or with the one an operation has in hand.                  *)
(***************************************************************************)
EXTENDS TlsfSizeProofs

Cell(h, b) == MAPPING_INSERT(h.hdr[b].size)

(* The lists hold the blocks of S, each once and in the list of its size.  *)
Members(h, S) ==
  /\ \A c \in DOMAIN h.matrix :
       /\ h.matrix[c] \in Seq(Int) /\ h.matrix[c] # << >>
       /\ \A i \in 1 .. Len(h.matrix[c]) :
            h.matrix[c][i] \in S /\ Cell(h, h.matrix[c][i]) = c
       /\ \A i, j \in 1 .. Len(h.matrix[c]) : h.matrix[c][i] = h.matrix[c][j] => i = j
  /\ \A b \in S : \E i \in 1 .. Len(FreeList(h, Cell(h, b))) : FreeList(h, Cell(h, b))[i] = b

Lists(h, S) == Bitmaps(h) /\ Members(h, S)

(* List new is list old without block b.                                   *)
Loses(old, new, b) ==
  /\ new \in Seq(Int)
  /\ \A i \in 1 .. Len(new) : new[i] # b /\ \E j \in 1 .. Len(old) : new[i] = old[j]
  /\ \A j \in 1 .. Len(old) : old[j] # b => \E i \in 1 .. Len(new) : new[i] = old[j]
  /\ \A i, j \in 1 .. Len(new) : new[i] = new[j] => i = j

(* EXTRACT_BLOCK, and EXTRACT_BLOCK_HDR of the head of a list, take block  *)
(* b off the lists and leave the others.                                   *)
LEMMA Extract ==
  ASSUME NEW h, NEW S, Lists(h, S), NEW b \in S, Cell(h, b) \in Cells
  PROVE  /\ Lists(EXTRACT_BLOCK(h, b), S \ {b}) /\ EXTRACT_BLOCK(h, b).hdr = h.hdr
         /\ FreeList(h, Cell(h, b))[1] = b =>
              /\ Lists(EXTRACT_BLOCK_HDR(h, b, Cell(h, b)), S \ {b})
              /\ EXTRACT_BLOCK_HDR(h, b, Cell(h, b)).hdr = h.hdr
<1>cut. ASSUME NEW c \in Cells, c = Cell(h, b), NEW list, Loses(FreeList(h, c), list, b)
      PROVE  Lists(SetList(h, c, list), S \ {b}) /\ SetList(h, c, list).hdr = h.hdr
  <2> USE <1>cut
  <2> DEFINE g   == SetList(h, c, list)
             row == IF list = << >> THEN h.sl_bitmap[c[1]] \ {c[2]} ELSE h.sl_bitmap[c[1]]
  <2>1. /\ g.hdr = h.hdr
        /\ g.matrix = WithList(h, c, list)
        /\ g.sl_bitmap = [h.sl_bitmap EXCEPT ![c[1]] = row]
        /\ g.fl_bitmap = IF row = {} THEN h.fl_bitmap \ {c[1]} ELSE h.fl_bitmap
    BY SMTT(30) DEF SetList, WithLists
  <2> HIDE DEF g
  <2>2. \A x : Cell(g, x) = Cell(h, x)
    BY Zenon, <2>1 DEF Cell
  <2>3. c[1] \in 0 .. REAL_FLI - 1 /\ c[2] \in 0 .. MAX_SLI - 1 /\ c = <<c[1], c[2]>>
    BY DEF Cells
  <2>4. c \in DOMAIN h.matrix /\ FreeList(h, c) = h.matrix[c]
    <3>1. \E i \in 1 .. Len(FreeList(h, c)) : FreeList(h, c)[i] = b
      BY DEF Lists, Members
    <3>2. FreeList(h, c) # << >>
      BY <3>1
    <3> QED BY <3>2 DEF FreeList
  <2>5. /\ DOMAIN g.matrix = IF list = << >> THEN DOMAIN h.matrix \ {c} ELSE DOMAIN h.matrix
        /\ \A d \in DOMAIN g.matrix : g.matrix[d] = IF d = c THEN list ELSE h.matrix[d]
    <3> DEFINE D == IF list = << >> THEN DOMAIN h.matrix \ {c} ELSE DOMAIN h.matrix \cup {c}
    <3>1. g.matrix = [d \in D |-> IF d = c THEN list ELSE h.matrix[d]]
      BY <2>1 DEF WithList
    <3>2. D = IF list = << >> THEN DOMAIN h.matrix \ {c} ELSE DOMAIN h.matrix
      BY Zenon, <2>4
    <3> HIDE DEF D
    <3>3. DOMAIN g.matrix = D /\ \A d \in D : g.matrix[d] = IF d = c THEN list ELSE h.matrix[d]
      BY <3>1
    <3> QED BY <3>2, <3>3
  <2>6. Bitmaps(g)
    <3>1. DOMAIN g.matrix \subseteq Cells
      BY <2>5 DEF Lists, Bitmaps
    <3>2. /\ g.sl_bitmap \in [0 .. REAL_FLI - 1 -> SUBSET (0 .. MAX_SLI - 1)]
          /\ \A f \in 0 .. REAL_FLI - 1 : g.sl_bitmap[f] = IF f = c[1] THEN row ELSE h.sl_bitmap[f]
      <4>1. row \in SUBSET (0 .. MAX_SLI - 1)
        BY Zenon, <2>3 DEF Lists, Bitmaps
      <4> DEFINE rows == 0 .. REAL_FLI - 1
                 bits == SUBSET (0 .. MAX_SLI - 1)
      <4>2. h.sl_bitmap \in [rows -> bits] /\ c[1] \in rows
        BY <2>3 DEF Lists, Bitmaps
      <4> HIDE DEF row, rows, bits
      <4>3. /\ [h.sl_bitmap EXCEPT ![c[1]] = row] \in [rows -> bits]
            /\ \A f \in rows : [h.sl_bitmap EXCEPT ![c[1]] = row][f]
                               = IF f = c[1] THEN row ELSE h.sl_bitmap[f]
        BY <4>1, <4>2 DEF bits
      <4> QED BY <2>1, <4>3 DEF rows, bits
    <3>3. g.fl_bitmap \subseteq 0 .. REAL_FLI - 1
      BY <2>1 DEF Lists, Bitmaps
    <3>4. ASSUME NEW f \in 0 .. REAL_FLI - 1
          PROVE  f \in g.fl_bitmap <=> g.sl_bitmap[f] # {}
      <4>1. f \in h.fl_bitmap <=> h.sl_bitmap[f] # {}
        BY DEF Lists, Bitmaps
      <4>2. CASE f # c[1]
        BY <2>1, <3>2, <4>1, <4>2
      <4>3. CASE f = c[1]
        <5>1. g.sl_bitmap[f] = row
          BY Zenon, <3>2, <4>3
        <5>2. row # {} => h.sl_bitmap[f] # {}
          BY <4>3
        <5> HIDE DEF row, g
        <5> QED BY <2>1, <4>1, <4>3, <5>1, <5>2
      <4> QED BY <4>2, <4>3
    <3>5. ASSUME NEW d \in Cells
          PROVE  d[2] \in g.sl_bitmap[d[1]] <=> d \in DOMAIN g.matrix
      <4>1. d[2] \in h.sl_bitmap[d[1]] <=> d \in DOMAIN h.matrix
        BY DEF Lists, Bitmaps
      <4>2. d[1] \in 0 .. REAL_FLI - 1 /\ d = <<d[1], d[2]>>
        BY DEF Cells
      <4>3. d = c <=> d[1] = c[1] /\ d[2] = c[2]
        BY <2>3, <4>2
      <4>4. g.sl_bitmap[d[1]] = IF d[1] = c[1] THEN row ELSE h.sl_bitmap[d[1]]
        BY Zenon, <3>2, <4>2
      <4> QED BY <2>4, <2>5, <4>1, <4>3, <4>4
    <3> QED BY <3>1, <3>2, <3>3, <3>4, <3>5 DEF Bitmaps
  <2>7. ASSUME NEW d \in DOMAIN g.matrix
        PROVE  /\ g.matrix[d] \in Seq(Int) /\ g.matrix[d] # << >>
               /\ \A i \in 1 .. Len(g.matrix[d]) :
                    g.matrix[d][i] \in S \ {b} /\ Cell(g, g.matrix[d][i]) = d
               /\ \A i, j \in 1 .. Len(g.matrix[d]) : g.matrix[d][i] = g.matrix[d][j] => i = j
    <3>1. CASE d = c
      <4>1. g.matrix[d] = list /\ list # << >>
        BY <2>5, <3>1
      <4>2. ASSUME NEW i \in 1 .. Len(list) PROVE list[i] \in S \ {b} /\ Cell(g, list[i]) = d
        <5>1. PICK j \in 1 .. Len(FreeList(h, c)) : list[i] = FreeList(h, c)[j]
          BY DEF Loses
        <5>2. list[i] # b
          BY DEF Loses
        <5> QED BY <5>1, <5>2, <2>2, <2>4, <3>1 DEF Lists, Members
      <4> QED BY <4>1, <4>2 DEF Loses
    <3>2. CASE d # c
      <4>1. d \in DOMAIN h.matrix /\ g.matrix[d] = h.matrix[d]
        BY <2>5, <3>2
      <4>2. \A i \in 1 .. Len(h.matrix[d]) : h.matrix[d][i] # b
        BY <4>1, <3>2 DEF Lists, Members
      <4> QED BY Zenon, <2>2, <4>1, <4>2 DEF Lists, Members
    <3> QED BY <3>1, <3>2
  <2>8. ASSUME NEW x \in S \ {b}
        PROVE  \E i \in 1 .. Len(FreeList(g, Cell(g, x))) : FreeList(g, Cell(g, x))[i] = x
    <3>1. PICK j \in 1 .. Len(FreeList(h, Cell(h, x))) : FreeList(h, Cell(h, x))[j] = x
      BY DEF Lists, Members
    <3>2. CASE Cell(h, x) = c
      <4>1. PICK i \in 1 .. Len(list) : list[i] = x
        BY Zenon, <3>1, <3>2 DEF Loses
      <4>2. FreeList(g, c) = list
        BY <2>4, <2>5, <4>1 DEF FreeList, Loses
      <4> QED BY <2>2, <3>2, <4>1, <4>2
    <3>3. CASE Cell(h, x) # c
      <4>1. FreeList(g, Cell(h, x)) = FreeList(h, Cell(h, x))
        BY <2>5, <3>3 DEF FreeList
      <4> QED BY <2>2, <3>1, <4>1
    <3> QED BY <3>2, <3>3
  <2> QED BY <2>1, <2>6, <2>7, <2>8 DEF Lists, Members, g
<1> DEFINE c == Cell(h, b)
           L == FreeList(h, c)
           k == CHOOSE i \in 1 .. Len(L) : L[i] = b
           N == [i \in 1 .. Len(L) - 1 |-> IF i < k THEN L[i] ELSE L[i + 1]]
<1>1. \E i \in 1 .. Len(L) : L[i] = b
  BY DEF Lists, Members
<1>2. L # << >> /\ c \in DOMAIN h.matrix /\ L = h.matrix[c]
  <2>1. L # << >>
    BY <1>1
  <2> QED BY <2>1 DEF FreeList
<1>3. /\ L \in Seq(Int)
      /\ \A i, j \in 1 .. Len(L) : L[i] = L[j] => i = j
  BY <1>2 DEF Lists, Members
<1>4. k \in 1 .. Len(L) /\ L[k] = b
  BY <1>1
<1>5. EXTRACT_BLOCK(h, b) = SetList(h, c, N)
  BY DEF EXTRACT_BLOCK, Cell
<1>6. L[1] = b => EXTRACT_BLOCK_HDR(h, b, c) = SetList(h, c, Tail(L))
  BY <1>2 DEF EXTRACT_BLOCK_HDR
<1>7. c \in Cells
  OBVIOUS
<1> HIDE DEF k, L, c
<1>8. /\ N \in Seq(Int) /\ Len(N) = Len(L) - 1
      /\ \A i \in 1 .. Len(L) - 1 : N[i] = IF i < k THEN L[i] ELSE L[i + 1]
  BY <1>3, <1>4
<1> HIDE DEF N
<1>9. \A i \in 1 .. Len(N) : N[i] # b /\ \E j \in 1 .. Len(L) : N[i] = L[j]
  <2> TAKE i \in 1 .. Len(N)
  <2>1. CASE i < k
    BY SMTT(30), <1>3, <1>4, <1>8, <2>1
  <2>2. CASE i >= k
    <3>1. N[i] = L[i + 1] /\ i + 1 \in 1 .. Len(L) /\ i + 1 # k
      BY <1>3, <1>4, <1>8, <2>2
    <3> QED BY <1>3, <1>4, <3>1
  <2> QED BY <2>1, <2>2, <1>3, <1>4
<1>10. \A j \in 1 .. Len(L) : L[j] # b => \E i \in 1 .. Len(N) : N[i] = L[j]
  <2> TAKE j \in 1 .. Len(L)
  <2> HAVE L[j] # b
  <2>1. CASE j < k
    <3>1. j \in 1 .. Len(N) /\ N[j] = L[j]
      BY <1>3, <1>4, <1>8, <2>1
    <3> QED BY <3>1
  <2>2. CASE j > k
    <3>1. j - 1 \in 1 .. Len(N) /\ N[j - 1] = L[(j - 1) + 1]
      BY <1>3, <1>4, <1>8, <2>2
    <3> QED BY <3>1
  <2> QED BY <2>1, <2>2, <1>3, <1>4
<1>11. \A i, j \in 1 .. Len(N) : N[i] = N[j] => i = j
  <2> TAKE i, j \in 1 .. Len(N)
  <2> HAVE N[i] = N[j]
  <2> DEFINE up(n) == IF n < k THEN n ELSE n + 1
  <2>1. ASSUME NEW n \in 1 .. Len(N) PROVE up(n) \in 1 .. Len(L) /\ N[n] = L[up(n)]
    <3>1. CASE n < k
      <4>1. n \in 1 .. Len(L) - 1 /\ up(n) = n
        BY <1>8, <3>1
      <4>2. N[n] = L[n]
        BY <1>8, <3>1, <4>1
      <4> QED BY <1>3, <4>1, <4>2
    <3>2. CASE ~(n < k)
      <4>1. n \in 1 .. Len(L) - 1 /\ up(n) = n + 1
        BY <1>8, <3>2
      <4>2. N[n] = L[n + 1]
        BY <1>8, <3>2, <4>1
      <4> QED BY <1>3, <4>1, <4>2
    <3> QED BY <3>1, <3>2
  <2>2. up(i) = up(j)
    <3> HIDE DEF up
    <3> QED BY <2>1, <1>3
  <2>3. i \in Int /\ j \in Int /\ k \in Int
    BY <1>4, <1>8
  <2> QED BY <2>2, <2>3
<1>12. Lists(EXTRACT_BLOCK(h, b), S \ {b}) /\ EXTRACT_BLOCK(h, b).hdr = h.hdr
  <2>1. Loses(L, N, b)
    BY Zenon, <1>8, <1>9, <1>10, <1>11 DEF Loses
  <2> QED BY <1>5, <1>7, <2>1, <1>cut DEF c, L
<1>13. ASSUME L[1] = b
       PROVE  /\ Lists(EXTRACT_BLOCK_HDR(h, b, c), S \ {b})
              /\ EXTRACT_BLOCK_HDR(h, b, c).hdr = h.hdr
  <2> DEFINE T == Tail(L)
  <2>1. /\ T \in Seq(Int) /\ Len(T) = Len(L) - 1
        /\ \A i \in 1 .. Len(T) : T[i] = L[i + 1] /\ i + 1 \in 1 .. Len(L)
    BY <1>2, <1>3
  <2> HIDE DEF T
  <2>2. k = 1
    BY <1>3, <1>4, <1>13
  <2>3. \A i \in 1 .. Len(T) : T[i] # b /\ \E j \in 1 .. Len(L) : T[i] = L[j]
    BY SMTT(30), <2>1, <2>2, <1>3, <1>4
  <2>4. \A j \in 1 .. Len(L) : L[j] # b => \E i \in 1 .. Len(T) : T[i] = L[j]
    <3> TAKE j \in 1 .. Len(L)
    <3> HAVE L[j] # b
    <3>1. j - 1 \in 1 .. Len(T) /\ T[j - 1] = L[(j - 1) + 1]
      BY <2>1, <1>3, <1>13
    <3> QED BY <3>1
  <2>5. \A i, j \in 1 .. Len(T) : T[i] = T[j] => i = j
    <3> TAKE i, j \in 1 .. Len(T)
    <3> HAVE T[i] = T[j]
    <3>1. L[i + 1] = L[j + 1] /\ i + 1 \in 1 .. Len(L) /\ j + 1 \in 1 .. Len(L)
      BY <2>1
    <3>2. i + 1 = j + 1
      BY <1>3, <3>1
    <3> QED BY <3>2
  <2>6. EXTRACT_BLOCK_HDR(h, b, c) = SetList(h, c, T)
    BY <1>6, <1>13 DEF T
  <2>7. Loses(L, T, b)
    BY <2>1, <2>3, <2>4, <2>5 DEF Loses
  <2> QED BY <1>7, <2>6, <2>7, <1>cut DEF c, L
<1> QED BY <1>12, <1>13 DEF c, L

(* INSERT_BLOCK puts block b on the list of its size.                      *)
LEMMA Insert ==
  ASSUME NEW h, NEW S, Lists(h, S), NEW b \in Int, b \notin S, Cell(h, b) \in Cells
  PROVE  Lists(INSERT_BLOCK(h, b), S \cup {b}) /\ INSERT_BLOCK(h, b).hdr = h.hdr
<1> DEFINE g    == INSERT_BLOCK(h, b)
           c    == Cell(h, b)
           L    == FreeList(h, c)
           list == <<b>> \o L
           row  == h.sl_bitmap[c[1]] \cup {c[2]}
<1>0. c \in Cells
  OBVIOUS
<1>1. /\ g.hdr = h.hdr
      /\ g.matrix = WithList(h, c, list)
      /\ g.sl_bitmap = [h.sl_bitmap EXCEPT ![c[1]] = row]
      /\ g.fl_bitmap = h.fl_bitmap \cup {c[1]}
  BY DEF INSERT_BLOCK, WithLists, Cell
<1>2. \A x : Cell(g, x) = Cell(h, x)
  BY <1>1 DEF Cell
<1> HIDE DEF c, g
<1>3. c[1] \in 0 .. REAL_FLI - 1 /\ c[2] \in 0 .. MAX_SLI - 1 /\ c = <<c[1], c[2]>>
  BY <1>0 DEF Cells
<1>4. /\ L \in Seq(Int)
      /\ \A i \in 1 .. Len(L) : L[i] \in S /\ Cell(h, L[i]) = c
      /\ \A i, j \in 1 .. Len(L) : L[i] = L[j] => i = j
  <2>1. CASE c \in DOMAIN h.matrix
    BY <2>1 DEF Lists, Members, FreeList
  <2>2. CASE c \notin DOMAIN h.matrix
    BY <2>2 DEF FreeList
  <2> QED BY <2>1, <2>2
<1> HIDE DEF L
<1>5. /\ list \in Seq(Int) /\ Len(list) = Len(L) + 1 /\ list # << >>
      /\ list[1] = b /\ \A i \in 1 .. Len(L) : list[i + 1] = L[i]
      /\ \A i \in 1 .. Len(list) : i = 1 \/ (i - 1 \in 1 .. Len(L) /\ list[i] = L[i - 1])
  BY <1>4
<1> HIDE DEF list
<1>6. /\ DOMAIN g.matrix = DOMAIN h.matrix \cup {c}
      /\ \A d \in DOMAIN g.matrix : g.matrix[d] = IF d = c THEN list ELSE h.matrix[d]
  BY <1>1, <1>5 DEF WithList
<1>7. Bitmaps(g)
  <2>1. DOMAIN g.matrix \subseteq Cells
    BY <1>0, <1>6 DEF Lists, Bitmaps
  <2>2. /\ g.sl_bitmap \in [0 .. REAL_FLI - 1 -> SUBSET (0 .. MAX_SLI - 1)]
        /\ \A f \in 0 .. REAL_FLI - 1 : g.sl_bitmap[f] = IF f = c[1] THEN row ELSE h.sl_bitmap[f]
    <3>1. row \in SUBSET (0 .. MAX_SLI - 1)
      BY Zenon, <1>3 DEF Lists, Bitmaps
    <3> DEFINE rows == 0 .. REAL_FLI - 1
               bits == SUBSET (0 .. MAX_SLI - 1)
    <3>2. h.sl_bitmap \in [rows -> bits] /\ c[1] \in rows
      BY <1>3 DEF Lists, Bitmaps
    <3> HIDE DEF row, rows, bits
    <3>3. /\ [h.sl_bitmap EXCEPT ![c[1]] = row] \in [rows -> bits]
          /\ \A f \in rows : [h.sl_bitmap EXCEPT ![c[1]] = row][f]
                             = IF f = c[1] THEN row ELSE h.sl_bitmap[f]
      BY <3>1, <3>2 DEF bits
    <3> QED BY <1>1, <3>3 DEF rows, bits
  <2>3. g.fl_bitmap \subseteq 0 .. REAL_FLI - 1
    BY <1>1, <1>3 DEF Lists, Bitmaps
  <2>4. ASSUME NEW f \in 0 .. REAL_FLI - 1
        PROVE  f \in g.fl_bitmap <=> g.sl_bitmap[f] # {}
    <3>1. f \in h.fl_bitmap <=> h.sl_bitmap[f] # {}
      BY DEF Lists, Bitmaps
    <3> QED BY Zenon, <1>1, <2>2, <3>1
  <2>5. ASSUME NEW d \in Cells
        PROVE  d[2] \in g.sl_bitmap[d[1]] <=> d \in DOMAIN g.matrix
    <3>1. d[2] \in h.sl_bitmap[d[1]] <=> d \in DOMAIN h.matrix
      BY DEF Lists, Bitmaps
    <3>2. d[1] \in 0 .. REAL_FLI - 1 /\ d = <<d[1], d[2]>>
      BY DEF Cells
    <3>3. d = c <=> d[1] = c[1] /\ d[2] = c[2]
      BY <1>3, <3>2
    <3>4. g.sl_bitmap[d[1]] = IF d[1] = c[1] THEN row ELSE h.sl_bitmap[d[1]]
      BY Zenon, <2>2, <3>2
    <3> QED BY <1>6, <3>1, <3>3, <3>4
  <2> QED BY <2>1, <2>2, <2>3, <2>4, <2>5 DEF Bitmaps
<1>8. ASSUME NEW d \in DOMAIN g.matrix
      PROVE  /\ g.matrix[d] \in Seq(Int) /\ g.matrix[d] # << >>
             /\ \A i \in 1 .. Len(g.matrix[d]) :
                  g.matrix[d][i] \in S \cup {b} /\ Cell(g, g.matrix[d][i]) = d
             /\ \A i, j \in 1 .. Len(g.matrix[d]) : g.matrix[d][i] = g.matrix[d][j] => i = j
  <2>1. CASE d = c
    <3>1. g.matrix[d] = list
      BY <1>6, <2>1
    <3>2. \A i \in 1 .. Len(list) : list[i] \in S \cup {b} /\ Cell(g, list[i]) = d
      <4> TAKE i \in 1 .. Len(list)
      <4>1. CASE i = 1
        BY <1>2, <1>5, <2>1, <4>1 DEF c
      <4>2. CASE i # 1
        <5>1. i - 1 \in 1 .. Len(L) /\ list[i] = L[i - 1]
          BY <1>5, <4>2
        <5>2. L[i - 1] \in S /\ Cell(h, L[i - 1]) = c
          BY <1>4, <5>1
        <5> QED BY <1>2, <2>1, <5>1, <5>2
      <4> QED BY <4>1, <4>2
    <3>3. \A i, j \in 1 .. Len(list) : list[i] = list[j] => i = j
      <4> TAKE i, j \in 1 .. Len(list)
      <4> HAVE list[i] = list[j]
      <4>1. ASSUME NEW n \in 1 .. Len(list), n # 1
            PROVE  n - 1 \in 1 .. Len(L) /\ list[n] = L[n - 1] /\ list[n] # b
        <5>1. n - 1 \in 1 .. Len(L) /\ list[n] = L[n - 1]
          BY <1>5, <4>1
        <5>2. L[n - 1] \in S
          BY <1>4, <5>1
        <5> QED BY <5>1, <5>2
      <4>2. CASE i # 1 /\ j # 1
        <5>1. i - 1 = j - 1
          BY Zenon, <1>4, <4>1, <4>2
        <5> QED BY <5>1
      <4>3. CASE i = 1 \/ j = 1
        BY <1>5, <4>1, <4>3
      <4> QED BY <4>2, <4>3
    <3> QED BY <1>5, <3>1, <3>2, <3>3
  <2>2. CASE d # c
    <3>1. d \in DOMAIN h.matrix /\ g.matrix[d] = h.matrix[d]
      BY <1>6, <2>2
    <3> QED BY <1>2, <3>1 DEF Lists, Members
  <2> QED BY Zenon, <2>1, <2>2
<1>9. ASSUME NEW x \in S \cup {b}
      PROVE  \E i \in 1 .. Len(FreeList(g, Cell(g, x))) : FreeList(g, Cell(g, x))[i] = x
  <2>0. FreeList(g, c) = list
    BY <1>6 DEF FreeList
  <2>1. CASE x = b
    BY <1>2, <1>4, <1>5, <2>0, <2>1 DEF c
  <2>2. CASE x \in S /\ Cell(h, x) = c
    <3>1. PICK j \in 1 .. Len(L) : L[j] = x
      BY <2>2 DEF Lists, Members, L
    <3>2. j + 1 \in 1 .. Len(list) /\ list[j + 1] = x
      BY <1>4, <1>5, <3>1
    <3> QED BY <1>2, <2>0, <2>2, <3>2
  <2>3. CASE x \in S /\ Cell(h, x) # c
    <3>1. PICK j \in 1 .. Len(FreeList(h, Cell(h, x))) : FreeList(h, Cell(h, x))[j] = x
      BY <2>3 DEF Lists, Members
    <3>2. FreeList(g, Cell(h, x)) = FreeList(h, Cell(h, x))
      BY <1>6, <2>3 DEF FreeList
    <3> QED BY <1>2, <3>1, <3>2
  <2> QED BY <2>1, <2>2, <2>3
<1> QED BY <1>1, <1>7, <1>8, <1>9 DEF Lists, Members, g

(***************************************************************************)
(* The headers.                                                            *)
(***************************************************************************)

Nx(r, b) == b + 8 + r[b].size

(* What holds of the headers r while an operation has block b loose: b is  *)
(* in no list, and neither the fields of the block after b nor the rule    *)
(* that neighbours are not both free has to be right about it.             *)
Headers(r, b) ==
  /\ \A x \in DOMAIN r :
       r[x].prev_hdr \in Int /\ r[x].size \in Nat /\ r[x].free \in BOOLEAN /\ r[x].prev_free \in BOOLEAN
  /\ DOMAIN r \subseteq FirstBlock .. LastBlock
  /\ FirstBlock \in DOMAIN r /\ LastBlock \in DOMAIN r
  /\ ~ r[FirstBlock].free /\ ~ r[FirstBlock].prev_free /\ ~ r[LastBlock].free
  /\ \A x \in DOMAIN r \ {LastBlock} :
       /\ r[x].size >= 8 /\ Nx(r, x) \in DOMAIN r
       /\ \A y \in DOMAIN r : y > x => y >= Nx(r, x)
  /\ \A x \in DOMAIN r \ {FirstBlock} : \E p \in DOMAIN r \ {LastBlock} : Nx(r, p) = x
  /\ \A x \in DOMAIN r \ {LastBlock} : x # b =>
       /\ r[Nx(r, x)].prev_free <=> r[x].free
       /\ r[x].free => r[Nx(r, x)].prev_hdr = x
  /\ \A x \in DOMAIN r \ {LastBlock} :
       x # b /\ Nx(r, x) # b => ~ (r[x].free /\ r[Nx(r, x)].free)

FreeBlocks(h, b) == {x \in DOMAIN h.hdr : x # b /\ h.hdr[x].free}

Loose(h, b) == Headers(h.hdr, b) /\ Lists(h, FreeBlocks(h, b))

(* No block is loose.                                                      *)
Good(h) == Loose(h, Null)

(* The blocks the program holds.                                           *)
Used(h) == {x \in DOMAIN h.hdr \ {FirstBlock, LastBlock} : ~ h.hdr[x].free}

(* From heap h to heap g, at most block b is taken or given back.          *)
SameUsed(h, g, b) ==
  /\ Used(g) \ {b} = Used(h) \ {b}
  /\ \A x \in Used(h) \ {b} : g.hdr[x].size = h.hdr[x].size

(* Where process_area puts its three blocks.                               *)
LEMMA Layout ==
  /\ FirstBlock = 3184 /\ AreaBlock = 3200
  /\ AreaSize \in Nat /\ AreaSize >= 8 /\ LastBlock = AreaSize + 3208
  /\ LastBlock \in Nat /\ LastBlock + 8 <= PoolSize /\ PoolSize \in Nat /\ PoolSize <= 2^29
<1> USE DEF BLOCK_ALIGN, SizeofTlsf, BHDR_OVERHEAD, MIN_BLOCK_SIZE
<1>1. FirstBlock = 3184 /\ AreaBlock = 3200
  BY DEF FirstBlock, AreaBlock, ROUNDUP_SIZE, GET_NEXT_BLOCK
<1>2. PoolSize \in Nat /\ PoolSize >= 3244 /\ PoolSize <= 2^29 /\ PoolSize % 8 = 0
  BY TlsfAssumption
<1>3. AreaSize \in Nat /\ AreaSize >= 8 /\ AreaSize + 3216 <= PoolSize
  BY <1>2 DEF AreaSize, ROUNDDOWN_SIZE
<1> QED BY <1>1, <1>2, <1>3 DEF LastBlock, GET_NEXT_BLOCK

(* Blocks follow each other, and a tag leads back to the block before.     *)
LEMMA HeaderFacts ==
  ASSUME NEW r, NEW b, Headers(r, b)
  PROVE  /\ \A x \in DOMAIN r : x \in Int /\ x >= 3184 /\ x <= LastBlock
         /\ \A x \in DOMAIN r \ {LastBlock} :
              Nx(r, x) \in Int /\ Nx(r, x) >= x + 16 /\ Nx(r, x) <= LastBlock /\ r[x].size < 2^29
         /\ \A x, y \in DOMAIN r \ {LastBlock} : Nx(r, x) = Nx(r, y) => x = y
         /\ \A x \in DOMAIN r : r[x].free => x # FirstBlock /\ x # LastBlock
         /\ \A x \in DOMAIN r \ {LastBlock} : r[x].free => MAPPING_INSERT(r[x].size) \in Cells
<1>1. \A x \in DOMAIN r : x \in Int /\ x >= 3184 /\ x <= LastBlock
  BY Layout DEF Headers
<1>2. ASSUME NEW x \in DOMAIN r \ {LastBlock}
      PROVE  Nx(r, x) \in Int /\ Nx(r, x) >= x + 16 /\ Nx(r, x) <= LastBlock /\ r[x].size < 2^29
  <2>1. r[x].size \in Nat /\ r[x].size >= 8 /\ Nx(r, x) \in DOMAIN r
    BY DEF Headers
  <2>2. Nx(r, x) \in Int /\ Nx(r, x) <= LastBlock
    BY <1>1, <2>1
  <2>3. x \in Int /\ x >= 3184
    BY <1>1
  <2> QED BY <2>1, <2>2, <2>3, Layout DEF Nx
<1>3. ASSUME NEW x \in DOMAIN r \ {LastBlock}, NEW y \in DOMAIN r \ {LastBlock},
             Nx(r, x) = Nx(r, y)
      PROVE  x = y
  <2>1. ASSUME NEW u \in DOMAIN r \ {LastBlock}, NEW v \in DOMAIN r \ {LastBlock}, v > u
        PROVE  Nx(r, u) < Nx(r, v)
    <3>1. v >= Nx(r, u)
      BY <2>1 DEF Headers
    <3> QED BY <1>1, <1>2, <3>1
  <2> QED BY <1>1, <1>2, <1>3, <2>1
<1>4. \A x \in DOMAIN r : r[x].free => x # FirstBlock /\ x # LastBlock
  BY DEF Headers
<1>5. ASSUME NEW x \in DOMAIN r \ {LastBlock} PROVE MAPPING_INSERT(r[x].size) \in Cells
  <2>1. r[x].size \in Nat /\ r[x].size < 2^30
    BY <1>2 DEF Headers
  <2> QED BY <2>1, Mapping
<1> QED BY <1>1, <1>2, <1>3, <1>4, <1>5

(* The loose block c has got its state v, free or not, and the block after *)
(* it was told.                                                            *)
Settled(r, c, v, g) ==
  /\ DOMAIN g = DOMAIN r
  /\ \A x \in DOMAIN r : x # c /\ x # Nx(r, c) => g[x] = r[x]
  /\ g[c].prev_hdr = r[c].prev_hdr /\ g[c].size = r[c].size
  /\ g[c].free = v /\ g[c].prev_free = r[c].prev_free
  /\ g[Nx(r, c)].prev_hdr \in Int /\ (v => g[Nx(r, c)].prev_hdr = c)
  /\ g[Nx(r, c)].size = r[Nx(r, c)].size
  /\ g[Nx(r, c)].free = r[Nx(r, c)].free /\ g[Nx(r, c)].prev_free = v

(* The loose block b has been cut: a used block of size bytes, and a free  *)
(* one behind it.                                                          *)
Halved(r, b, size, g) ==
  /\ DOMAIN g = DOMAIN r \cup {b + 8 + size}
  /\ g[b + 8 + size] = Header(0, r[b].size - size - 8, TRUE, FALSE)
  /\ g[b] = Header(r[b].prev_hdr, size, FALSE, r[b].prev_free)
  /\ g[Nx(r, b)] = Header(b + 8 + size, r[Nx(r, b)].size, r[Nx(r, b)].free, TRUE)
  /\ \A x \in DOMAIN r : x # b /\ x # Nx(r, b) => g[x] = r[x]

(***************************************************************************)
(* The operations on a heap with a loose block.                            *)
(***************************************************************************)

(* Headers that change and leave the sizes of the listed blocks alone.     *)
LEMMA Relist ==
  ASSUME NEW h, NEW S, Lists(h, S), NEW g,
         g.matrix = h.matrix, g.sl_bitmap = h.sl_bitmap, g.fl_bitmap = h.fl_bitmap,
         \A x \in S : g.hdr[x].size = h.hdr[x].size
  PROVE  Lists(g, S)
<1>1. Bitmaps(g)
  BY DEF Lists, Bitmaps
<1>2. \A x \in S : Cell(g, x) = Cell(h, x)
  BY DEF Cell
<1>3. \A c : FreeList(g, c) = FreeList(h, c)
  BY DEF FreeList
<1>4. \A c \in DOMAIN g.matrix :
        /\ g.matrix[c] \in Seq(Int) /\ g.matrix[c] # << >>
        /\ \A i \in 1 .. Len(g.matrix[c]) : g.matrix[c][i] \in S /\ Cell(g, g.matrix[c][i]) = c
        /\ \A i, j \in 1 .. Len(g.matrix[c]) : g.matrix[c][i] = g.matrix[c][j] => i = j
  BY SMTT(30), <1>2 DEF Lists, Members
<1>5. \A b \in S : \E i \in 1 .. Len(FreeList(g, Cell(g, b))) : FreeList(g, Cell(g, b))[i] = b
  BY <1>2, <1>3 DEF Lists, Members
<1> QED BY <1>1, <1>4, <1>5 DEF Lists, Members
============================================================================
