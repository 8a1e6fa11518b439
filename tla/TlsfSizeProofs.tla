-------------------------- MODULE TlsfSizeProofs ---------------------------
(***************************************************************************)
(* Proofs about the sizes and the bitmaps of Tlsf: what the two mappings   *)
(* of a size to a list promise, and what the search of the bitmaps finds.  *)
(***************************************************************************)
EXTENDS Tlsf, WellFoundedInduction, TLAPS

(* The powers of two up to 2^MAX_FLI, as a table.                          *)
Pow ==
  LET table == <<1, 2, 4, 8, 16, 32, 64, 128,
                 256, 512, 1024, 2048, 4096, 8192, 16384, 32768,
                 65536, 131072, 262144, 524288, 1048576, 2097152, 4194304, 8388608,
                 16777216, 33554432, 67108864, 134217728, 268435456, 536870912, 1073741824>>
  IN  [k \in 0 .. 30 |-> table[k + 1]]

(* What the proofs use of the powers of two: the shifts of MAPPING_SEARCH, *)
(* MAPPING_INSERT and ms_bit.                                              *)
LEMMA Power ==
  /\ \A k \in Nat : k < 30 => 2^k \in Nat /\ 2^k > 0 /\ 2^(k + 1) = 2 * 2^k
  /\ \A j, k \in Nat : j < k /\ k <= 30 => 2^(j + 1) <= 2^k
  /\ \A k \in Nat : 5 <= k /\ k <= 30 => 2^k = 32 * 2^(k - 5)
  /\ \A x \in Nat : x > 0 /\ x < 2^30 => \E k \in Nat : k < 30 /\ 2^k <= x /\ x < 2^(k + 1)
<1>1.
      /\ 2^0 = Pow[0]  /\ 2^1 = Pow[1]  /\ 2^2 = Pow[2]  /\ 2^3 = Pow[3]  /\ 2^4 = Pow[4] 
      /\ 2^5 = Pow[5]  /\ 2^6 = Pow[6]  /\ 2^7 = Pow[7]  /\ 2^8 = Pow[8]  /\ 2^9 = Pow[9] 
      /\ 2^10 = Pow[10]  /\ 2^11 = Pow[11]  /\ 2^12 = Pow[12]  /\ 2^13 = Pow[13]  /\ 2^14 = Pow[14] 
      /\ 2^15 = Pow[15]  /\ 2^16 = Pow[16]  /\ 2^17 = Pow[17]  /\ 2^18 = Pow[18]  /\ 2^19 = Pow[19] 
      /\ 2^20 = Pow[20]  /\ 2^21 = Pow[21]  /\ 2^22 = Pow[22]  /\ 2^23 = Pow[23]  /\ 2^24 = Pow[24] 
      /\ 2^25 = Pow[25]  /\ 2^26 = Pow[26]  /\ 2^27 = Pow[27]  /\ 2^28 = Pow[28]  /\ 2^29 = Pow[29] 
      /\ 2^30 = Pow[30] 
  BY DEF Pow
<1>2.
      /\ Pow[0] = 1  /\ Pow[1] = 2  /\ Pow[2] = 4  /\ Pow[3] = 8 
      /\ Pow[4] = 16  /\ Pow[5] = 32  /\ Pow[6] = 64  /\ Pow[7] = 128 
      /\ Pow[8] = 256  /\ Pow[9] = 512  /\ Pow[10] = 1024  /\ Pow[11] = 2048 
      /\ Pow[12] = 4096  /\ Pow[13] = 8192  /\ Pow[14] = 16384  /\ Pow[15] = 32768 
      /\ Pow[16] = 65536  /\ Pow[17] = 131072  /\ Pow[18] = 262144  /\ Pow[19] = 524288 
      /\ Pow[20] = 1048576  /\ Pow[21] = 2097152  /\ Pow[22] = 4194304  /\ Pow[23] = 8388608 
      /\ Pow[24] = 16777216  /\ Pow[25] = 33554432  /\ Pow[26] = 67108864  /\ Pow[27] = 134217728 
      /\ Pow[28] = 268435456  /\ Pow[29] = 536870912  /\ Pow[30] = 1073741824 
  BY DEF Pow
<1>3. ASSUME NEW k \in Nat, k <= 30
      PROVE
      \/ k = 0  \/ k = 1  \/ k = 2  \/ k = 3  \/ k = 4  \/ k = 5  \/ k = 6  \/ k = 7 
      \/ k = 8  \/ k = 9  \/ k = 10  \/ k = 11  \/ k = 12  \/ k = 13  \/ k = 14  \/ k = 15 
      \/ k = 16  \/ k = 17  \/ k = 18  \/ k = 19  \/ k = 20  \/ k = 21  \/ k = 22  \/ k = 23 
      \/ k = 24  \/ k = 25  \/ k = 26  \/ k = 27  \/ k = 28  \/ k = 29  \/ k = 30 
  BY <1>3
<1>4. ASSUME NEW k \in Nat, k <= 30 PROVE 2^k = Pow[k]
  BY <1>1, <1>3, <1>4, Zenon
<1>5. ASSUME NEW k \in Nat, k <= 30 PROVE Pow[k] \in Nat /\ Pow[k] > 0
  BY <1>2, <1>3, <1>5
<1>6. ASSUME NEW k \in Nat, k < 30 PROVE Pow[k + 1] = 2 * Pow[k]
  BY <1>2, <1>3, <1>6
<1>7. ASSUME NEW k \in Nat, k <= 30, NEW j \in Nat, j < k PROVE Pow[j + 1] <= Pow[k]
  BY <1>2, <1>3, <1>7
<1>8. ASSUME NEW k \in Nat, k <= 30, 5 <= k PROVE Pow[k] = 32 * Pow[k - 5]
  BY <1>2, <1>3, <1>8
<1>9. ASSUME NEW x \in Nat, x > 0, x < 1073741824
      PROVE  \E k \in Nat : k < 30 /\ Pow[k] <= x /\ x < Pow[k + 1]
  <2>1. \E k \in 0 .. 29 : Pow[k] <= x /\ x < Pow[k + 1]
    BY <1>2, <1>9
  <2> QED BY <2>1
<1>10. ASSUME NEW k \in Nat, k < 30 PROVE 2^k \in Nat /\ 2^k > 0 /\ 2^(k + 1) = 2 * 2^k
  <2>1. 2^k = Pow[k] /\ 2^(k + 1) = Pow[k + 1]
    BY <1>4, <1>10
  <2> QED BY <2>1, <1>5, <1>6, <1>10
<1>11. ASSUME NEW k \in Nat, k <= 30, NEW j \in Nat, j < k PROVE 2^(j + 1) <= 2^k
  <2>1. 2^k = Pow[k] /\ 2^(j + 1) = Pow[j + 1]
    BY <1>4, <1>11
  <2> QED BY <2>1, <1>7, <1>11
<1>12. ASSUME NEW k \in Nat, k <= 30, 5 <= k PROVE 2^k = 32 * 2^(k - 5)
  <2>1. 2^k = Pow[k] /\ 2^(k - 5) = Pow[k - 5]
    BY <1>4, <1>12
  <2> QED BY <2>1, <1>8, <1>12
<1>13. ASSUME NEW x \in Nat, x > 0, x < 2^30
       PROVE  \E k \in Nat : k < 30 /\ 2^k <= x /\ x < 2^(k + 1)
  <2>1. PICK k \in Nat : k < 30 /\ Pow[k] <= x /\ x < Pow[k + 1]
    BY <1>9, <1>13
  <2>2. 2^k = Pow[k] /\ 2^(k + 1) = Pow[k + 1]
    BY <1>4, <2>1
  <2> QED BY <2>1, <2>2
<1> QED BY <1>10, <1>11, <1>12, <1>13

Cells == (0 .. REAL_FLI - 1) \X (0 .. MAX_SLI - 1)

AtLeast(c, d) == c[1] > d[1] \/ (c[1] = d[1] /\ c[2] >= d[2])

(* What the two mappings promise: a search size is at least the request,   *)
(* and the lists from its cell on hold the blocks that are large enough,   *)
(* and only those.                                                         *)
LEMMA Mapping ==
  /\ \A s \in Nat : s < 2^30 => MAPPING_INSERT(s) \in Cells
  /\ \A size \in Nat : size <= 2^29 =>
       /\ Rounded(size) \in Nat /\ Rounded(size) >= 8 /\ Rounded(size) <= 2^29 /\ Rounded(size) >= size
       /\ SearchSize(Rounded(size)) \in Nat /\ SearchSize(Rounded(size)) < 2^30
       /\ SearchSize(Rounded(size)) >= Rounded(size)
       /\ \A s \in Nat : s < 2^30 =>
            (s >= SearchSize(Rounded(size)) <=>
              AtLeast(MAPPING_INSERT(s), MAPPING_INSERT(SearchSize(Rounded(size)))))
<1>div. ASSUME NEW x \in Nat, NEW p \in Nat, p > 0, NEW n \in Nat
      PROVE  /\ x \div p \in Nat
             /\ x \div p >= n <=> x >= n * p
             /\ x \div p < n <=> x < n * p
  <2> USE <1>div
  <2>1. x \div p \in Int /\ x % p \in 0 .. p - 1 /\ x = p * (x \div p) + (x % p)
    OBVIOUS
  <2> DEFINE q == x \div p
  <2> HIDE DEF q
  <2>2. q \in Int /\ p * q <= x /\ x < p * q + p
    BY <2>1 DEF q
  <2>3. q >= 0
    <3>1. SUFFICES ASSUME q <= -1 PROVE FALSE
      BY <2>2
    <3>2. p * q <= p * (-1)
      BY <3>1, <2>2
    <3> QED BY <3>2, <2>2
  <2>4. q >= n => x >= n * p
    <3>1. q >= n => p * q >= p * n
      BY <2>2
    <3> QED BY <3>1, <2>2
  <2>5. q < n => x < n * p
    <3>1. q + 1 <= n => p * (q + 1) <= p * n
      BY <2>2
    <3> QED BY <3>1, <2>2
  <2> QED BY <2>2, <2>3, <2>4, <2>5 DEF q
<1>bit. ASSUME NEW x \in Nat, x > 0, x < 2^30
      PROVE  /\ ms_bit(x) \in 0 .. 29 /\ 2^ms_bit(x) <= x /\ x < 2^(ms_bit(x) + 1)
             /\ x >= 128 => ms_bit(x) >= 7
  <2> USE <1>bit
  <2>1. PICK k \in Nat : k < 30 /\ 2^k <= x /\ x < 2^(k + 1)
    BY Power
  <2>2. k \in 0 .. MAX_FLI - 1
    BY <2>1 DEF MAX_FLI
  <2>3. ms_bit(x) \in 0 .. MAX_FLI - 1 /\ 2^ms_bit(x) <= x /\ x < 2^(ms_bit(x) + 1)
    BY <2>1, <2>2 DEF ms_bit
  <2>4. ms_bit(x) \in 0 .. 29
    BY <2>3 DEF MAX_FLI
  <2>5. ms_bit(x) < 7 => 2^(ms_bit(x) + 1) <= 128
    <3>1. 2^7 = 128
      OBVIOUS
    <3>2. ms_bit(x) < 7 => 2^(ms_bit(x) + 1) <= 2^7
      BY <2>4, Power
    <3> QED BY <3>1, <3>2
  <2>6. 2^(ms_bit(x) + 1) \in Int
    BY <2>4, Power
  <2> QED BY <2>3, <2>4, <2>5, <2>6
<1> USE DEF SMALL_BLOCK, MAX_SLI, FLI_OFFSET, MAX_LOG2_SLI, REAL_FLI
<1>0. 2^29 = 536870912 /\ 2^30 = 1073741824
  OBVIOUS
<1>1. ASSUME NEW x \in Nat, x >= 128, x < 2^30
      PROVE  LET p == 2^(ms_bit(x) - 5)
             IN  /\ p \in Nat /\ p > 0
                 /\ 2^ms_bit(x) = 32 * p /\ 2^(ms_bit(x) + 1) = 64 * p
                 /\ 32 * p <= x /\ x < 64 * p
                 /\ x \div p \in 32 .. 63
                 /\ ms_bit(x) \in 7 .. 29
  <2> DEFINE k == ms_bit(x)
             p == 2^(k - 5)
  <2>1. k \in 7 .. 29 /\ 2^k <= x /\ x < 2^(k + 1)
    BY <1>0, <1>1, <1>bit
  <2> HIDE DEF k
  <2>2. p \in Nat /\ p > 0
    <3>1. k - 5 \in 0 .. 29
      BY <2>1
    <3> QED BY <3>1, Power
  <2>3. 2^k = 32 * p /\ 2^(k + 1) = 2 * 2^k
    BY <2>1, Power
  <2>4. p \in Nat /\ p > 0 /\ 32 * p <= x /\ x < 64 * p /\ 2^(k + 1) = 64 * p
    BY <2>1, <2>2, <2>3
  <2> HIDE DEF p
  <2>5. x \div p \in 32 .. 63
    <3>1. x \div p \in Nat /\ (x \div p >= 32 <=> x >= 32 * p)
      BY <2>4, <1>1, <1>0, <1>div
    <3>2. x \div p < 64 <=> x < 64 * p
      BY <2>4, <1>1, <1>0, <1>div
    <3> QED BY <3>1, <3>2, <2>4
  <2> QED BY <2>1, <2>3, <2>4, <2>5 DEF k, p
<1>2. ASSUME NEW s \in Nat, s < 2^30
      PROVE  MAPPING_INSERT(s) \in Cells
  <2>1. CASE s < 128
    <3>1. s \div 4 \in 0 .. 31
      BY <2>1
    <3> QED BY <2>1, <3>1 DEF MAPPING_INSERT, Cells
  <2>2. CASE s >= 128
    <3>1. ms_bit(s) \in 7 .. 29 /\ s \div 2^(ms_bit(s) - 5) \in 32 .. 63
      BY <2>2, <1>1, <1>2, <1>0
    <3> QED BY <2>2, <3>1, <1>2, <1>0 DEF MAPPING_INSERT, Cells
  <2> QED BY <2>1, <2>2, <1>2, <1>0
<1>3. ASSUME NEW w \in Nat, w < 2^30, NEW s \in Nat, s < 2^30,
             w < 128 => w % 4 = 0,
             w >= 128 => (w \div 2^(ms_bit(w) - 5)) * 2^(ms_bit(w) - 5) >= w
      PROVE  s >= w <=> AtLeast(MAPPING_INSERT(s), MAPPING_INSERT(w))
  <2>1. CASE s < 128 /\ w < 128
    <3>1. s >= w <=> s \div 4 >= w \div 4
      BY <2>1, <1>3
    <3> QED BY <2>1, <3>1, <1>3, <1>0 DEF MAPPING_INSERT, AtLeast
  <2>2. CASE s < 128 /\ w >= 128
    <3>1. ms_bit(w) \in 7 .. 29
      BY <2>2, <1>1, <1>3, <1>0
    <3>2. MAPPING_INSERT(s)[1] = 0 /\ MAPPING_INSERT(w)[1] = ms_bit(w) - 6
      BY <2>2 DEF MAPPING_INSERT
    <3> QED BY <2>2, <3>1, <3>2 DEF AtLeast
  <2>3. CASE s >= 128 /\ w < 128
    <3>1. ms_bit(s) \in 7 .. 29
      BY <2>3, <1>1, <1>3, <1>0
    <3>2. MAPPING_INSERT(w)[1] = 0 /\ MAPPING_INSERT(s)[1] = ms_bit(s) - 6
      BY <2>3 DEF MAPPING_INSERT
    <3> QED BY <2>3, <3>1, <3>2 DEF AtLeast
  <2>4. CASE s >= 128 /\ w >= 128
    <3> DEFINE j == ms_bit(s)
               k == ms_bit(w)
    <3>1. /\ j \in 7 .. 29 /\ 2^j <= s /\ s < 2^(j + 1) /\ s \div 2^(j - 5) \in 32 .. 63
          /\ k \in 7 .. 29 /\ 2^k <= w /\ w < 2^(k + 1) /\ w \div 2^(k - 5) \in 32 .. 63
          /\ 2^(k - 5) \in Nat /\ 2^(k - 5) > 0
      BY <2>4, <1>1, <1>3, <1>0
    <3>2. (w \div 2^(k - 5)) * 2^(k - 5) >= w
      BY <2>4, <1>3
    <3>3. /\ MAPPING_INSERT(s) = <<j - 6, (s \div 2^(j - 5)) - 32>>
          /\ MAPPING_INSERT(w) = <<k - 6, (w \div 2^(k - 5)) - 32>>
      BY <2>4, <1>3, <1>0 DEF MAPPING_INSERT
    <3> HIDE DEF j, k
    <3>4. CASE j = k
      <4>1. s \div 2^(k - 5) >= w \div 2^(k - 5) <=> s >= (w \div 2^(k - 5)) * 2^(k - 5)
        BY <3>1, <1>3, <1>0, <1>div
      <4>2. w \div 2^(k - 5) >= w \div 2^(k - 5) <=> w >= (w \div 2^(k - 5)) * 2^(k - 5)
        BY <3>1, <1>3, <1>0, <1>div
      <4>3. (w \div 2^(k - 5)) * 2^(k - 5) = w
        BY <4>2, <3>1, <3>2
      <4> QED BY <4>1, <4>3, <3>1, <3>3, <3>4 DEF AtLeast
    <3>5. CASE j < k
      <4>1. 2^(j + 1) <= 2^k /\ 2^(j + 1) \in Nat /\ 2^k \in Nat
        BY <3>1, <3>5, Power
      <4> QED BY <4>1, <3>1, <3>3, <3>5, <1>3, <1>0 DEF AtLeast
    <3>6. CASE k < j
      <4>1. 2^(k + 1) <= 2^j /\ 2^(k + 1) \in Nat /\ 2^j \in Nat
        BY <3>1, <3>6, Power
      <4> QED BY <4>1, <3>1, <3>3, <3>6, <1>3, <1>0 DEF AtLeast
    <3> QED BY <3>1, <3>4, <3>5, <3>6
  <2> QED BY <2>1, <2>2, <2>3, <2>4, <1>3, <1>0

<1>4. ASSUME NEW size \in Nat, size <= 2^29
      PROVE  /\ Rounded(size) \in Nat /\ Rounded(size) >= 8 /\ Rounded(size) <= 2^29 /\ Rounded(size) >= size
             /\ Rounded(size) % 8 = 0
  BY <1>4, <1>0 DEF Rounded, ROUNDUP_SIZE, BLOCK_ALIGN, MIN_BLOCK_SIZE
<1>5. ASSUME NEW r \in Nat, r >= 8, r <= 2^29, r % 8 = 0
      PROVE  LET w == SearchSize(r)
             IN  /\ w \in Nat /\ w < 2^30 /\ w >= r
                 /\ w < 128 => w % 4 = 0
                 /\ w >= 128 => (w \div 2^(ms_bit(w) - 5)) * 2^(ms_bit(w) - 5) >= w
  <2>1. CASE r < 128
    <3>1. r % 4 = 0
      BY <1>5
    <3> QED BY <2>1, <3>1, <1>5, <1>0 DEF SearchSize
  <2>2. CASE r >= 128
    <3> DEFINE k == ms_bit(r)
               p == 2^(k - 5)
               m == (r + p - 1) \div p
               w == SearchSize(r)
    <3>1. /\ p \in Nat /\ p > 0 /\ 32 * p <= r /\ r < 64 * p
          /\ 2^k = 32 * p /\ 2^(k + 1) = 64 * p /\ k \in 7 .. 29
      BY <2>2, <1>1, <1>5, <1>0
    <3>2. w = m * p
      BY <2>2 DEF SearchSize
    <3> HIDE DEF k, p, w
    <3>3. m \in 32 .. 64
      <4>1. r + p - 1 \in Nat
        BY <3>1, <1>5, <1>0
      <4>2. m \in Nat /\ (m >= 32 <=> r + p - 1 >= 32 * p)
        BY <4>1, <3>1, <1>div
      <4>3. m < 65 <=> r + p - 1 < 65 * p
        BY <4>1, <3>1, <1>div
      <4> QED BY <4>2, <4>3, <3>1, <1>5, <1>0
    <3>4. w >= r /\ w < r + p
      <4>1. r + p - 1 \in Nat /\ m \in Nat /\ m + 1 \in Nat
        BY <3>1, <3>3, <1>5, <1>0
      <4>2. m >= m <=> r + p - 1 >= m * p
        BY <4>1, <3>1, <1>div
      <4>3. m < m + 1 <=> r + p - 1 < (m + 1) * p
        BY <4>1, <3>1, <1>div
      <4> HIDE DEF m
      <4>4. (m + 1) * p = m * p + p
        BY <4>1, <3>1
      <4>5. m * p \in Nat
        BY <4>1, <3>1
      <4> QED BY <4>1, <4>2, <4>3, <4>4, <4>5, <3>1, <3>2, <1>5, <1>0
    <3> HIDE DEF m
    <3>5. w \in Nat /\ w >= 128 /\ w < 2^30
      BY <3>1, <3>2, <3>3, <3>4, <2>2, <1>5, <1>0
    <3>6. /\ ms_bit(w) \in 7 .. 29 /\ 2^ms_bit(w) <= w /\ w < 2^(ms_bit(w) + 1)
      BY <3>5, <1>5, <1>0, <1>bit
    <3>7. CASE m < 64
      <4>1. 32 * p <= w /\ w < 64 * p
        BY <3>1, <3>2, <3>3, <3>7
      <4>2. ms_bit(w) = k
        <5>1. ms_bit(w) < k => 2^(ms_bit(w) + 1) <= 2^k
          BY <3>1, <3>6, Power
        <5>2. k < ms_bit(w) => 2^(k + 1) <= 2^ms_bit(w)
          BY <3>1, <3>6, Power
        <5>3. 2^ms_bit(w) \in Nat /\ 2^(ms_bit(w) + 1) \in Nat
          BY <3>6, Power
        <5> QED BY <5>1, <5>2, <5>3, <4>1, <3>1, <3>6, <3>5, <1>5, <1>0
      <4>3. w \div p = m
        BY <3>1, <3>2, <3>3
      <4> QED BY <4>2, <4>3, <3>2, <3>4, <3>5, <2>2, <1>5, <1>0 DEF p, w
    <3>8. CASE m = 64
      <4>1. w = 2^(k + 1) /\ k + 1 \in 8 .. 29
        <5>1. w = 2^(k + 1)
          BY <3>1, <3>2, <3>8
        <5>2. k # 29
          <6>1. k = 29 => 2^(k + 1) = 2^(29 + 1)
            BY Zenon
          <6> QED BY <6>1, <5>1, <3>5
        <5> QED BY <5>1, <5>2, <3>1
      <4>2. ms_bit(w) = k + 1
        <5>1. ms_bit(w) < k + 1 => 2^(ms_bit(w) + 1) <= 2^(k + 1)
          BY <4>1, <3>6, Power
        <5>2. k + 1 < ms_bit(w) => 2^(k + 1 + 1) <= 2^ms_bit(w)
          BY <4>1, <3>6, Power
        <5>3. 2^(k + 1 + 1) = 2 * 2^(k + 1)
          BY <4>1, Power
        <5>4. 2^ms_bit(w) \in Nat /\ 2^(ms_bit(w) + 1) \in Nat
          BY <3>6, Power
        <5> QED BY <5>1, <5>2, <5>3, <5>4, <4>1, <3>1, <3>6, <3>5, <1>5, <1>0
      <4> DEFINE q == 2^(ms_bit(w) - 5)
      <4>3. 2^ms_bit(w) = 32 * q /\ q \in Nat /\ q > 0
        <5>1. ms_bit(w) - 5 \in Nat /\ ms_bit(w) - 5 < 30
          BY <3>6
        <5> QED BY <5>1, <3>6, Power
      <4>4. w = 32 * q /\ q \in Nat /\ q > 0
        BY <4>1, <4>2, <4>3
      <4>5. (w \div q) * q >= w
        <5> HIDE DEF q
        <5> QED BY <4>4
      <4> QED BY <4>5, <3>4, <3>5, <2>2, <1>5, <1>0 DEF w
    <3> QED BY <3>3, <3>7, <3>8
  <2> QED BY <2>1, <2>2, <1>5, <1>0
<1>6. ASSUME NEW size \in Nat, size <= 2^29
      PROVE  LET r == Rounded(size)
                 w == SearchSize(r)
             IN  /\ r \in Nat /\ r >= 8 /\ r <= 2^29 /\ r >= size
                 /\ w \in Nat /\ w < 2^30 /\ w >= r
                 /\ \A s \in Nat : s < 2^30 =>
                      (s >= w <=> AtLeast(MAPPING_INSERT(s), MAPPING_INSERT(w)))
  <2> DEFINE r == Rounded(size)
             w == SearchSize(r)
  <2>1. r \in Nat /\ r >= 8 /\ r <= 2^29 /\ r >= size /\ r % 8 = 0
    BY <1>6, <1>4
  <2> HIDE DEF r
  <2>2. /\ w \in Nat /\ w < 2^30 /\ w >= r
        /\ w < 128 => w % 4 = 0
        /\ w >= 128 => (w \div 2^(ms_bit(w) - 5)) * 2^(ms_bit(w) - 5) >= w
    BY <1>5, <2>1
  <2> HIDE DEF w
  <2>4. \A s \in Nat : s < 2^30 => (s >= w <=> AtLeast(MAPPING_INSERT(s), MAPPING_INSERT(w)))
    BY <1>3, <2>2, <1>0
  <2> QED BY <2>1, <2>2, <2>4 DEF r, w
<1> QED BY <1>2, <1>6

(* The bitmaps tell which lists are not empty.                             *)
Bitmaps(h) ==
  /\ DOMAIN h.matrix \subseteq Cells
  /\ h.sl_bitmap \in [0 .. REAL_FLI - 1 -> SUBSET (0 .. MAX_SLI - 1)]
  /\ h.fl_bitmap \subseteq 0 .. REAL_FLI - 1
  /\ \A f \in 0 .. REAL_FLI - 1 : f \in h.fl_bitmap <=> h.sl_bitmap[f] # {}
  /\ \A c \in Cells : c[2] \in h.sl_bitmap[c[1]] <=> c \in DOMAIN h.matrix

(* The search answers a list that is not empty and at or above the cell,   *)
(* or there is none.                                                       *)
LEMMA Find ==
  ASSUME NEW h, Bitmaps(h), NEW cell \in Cells
  PROVE  LET c == FIND_SUITABLE_BLOCK(h, cell)
         IN  \/ c[1] = -1 /\ \A d \in DOMAIN h.matrix : ~ AtLeast(d, cell)
             \/ c \in DOMAIN h.matrix /\ c[1] # -1 /\ AtLeast(c, cell)
<1>1. ASSUME NEW S \in SUBSET Nat, S # {} PROVE ls_bit(S) \in S
  <2> DEFINE less == {ss \in Nat \X Nat : ss[1] < ss[2]}
  <2>1. IsWellFoundedOn(less, Nat)
    BY NatLessThanWellFounded, Zenon DEF OpToRel
  <2>2. PICK x \in S : \A y \in S : ~(<<y, x>> \in less)
    <3> HIDE DEF less
    <3> QED BY Zenon, <1>1, <2>1, WFMin
  <2>3. \A y \in S : x <= y
    <3> TAKE y \in S
    <3>1. <<y, x>> \in Nat \X Nat /\ <<y, x>>[1] = y /\ <<y, x>>[2] = x
      OBVIOUS
    <3>2. ~(<<y, x>>[1] < <<y, x>>[2])
      BY <3>1, <2>2, Zenon
    <3> QED BY <3>1, <3>2
  <2> QED BY Zenon, <1>1, <2>3 DEF ls_bit
<1> DEFINE above == {s \in h.sl_bitmap[cell[1]] : s >= cell[2]}
           rows  == {f \in h.fl_bitmap : f > cell[1]}
           fl    == ls_bit(rows)
           c     == FIND_SUITABLE_BLOCK(h, cell)
<1>2. /\ cell[1] \in 0 .. REAL_FLI - 1 /\ cell[2] \in 0 .. MAX_SLI - 1
      /\ cell = <<cell[1], cell[2]>>
      /\ REAL_FLI \in Nat /\ MAX_SLI \in Nat
  BY DEF Cells, REAL_FLI, MAX_SLI
<1>3. ASSUME NEW f \in 0 .. REAL_FLI - 1, NEW s \in h.sl_bitmap[f]
      PROVE  s \in 0 .. MAX_SLI - 1 /\ <<f, s>> \in DOMAIN h.matrix
  <2>1. s \in 0 .. MAX_SLI - 1
    BY Zenon DEF Bitmaps
  <2>2. <<f, s>> \in Cells /\ <<f, s>>[1] = f /\ <<f, s>>[2] = s
    BY <2>1 DEF Cells
  <2> QED BY <2>1, <2>2, <1>3 DEF Bitmaps
<1>4. CASE above # {}
  <2>1. above \subseteq Nat
    BY <1>2 DEF Bitmaps
  <2>2. ls_bit(above) \in above
    BY <1>1, <1>4, <2>1
  <2>3. c = <<cell[1], ls_bit(above)>>
    BY <1>4 DEF FIND_SUITABLE_BLOCK
  <2>4. c \in DOMAIN h.matrix
    BY <1>2, <1>3, <2>2, <2>3
  <2> QED BY <1>2, <2>2, <2>3, <2>4 DEF AtLeast
<1>5. CASE above = {} /\ rows # {}
  <2>1. rows \subseteq Nat
    BY <1>2 DEF Bitmaps
  <2>2. fl \in rows /\ fl \in 0 .. REAL_FLI - 1 /\ fl > cell[1] /\ fl > 0
    <3>1. fl \in rows
      <4> HIDE DEF rows
      <4> QED BY <1>1, <1>5, <2>1
    <3>2. rows \subseteq 0 .. REAL_FLI - 1
      BY DEF Bitmaps
    <3> QED BY <1>2, <3>1, <3>2
  <2>3. c = <<fl, ls_bit(h.sl_bitmap[fl])>>
    BY <1>5, <2>2 DEF FIND_SUITABLE_BLOCK
  <2>4. h.sl_bitmap[fl] \subseteq Nat /\ h.sl_bitmap[fl] # {}
    <3>1. h.sl_bitmap[fl] # {}
      <4>1. fl \in h.fl_bitmap
        BY <2>2
      <4> QED BY <2>2, <4>1 DEF Bitmaps
    <3>2. h.sl_bitmap[fl] \subseteq 0 .. MAX_SLI - 1
      <4> HIDE DEF fl
      <4> QED BY Zenon, <2>2 DEF Bitmaps
    <3> QED BY <1>2, <3>1, <3>2
  <2>5. ls_bit(h.sl_bitmap[fl]) \in h.sl_bitmap[fl]
    BY <1>1, <2>4
  <2>6. c \in DOMAIN h.matrix
    BY <1>3, <2>2, <2>3, <2>5
  <2> QED BY <1>2, <2>2, <2>3, <2>6 DEF AtLeast
<1>6. CASE above = {} /\ rows = {}
  <2>1. fl = -1
    BY <1>6 DEF ls_bit
  <2>2. c = <<-1, 0>>
    BY <1>6, <2>1 DEF FIND_SUITABLE_BLOCK
  <2>3. ASSUME NEW d \in DOMAIN h.matrix, AtLeast(d, cell) PROVE FALSE
    <3>1. d \in Cells /\ d[2] \in h.sl_bitmap[d[1]]
      BY DEF Bitmaps
    <3>2. d[1] \in 0 .. REAL_FLI - 1 /\ d[2] \in Nat
      BY <3>1 DEF Cells, MAX_SLI
    <3>3. d[1] \in h.fl_bitmap
      BY <3>1, <3>2 DEF Bitmaps
    <3>4. CASE d[1] > cell[1]
      BY <3>3, <3>4, <1>6
    <3>5. CASE d[1] = cell[1] /\ d[2] >= cell[2]
      BY <3>1, <3>5, <1>6
    <3> QED BY <2>3, <3>4, <3>5 DEF AtLeast
  <2> QED BY <2>2, <2>3
<1> QED BY <1>4, <1>5, <1>6
============================================================================
