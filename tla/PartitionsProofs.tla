-------------------------- MODULE PartitionsProofs --------------------------
(***************************************************************************)
(* Proofs about how a problem is cut into pieces. For any shape, tile,     *)
(* offset, direction and number of cores, the blocks that a swizzle deals  *)
(* out have every element of the problem once and nothing beyond it; so    *)
(* have the tiles of an all-reduce, for any block, number of vector cores, *)
(* alignment and size of a UB buffer; and the calls that the cores of a    *)
(* GEMM kernel without groups make for their blocks, each with offsets     *)
(* into A, B and C, compute together every element of C, once, from its    *)
(* row of A and its column of B. The machine of Partitions, which puts the *)
(* pieces in place one by one, then keeps as an invariant that what is in  *)
(* place and what is left is the whole.                                    *)
(*                                                                         *)
(* The steps: an order of rows and columns Passes every place once; tasks  *)
(* that are Dealt along such an order cut the problem into blocks (Cuts),  *)
(* which as sets of numbered elements are a Partition, and so is what the  *)
(* kernels compute for them (ComputedPartition); and a Partition stays one *)
(* while its pieces are put in place (PartitionInv).                       *)
(***************************************************************************)
EXTENDS Partitions, TLAPS, WellFoundedInduction, FiniteSetTheorems

-----------------------------------------------------------------------------
(* The tiles of an all-reduce: arithmetic, whole rows, pieces of rows.     *)

(* Rows, columns and vector cores. *)
Blocks == [1..3 -> Nat \ {0}]

(* The vector cores of a block.                                            *)
Cores(t) == 0..(t[3] - 1)

(* What the code needs: TilesPerLoop divides by the length of a row.       *)
RowFits(t) == RoundUp(t[2], Align) <= ComputeLength

(* An element is in a tile.                                                *)
Holds(tile, r, c) == r \in tile.rows /\ c \in tile.cols

-----------------------------------------------------------------------------
(* Division, as far as it is needed. *)
LEMMA Division ==
    ASSUME NEW a \in Nat, NEW k \in Nat \ {0}
    PROVE  /\ a \div k \in Nat
           /\ a % k \in 0..(k - 1)
           /\ a = (a \div k) * k + (a % k)
OBVIOUS

(* A quotient and a remainder are known when they are found.               *)
LEMMA Quotient ==
    ASSUME NEW q \in Nat, NEW k \in Nat \ {0}, NEW m \in 0..(k - 1)
    PROVE  (q * k + m) \div k = q /\ (q * k + m) % k = m
OBVIOUS

(* Of two products with the same factor the one with the smaller other     *)
(* factor is not larger.                                                   *)
LEMMA MultiplyMono ==
    ASSUME NEW m \in Nat, NEW n \in Nat, NEW k \in Nat, m <= n
    PROVE  m * k <= n * k /\ m * k \in Nat /\ n * k \in Nat
OBVIOUS

(* And the other way round.                                                *)
LEMMA MultiplyLess ==
    ASSUME NEW m \in Nat, NEW n \in Nat, NEW k \in Nat \ {0}, m * k < n * k
    PROVE  m < n
<1> SUFFICES ASSUME n <= m
             PROVE  FALSE
  OBVIOUS
<1> QED
  BY MultiplyMono

(* A multiple of k that is at most a is at most the (a / k)-th.            *)
LEMMA DivisionMono ==
    ASSUME NEW a \in Nat, NEW k \in Nat \ {0}, NEW m \in Nat, m * k <= a
    PROVE  m <= a \div k
<1> QED
  BY MultiplyLess, Division

(* Rounding up. *)
LEMMA CeilDivFacts ==
    ASSUME NEW a \in Nat, NEW k \in Nat \ {0}
    PROVE  /\ CeilDiv(a, k) \in Nat
           /\ CeilDiv(a, k) * k \in Nat
           /\ a <= CeilDiv(a, k) * k
           /\ CeilDiv(a, k) * k < a + k
<1> DEFINE b == a + k - 1
           q == b \div k
<1>1. b \in Nat /\ q \in Nat /\ b % k \in 0..(k - 1) /\ b = q * k + (b % k)
  BY Division
<1> HIDE DEF q, b
<1> QED
  BY <1>1 DEF CeilDiv

(* Something takes at least one.                                           *)
LEMMA CeilDivPositive ==
    ASSUME NEW a \in Nat \ {0}, NEW k \in Nat \ {0}
    PROVE  CeilDiv(a, k) \in Nat \ {0}
<1>1. CeilDiv(a, k) \in Nat /\ a <= CeilDiv(a, k) * k
  BY CeilDivFacts
<1> DEFINE q == CeilDiv(a, k)
<1> HIDE DEF q
<1>2. q # 0
  <2> SUFFICES ASSUME q = 0
               PROVE  FALSE
    OBVIOUS
  <2> QED
    BY <1>1 DEF q
<1> QED
  BY <1>1, <1>2 DEF q

(* And no more than are enough.                                            *)
LEMMA CeilDivLeast ==
    ASSUME NEW a \in Nat, NEW k \in Nat \ {0}, NEW n \in Nat, a <= n * k
    PROVE  CeilDiv(a, k) <= n
<1> DEFINE q == CeilDiv(a, k)
<1>1. q \in Nat /\ q * k \in Nat /\ q * k < a + k
  BY CeilDivFacts
<1> HIDE DEF q
<1> QED
  BY <1>1, MultiplyLess DEF q

(* RoundUp is a multiple of Align and not less.                            *)
LEMMA RoundUpFacts ==
    ASSUME NEW a \in Nat \ {0}
    PROVE  /\ RoundUp(a, Align) \in Nat \ {0}
           /\ a <= RoundUp(a, Align)
           /\ CeilDiv(a, Align) \in Nat
           /\ RoundUp(a, Align) = CeilDiv(a, Align) * Align
<1> QED
  BY AlignAssumption, CeilDivFacts DEF RoundUp

(* It rounds up to no more than any other multiple. *)
LEMMA RoundUpLeast ==
    ASSUME NEW a \in Nat \ {0}, NEW n \in Nat, a <= n * Align
    PROVE  RoundUp(a, Align) <= n * Align
<1>1. CeilDiv(a, Align) <= n
  BY AlignAssumption, CeilDivLeast
<1> QED
  BY <1>1, AlignAssumption, RoundUpFacts, MultiplyMono

-----------------------------------------------------------------------------
(* Whole rows. *)

(* A block is not empty, and has vector cores. *)
LEMMA BlockFacts ==
    ASSUME NEW t \in Blocks
    PROVE  t[1] \in Nat \ {0} /\ t[2] \in Nat \ {0} /\ t[3] \in Nat \ {0}
BY DEF Blocks

(* The rows of the cores follow each other. *)
LEMMA RowsFollow ==
    ASSUME NEW t \in Blocks, NEW v \in Cores(t)
    PROVE  /\ FirstRow(t, v) \in Nat
           /\ TilesPerAiv(t, v) \in Nat
           /\ FirstRow(t, v) + TilesPerAiv(t, v) <= t[1]
           /\ \A w \in Cores(t) : v < w => FirstRow(t, v) + TilesPerAiv(t, v) <= FirstRow(t, w)
<1> DEFINE q == t[1] \div t[3]
           m == t[1] % t[3]
           cores == t[3]
           From(u) == u * q + (IF u < m THEN u ELSE m)
<1>1. q \in Nat /\ m \in 0..(cores - 1) /\ t[1] = q * cores + m /\ cores \in Nat \ {0}
  BY BlockFacts, Division
<1>2. ASSUME NEW u \in Cores(t)
      PROVE  TilesPerAiv(t, u) = q + (IF u < m THEN 1 ELSE 0)
  BY DEF TilesPerAiv
<1>3. ASSUME NEW u \in Cores(t)
      PROVE  FirstRow(t, u) = From(u)
  <2>1. u \in Nat
    BY <1>1 DEF Cores
  <2>2. FirstRow(t, u) = u * TilesPerAiv(t, u) + (IF u >= m THEN m ELSE 0)
    BY DEF FirstRow
  <2>3. CASE u < m
    <3> HIDE DEF q, m
    <3> QED
      BY <1>1, <1>2, <2>1, <2>2, <2>3
  <2>4. CASE ~(u < m)
    <3> HIDE DEF q, m
    <3> QED
      BY <1>1, <1>2, <2>1, <2>2, <2>4
  <2> QED
    BY <2>3, <2>4
<1> HIDE DEF q, m
<1>4. ASSUME NEW u \in Nat, NEW w \in Nat, u <= w
      PROVE  From(u) \in Nat /\ From(u) <= From(w)
  BY <1>1, <1>4, MultiplyMono
<1>5. ASSUME NEW u \in Cores(t)
      PROVE  FirstRow(t, u) + TilesPerAiv(t, u) = From(u + 1)
  BY <1>1, <1>2, <1>3 DEF Cores
<1>6. From(cores) = t[1]
  BY <1>1
<1>7. v \in Nat /\ v + 1 \in Nat /\ v + 1 <= cores
  BY <1>1 DEF Cores
<1>8. From(v) \in Nat /\ From(v + 1) <= From(cores)
  BY <1>1, <1>4, <1>7
<1>9. ASSUME NEW w \in Cores(t), v < w
       PROVE  From(v + 1) <= FirstRow(t, w)
  <2>1. w \in Nat /\ v + 1 <= w
    BY <1>1, <1>7, <1>9 DEF Cores
  <2> QED
    BY <1>3, <1>4, <1>7, <2>1
<1>10. TilesPerAiv(t, v) \in Nat
  BY <1>1, <1>2
<1> HIDE DEF From, cores
<1> QED
  BY <1>3, <1>5, <1>6, <1>8, <1>9, <1>10

(* Every row is one of some core. *)
LEMMA RowsCovered ==
    ASSUME NEW t \in Blocks, NEW r \in 0..(t[1] - 1)
    PROVE  \E v \in Cores(t) : r \in FirstRow(t, v)..(FirstRow(t, v) + TilesPerAiv(t, v) - 1)
<1> DEFINE q == t[1] \div t[3]
           m == t[1] % t[3]
           cores == t[3]
           IsOf(v) == r \in FirstRow(t, v)..(FirstRow(t, v) + TilesPerAiv(t, v) - 1)
<1>1. q \in Nat /\ m \in 0..(cores - 1) /\ t[1] = q * cores + m /\ cores \in Nat \ {0}
  BY BlockFacts, Division
<1>2. r \in Nat
  BY BlockFacts
<1>3. ASSUME NEW u \in Nat
      PROVE  /\ TilesPerAiv(t, u) = IF u < m THEN q + 1 ELSE q
             /\ FirstRow(t, u) = u * TilesPerAiv(t, u) + (IF u >= m THEN m ELSE 0)
  BY <1>1 DEF TilesPerAiv, FirstRow
<1> HIDE DEF q, m
<1>4. CASE r < m * (q + 1)
  <2> DEFINE v == r \div (q + 1)
             d == r % (q + 1)
  <2>1. q + 1 \in Nat \ {0}
    BY <1>1
  <2>2. v \in Nat /\ d \in 0..q /\ r = v * (q + 1) + d
    <3> DEFINE k == q + 1
    <3>1. k - 1 = q
      BY <1>1
    <3> QED
      BY <1>2, <2>1, <3>1, Division
  <2> HIDE DEF v, d
  <2>3. v < m
    BY <1>2, <1>1, <1>4, <2>1, <2>2, MultiplyLess
  <2>4. TilesPerAiv(t, v) = q + 1 /\ FirstRow(t, v) = v * (q + 1)
    BY <1>1, <1>3, <2>2, <2>3
  <2> QED
    BY <1>2, <1>1, <2>2, <2>3, <2>4 DEF Cores
<1>5. CASE ~(r < m * (q + 1))
  <2> DEFINE tail == r - m * (q + 1)
             v == tail \div q
             d == tail % q
  <2>1. m * (q + 1) = m * q + m /\ m * q \in Nat /\ m * (q + 1) \in Nat
    BY <1>1
  <2>2. tail \in Nat /\ r = m * q + m + tail
    BY <1>2, <1>1, <1>5, <2>1
  <2>3. q # 0
    BY <1>2, <1>1, <1>5, <2>1
  <2>4. v \in Nat /\ d \in 0..(q - 1) /\ tail = v * q + d
    BY <1>1, <2>2, <2>3, Division
  <2> HIDE DEF tail, v, d
  <2> DEFINE u == v + m
  <2>5. u * q = v * q + m * q /\ v * q \in Nat /\ u \in Nat
    BY <1>1, <2>4
  <2>6. r = u * q + m + d
    BY <1>1, <2>1, <2>2, <2>4, <2>5
  <2>7. u < cores
    <3>1. u * q < cores * q
      BY <1>2, <1>1, <2>4, <2>5, <2>6
    <3> QED
      BY <1>1, <2>3, <2>5, <3>1, MultiplyLess
  <2>8. u \in Cores(t) /\ u >= m /\ ~(u < m)
    BY <1>1, <2>4, <2>7 DEF Cores
  <2>9. TilesPerAiv(t, u) = q /\ FirstRow(t, u) = u * q + m
    BY <1>3, <2>5, <2>8
  <2> HIDE DEF u
  <2>10. IsOf(u)
    BY <1>2, <1>1, <2>4, <2>5, <2>6, <2>9
  <2> QED
    BY <2>8, <2>10
<1> QED
  BY <1>4, <1>5

(* A UB buffer holds one row or more. *)
LEMMA RowsPerLoop ==
    ASSUME NEW t \in Blocks, RowFits(t)
    PROVE  /\ TilesPerLoop(t) \in Nat \ {0}
           /\ TilesPerLoop(t) * RoundUp(t[2], Align) <= ComputeLength
<1> DEFINE u == RoundUp(t[2], Align)
           q == ComputeLength \div u
<1>1. u \in Nat \ {0} /\ u <= ComputeLength /\ ComputeLength \in Nat
  BY BlockFacts, RoundUpFacts, AlignAssumption DEF RowFits
<1> HIDE DEF u
<1>2. q \in Nat /\ ComputeLength % u \in 0..(u - 1) /\ ComputeLength = q * u + (ComputeLength % u)
  BY <1>1, Division
<1>3. 1 <= q
  BY <1>1, DivisionMono
<1> HIDE DEF q
<1> QED
  BY <1>1, <1>2, <1>3 DEF u, TilesPerLoop

(* A core takes its rows in runs of TilesPerLoop, the last one cut short.  *)
LEMMA RowTileHolds ==
    ASSUME NEW t \in Blocks, RowFits(t), NEW v \in Cores(t), NEW n \in 0..(RowLoops(t, v) - 1),
           NEW r \in Int
    PROVE  r \in RowTile(t, v, n).rows
             <=> /\ r \in FirstRow(t, v)..(FirstRow(t, v) + TilesPerAiv(t, v) - 1)
                 /\ n = (r - FirstRow(t, v)) \div TilesPerLoop(t)
<1> DEFINE L == TilesPerLoop(t)
           f == FirstRow(t, v)
           T == TilesPerAiv(t, v)
           actual == IF T - n * L < L THEN T - n * L ELSE L
<1>1. L \in Nat \ {0} /\ f \in Nat /\ T \in Nat
  BY RowsPerLoop, RowsFollow
<1>2. RowTile(t, v, n).rows = (f + n * L)..(f + n * L + actual - 1)
  BY DEF RowTile
<1>3. n \in Nat
  BY <1>1, CeilDivFacts DEF RowLoops
<1> HIDE DEF L, f, T
<1>4. n * L \in Nat
  BY <1>1, <1>3
<1> DEFINE N == n * L
<1> HIDE DEF N
<1>5. r \in RowTile(t, v, n).rows <=> r - f \in 0..(T - 1) /\ N <= r - f /\ r - f < N + L
  <2>1. RowTile(t, v, n).rows = (f + N)..(f + N + actual - 1)
    BY <1>2 DEF N
  <2>2. actual = IF T - N < L THEN T - N ELSE L
    BY DEF N
  <2> HIDE DEF actual
  <2> QED
    BY <1>1, <1>4, <2>1, <2>2 DEF N
<1>6. ASSUME r - f \in Nat
      PROVE  N <= r - f /\ r - f < N + L <=> n = (r - f) \div L
  <2> DEFINE d == r - f
             q == d \div L
  <2>1. d \in Nat /\ q \in Nat /\ d % L \in 0..(L - 1) /\ d = q * L + (d % L)
    BY <1>1, <1>6, Division
  <2>2. ASSUME N <= d, d < N + L
        PROVE  n = q
    <3>1. d - N \in 0..(L - 1) /\ d = n * L + (d - N)
      BY <1>1, <1>4, <2>1, <2>2 DEF N
    <3> HIDE DEF d
    <3> QED
      BY <1>1, <1>3, <3>1, Quotient
  <2>3. ASSUME n = q
        PROVE  N <= d /\ d < N + L
    <3> HIDE DEF q, d
    <3> QED
      BY <1>1, <1>4, <2>1, <2>3 DEF N
  <2> QED
    BY <2>2, <2>3
<1> QED
  BY <1>1, <1>5, <1>6 DEF f, T, L

(* Its rows follow each other, and a UB buffer holds them.                 *)
LEMMA RowTileShape ==
    ASSUME NEW t \in Blocks, RowFits(t), NEW v \in Cores(t), NEW n \in 0..(RowLoops(t, v) - 1)
    PROVE  \E first \in Nat, height \in Nat \ {0} :
             /\ RowTile(t, v, n).rows = first..(first + height - 1)
             /\ first + height <= t[1]
             /\ height * RoundUp(t[2], Align) <= ComputeLength
<1> DEFINE L == TilesPerLoop(t)
           f == FirstRow(t, v)
           T == TilesPerAiv(t, v)
           actual == IF T - n * L < L THEN T - n * L ELSE L
           u == RoundUp(t[2], Align)
<1>1. /\ L \in Nat \ {0} /\ f \in Nat /\ T \in Nat /\ f + T <= t[1] /\ t[1] \in Nat
      /\ u \in Nat /\ L * u <= ComputeLength /\ ComputeLength \in Nat
  BY BlockFacts, RowsPerLoop, RowsFollow, RoundUpFacts, AlignAssumption
<1>2. RowTile(t, v, n).rows = (f + n * L)..(f + n * L + actual - 1)
  BY DEF RowTile
<1>3. /\ RowLoops(t, v) = CeilDiv(T, L) /\ RowLoops(t, v) \in Nat
      /\ CeilDiv(T, L) * L < T + L
  BY <1>1, CeilDivFacts DEF RowLoops
<1>4. n \in Nat /\ n + 1 <= CeilDiv(T, L) /\ CeilDiv(T, L) \in Nat
  BY <1>3
<1> HIDE DEF L, f, T, u
<1>5. n * L \in Nat /\ (n + 1) * L = n * L + L /\ (n + 1) * L <= CeilDiv(T, L) * L
  BY <1>1, <1>4, MultiplyMono
<1>6. actual \in Nat \ {0} /\ actual <= L /\ n * L + actual <= T
  BY <1>1, <1>3, <1>4, <1>5
<1> HIDE DEF actual
<1>7. actual * u <= ComputeLength
  BY <1>1, <1>6, MultiplyMono
<1>8. f + n * L \in Nat /\ f + n * L + actual <= t[1]
  BY <1>1, <1>5, <1>6
<1> QED
  BY <1>2, <1>6, <1>7, <1>8 DEF u

-----------------------------------------------------------------------------
(* Pieces of rows. *)

(* There are at most as many pieces of a row as cores for it, and all but  *)
(* the last are full.                                                      *)
LEMMA SplitFacts ==
    ASSUME NEW t \in Blocks, CutsRows(t)
    PROVE  /\ Split(t) \in Nat \ {0} /\ Split(t) <= t[3] \div t[1]
           /\ PieceLength(t) \in Nat \ {0}
           /\ \E n \in Nat : PieceLength(t) = n * Align
           /\ (Split(t) - 1) * PieceLength(t) < t[2]
           /\ t[2] <= Split(t) * PieceLength(t)
           /\ PieceLength(t) <= RoundUp(t[2], Align)
<1> DEFINE rows == t[1]
           cols == t[2]
           k == t[3] \div t[1]
           asked == CeilDiv(cols, k)
           a == RoundUp(asked, Align)
           s == CeilDiv(cols, a)
           even == CeilDiv(cols, s)
           p == RoundUp(even, Align)
<1>1. rows \in Nat \ {0} /\ cols \in Nat \ {0} /\ t[3] \in Nat \ {0} /\ Align \in Nat \ {0}
  BY BlockFacts, AlignAssumption
<1>2. k \in Nat \ {0}
  <2>1. k \in Nat
    BY <1>1, Division
  <2> QED
    BY <1>1, <2>1, DivisionMono DEF CutsRows
<1> a = AskedLength(t) /\ s = Split(t) /\ p = PieceLength(t)
  BY DEF AskedLength, Split, PieceLength
<1> HIDE DEF k
<1>3. asked \in Nat \ {0} /\ cols <= asked * k
  BY <1>1, <1>2, CeilDivFacts, CeilDivPositive
<1> HIDE DEF asked
<1>4. /\ a \in Nat \ {0} /\ asked <= a
      /\ CeilDiv(asked, Align) \in Nat /\ a = CeilDiv(asked, Align) * Align
  BY <1>3, RoundUpFacts
<1> HIDE DEF a
<1>5. cols <= k * a
  BY <1>1, <1>2, <1>3, <1>4, MultiplyMono
<1>6. s \in Nat \ {0} /\ s <= k /\ cols <= s * a /\ s * a < cols + a /\ s * a \in Nat
  BY <1>1, <1>2, <1>4, <1>5, CeilDivFacts, CeilDivPositive, CeilDivLeast
<1> HIDE DEF s
<1>7. even \in Nat \ {0} /\ cols <= even * s /\ even <= a
  <2>1. cols <= a * s
    BY <1>4, <1>6
  <2> QED
    BY <1>1, <1>4, <1>6, <2>1, CeilDivFacts, CeilDivPositive, CeilDivLeast
<1> HIDE DEF even
<1>8. /\ p \in Nat \ {0} /\ even <= p
      /\ CeilDiv(even, Align) \in Nat /\ p = CeilDiv(even, Align) * Align
  BY <1>7, RoundUpFacts
<1>9. p <= a
  BY <1>4, <1>7, RoundUpLeast
<1>10. p <= RoundUp(cols, Align)
  <2>1. even <= cols
    BY <1>1, <1>6, CeilDivLeast DEF even
  <2>2. /\ RoundUp(cols, Align) = CeilDiv(cols, Align) * Align /\ CeilDiv(cols, Align) \in Nat
        /\ cols <= RoundUp(cols, Align) /\ RoundUp(cols, Align) \in Nat
    BY <1>1, RoundUpFacts
  <2> QED
    BY <1>1, <1>7, <2>1, <2>2, RoundUpLeast
<1> HIDE DEF p
<1>11. (s - 1) * p < cols
  <2> DEFINE z == s - 1
  <2>1. z \in Nat /\ s = z + 1
    BY <1>6
  <2> HIDE DEF z
  <2>2. p * z <= a * z /\ p * z \in Nat /\ p * z = z * p /\ a * z = z * a
    BY <1>4, <1>8, <1>9, <2>1, MultiplyMono
  <2> QED
    BY <1>1, <1>4, <1>6, <2>1, <2>2 DEF z
<1>12. cols <= s * p
  BY <1>1, <1>6, <1>7, <1>8, MultiplyMono
<1> QED
  BY <1>6, <1>8, <1>10, <1>11, <1>12 DEF k

(* All pieces together are not more than the cores. *)
LEMMA PiecesFewerThanCores ==
    ASSUME NEW t \in Blocks, CutsRows(t)
    PROVE  t[1] * Split(t) \in Nat /\ t[1] * Split(t) <= t[3]
<1> DEFINE k == t[3] \div t[1]
<1>1. /\ t[1] \in Nat \ {0} /\ t[3] \in Nat
      /\ k \in Nat /\ t[3] % t[1] \in 0..(t[1] - 1) /\ t[3] = k * t[1] + (t[3] % t[1])
  BY BlockFacts, Division
<1> HIDE DEF k
<1> QED
  BY <1>1, MultiplyMono, SplitFacts

(* The first cores get one piece each.                                     *)
LEMMA PieceLoopsAre ==
    ASSUME NEW t \in Blocks, CutsRows(t), NEW v \in Cores(t)
    PROVE  PieceLoops(t, v) = IF v < t[1] * Split(t) THEN 1 ELSE 0
<1> DEFINE all == t[1] * Split(t)
<1>1. all \in Nat /\ all <= t[3] /\ t[3] \in Nat \ {0} /\ v \in Nat
  BY BlockFacts, PiecesFewerThanCores DEF Cores
<1> HIDE DEF all
<1>2. ASSUME v < all
      PROVE  CeilDiv(all - v, t[3]) = 1
  <2>1. all - v \in Nat \ {0} /\ all - v <= 1 * t[3]
    BY <1>1, <1>2
  <2>2. CeilDiv(all - v, t[3]) \in Nat \ {0}
    BY <1>1, <2>1, CeilDivPositive
  <2> QED
    BY <1>1, <2>1, <2>2, CeilDivLeast
<1> QED
  BY <1>1, <1>2 DEF all, PieceLoops

(* A piece is a run of one row, and says which one. *)
LEMMA PieceHolds ==
    ASSUME NEW t \in Blocks, CutsRows(t), NEW id \in 0..(t[1] * Split(t) - 1),
           NEW r \in Int, NEW c \in Int
    PROVE  Holds(Piece(t, id), r, c)
             <=> /\ r \in 0..(t[1] - 1) /\ c \in 0..(t[2] - 1)
                 /\ id = r * Split(t) + c \div PieceLength(t)
<1> DEFINE S == Split(t)
           P == PieceLength(t)
           cols == t[2]
           q == id \div S
           x == id % S
           length == IF x = S - 1 THEN cols - x * P ELSE P
<1>1. /\ S \in Nat \ {0} /\ P \in Nat \ {0} /\ (S - 1) * P < cols /\ cols <= S * P
      /\ cols \in Nat \ {0} /\ t[1] \in Nat \ {0} /\ t[1] * S \in Nat
  BY BlockFacts, SplitFacts, PiecesFewerThanCores
<1>2. Holds(Piece(t, id), r, c) <=> r = q /\ c \in (x * P)..(x * P + length - 1)
  BY DEF Holds, Piece
<1>3. id \in Nat /\ id < t[1] * S
  BY <1>1
<1> HIDE DEF S, P, cols
<1>4. q \in Nat /\ x \in 0..(S - 1) /\ id = q * S + x
  BY <1>1, <1>3, Division
<1> HIDE DEF q, x
<1>5. x * P \in Nat /\ x \in Nat /\ x * P <= (S - 1) * P /\ (S - 1) * P \in Nat
  BY <1>1, <1>4, MultiplyMono
<1>6. S * P = (S - 1) * P + P
  BY <1>1
<1>7. x < S - 1 => x * P + P <= (S - 1) * P
  <2> SUFFICES ASSUME x < S - 1
               PROVE  x * P + P <= (S - 1) * P
    OBVIOUS
  <2> QED
    BY <1>1, <1>5, MultiplyMono
<1> DEFINE X == x * P
           Z == (S - 1) * P
<1>8. /\ X \in Nat /\ Z \in Nat /\ X <= Z /\ Z < cols /\ cols <= Z + P
       /\ (x < S - 1 => X + P <= Z) /\ (x = S - 1 => X = Z)
       /\ length = IF x = S - 1 THEN cols - X ELSE P
  BY <1>1, <1>5, <1>6, <1>7
<1> HIDE DEF X, Z, length
<1>9. c \in X..(X + length - 1) <=> c \in 0..(cols - 1) /\ X <= c /\ c < X + P
  <2>1. CASE x = S - 1
    BY <1>1, <1>8, <2>1
  <2>2. CASE x # S - 1
    BY <1>1, <1>4, <1>8, <2>2
  <2> QED
    BY <2>1, <2>2
<1>10. ASSUME c \in Nat
       PROVE  X <= c /\ c < X + P <=> c \div P = x
  <2> DEFINE y == c \div P
  <2>1. y \in Nat /\ c % P \in 0..(P - 1) /\ c = y * P + (c % P)
    BY <1>1, <1>10, Division
  <2>2. ASSUME X <= c, c < X + P
        PROVE  y = x
    <3>1. c - X \in 0..(P - 1) /\ c = x * P + (c - X)
      BY <1>1, <1>8, <1>10, <2>2 DEF X
    <3> QED
      BY <1>1, <1>5, <3>1, Quotient
  <2>3. ASSUME y = x
        PROVE  X <= c /\ c < X + P
    <3> HIDE DEF y
    <3> QED
      BY <1>1, <1>8, <2>1, <2>3 DEF X
  <2> QED
    BY <2>2, <2>3
<1>11. ASSUME r \in 0..(t[1] - 1), c \in 0..(cols - 1), id = r * S + c \div P
       PROVE  r = q /\ c \div P = x
  <2> DEFINE y == c \div P
  <2>1. c \in Nat /\ r \in Nat
    BY <1>1, <1>11
  <2>2. y \in Nat /\ c % P \in 0..(P - 1) /\ c = y * P + (c % P)
    BY <1>1, <2>1, Division
  <2> HIDE DEF y
  <2>3. y < S
    BY <1>1, <1>6, <1>8, <1>11, <2>2, MultiplyLess DEF Z
  <2>4. (r * S + y) \div S = r /\ (r * S + y) % S = y
    <3>1. r \in Nat /\ S \in Nat \ {0} /\ y \in 0..(S - 1)
      BY <1>1, <2>1, <2>2, <2>3
    <3> QED
      BY <3>1, Quotient
  <2> QED
    BY <1>11, <2>4 DEF y, q, x
<1>12. r = q => r \in 0..(t[1] - 1)
  BY <1>1, <1>3, <1>4, MultiplyLess
<1>13. c \in 0..(cols - 1) => c \in Nat
  BY <1>1
<1> QED
  BY <1>2, <1>4, <1>9, <1>10, <1>11, <1>12, <1>13 DEF X, S, P, cols

-----------------------------------------------------------------------------
(* The tiles of a block. *)

(* The core that has an element, and its tile there. *)
LEMMA SomeTile ==
    ASSUME NEW t \in Blocks, CutsRows(t) \/ RowFits(t),
           NEW r \in 0..(t[1] - 1), NEW c \in 0..(t[2] - 1)
    PROVE  \E v \in Cores(t) : \E n \in 0..(AivLoops(t, v) - 1) : Holds(AivTile(t, v, n), r, c)
<1>1. t[1] \in Nat \ {0} /\ t[2] \in Nat \ {0} /\ t[3] \in Nat \ {0} /\ r \in Nat /\ c \in Nat
  BY BlockFacts
<1>2. CASE CutsRows(t)
  <2> DEFINE S == Split(t)
             P == PieceLength(t)
             y == c \div P
             id == r * S + y
  <2>1. /\ S \in Nat \ {0} /\ P \in Nat \ {0} /\ t[2] <= S * P
        /\ t[1] * S \in Nat /\ t[1] * S <= t[3]
    BY <1>2, SplitFacts, PiecesFewerThanCores
  <2> HIDE DEF S, P
  <2>2. y \in Nat /\ c % P \in 0..(P - 1) /\ c = y * P + (c % P)
    BY <1>1, <2>1, Division
  <2> HIDE DEF y
  <2>3. id \in Nat /\ id < t[1] * S
    BY <1>1, <2>1, <2>2, MultiplyMono, MultiplyLess
  <2> HIDE DEF id
  <2>4. id \in Cores(t) /\ id \in 0..(t[1] * S - 1)
    BY <1>1, <2>1, <2>3 DEF Cores
  <2> QED
    BY <1>1, <1>2, <2>3, <2>4, PieceLoopsAre, PieceHolds DEF AivLoops, S, AivTile, id, y, P
<1>3. CASE ~CutsRows(t)
  <2>1. PICK v \in Cores(t) : r \in FirstRow(t, v)..(FirstRow(t, v) + TilesPerAiv(t, v) - 1)
    BY RowsCovered
  <2> DEFINE L == TilesPerLoop(t)
             d == r - FirstRow(t, v)
             n == d \div L
  <2>2. /\ L \in Nat \ {0} /\ FirstRow(t, v) \in Nat /\ TilesPerAiv(t, v) \in Nat
    BY <1>3, RowsPerLoop, RowsFollow
  <2>3. d \in Nat /\ d < TilesPerAiv(t, v)
    BY <1>1, <2>1, <2>2
  <2> HIDE DEF L, d
  <2>4. n \in Nat /\ d % L \in 0..(L - 1) /\ d = n * L + (d % L)
    BY <2>2, <2>3, Division
  <2> HIDE DEF n
  <2>5. /\ AivLoops(t, v) = CeilDiv(TilesPerAiv(t, v), L) /\ RowLoops(t, v) = AivLoops(t, v)
        /\ AivLoops(t, v) \in Nat /\ TilesPerAiv(t, v) <= AivLoops(t, v) * L
    BY <1>3, <2>2, CeilDivFacts DEF AivLoops, RowLoops, L
  <2>6. n \in 0..(RowLoops(t, v) - 1)
    BY <2>2, <2>3, <2>4, <2>5, MultiplyLess
  <2> QED
    BY <1>1, <1>3, <2>1, <2>5, <2>6, RowTileHolds DEF Holds, AivTile, n, d, L, RowTile
<1> QED
  BY <1>2, <1>3

(* No other core has it, and no other tile. *)
LEMMA OneTile ==
    ASSUME NEW t \in Blocks, CutsRows(t) \/ RowFits(t), NEW r \in Int, NEW c \in Int,
           NEW v \in Cores(t), NEW n \in 0..(AivLoops(t, v) - 1), Holds(AivTile(t, v, n), r, c),
           NEW w \in Cores(t), NEW m \in 0..(AivLoops(t, w) - 1), Holds(AivTile(t, w, m), r, c)
    PROVE  v = w /\ n = m
<1>1. /\ t[1] \in Nat \ {0} /\ t[2] \in Nat \ {0} /\ t[3] \in Nat \ {0}
      /\ v \in Nat /\ w \in Nat
  BY BlockFacts DEF Cores
<1>2. CASE CutsRows(t)
  <2>1. ASSUME NEW u \in Cores(t), NEW j \in 0..(AivLoops(t, u) - 1), Holds(AivTile(t, u, j), r, c)
        PROVE  j = 0 /\ u = r * Split(t) + c \div PieceLength(t)
    <3>1. u \in Nat /\ t[1] * Split(t) \in Nat
      BY <1>1, <1>2, PiecesFewerThanCores DEF Cores
    <3>2. u < t[1] * Split(t) /\ j = 0
      BY <1>2, PieceLoopsAre DEF AivLoops
    <3>3. u \in 0..(t[1] * Split(t) - 1)
      BY <3>1, <3>2
    <3>4. Holds(Piece(t, u), r, c)
      BY <1>1, <1>2, <2>1, <3>1, <3>2 DEF AivTile
    <3>5. u = r * Split(t) + c \div PieceLength(t)
      BY <1>2, <3>3, <3>4, PieceHolds
    <3> QED
      BY <3>2, <3>5
  <2> QED
    BY <2>1
<1>3. CASE ~CutsRows(t)
  <2>1. ASSUME NEW u \in Cores(t), NEW j \in 0..(AivLoops(t, u) - 1), Holds(AivTile(t, u, j), r, c)
        PROVE  /\ r \in FirstRow(t, u)..(FirstRow(t, u) + TilesPerAiv(t, u) - 1)
               /\ j = (r - FirstRow(t, u)) \div TilesPerLoop(t)
    BY <1>3, <2>1, RowTileHolds DEF Holds, AivTile, AivLoops
  <2>2. ASSUME NEW u \in Cores(t), NEW x \in Cores(t), u < x,
               r \in FirstRow(t, u)..(FirstRow(t, u) + TilesPerAiv(t, u) - 1),
               r \in FirstRow(t, x)..(FirstRow(t, x) + TilesPerAiv(t, x) - 1)
        PROVE  FALSE
    BY <2>2, RowsFollow
  <2> QED
    BY <1>1, <2>1, <2>2
<1> QED
  BY <1>2, <1>3

(* Every element of a block is in exactly one tile of one vector core: the *)
(* two overloads of the comm block add up all of it, and nothing twice.    *)
THEOREM EveryElementOnce ==
    ASSUME NEW t \in Blocks, CutsRows(t) \/ RowFits(t),
           NEW r \in 0..(t[1] - 1), NEW c \in 0..(t[2] - 1)
    PROVE  \E v \in Cores(t) : \E n \in 0..(AivLoops(t, v) - 1) :
             /\ Holds(AivTile(t, v, n), r, c)
             /\ \A w \in Cores(t) : \A m \in 0..(AivLoops(t, w) - 1) :
                  Holds(AivTile(t, w, m), r, c) => w = v /\ m = n
<1>1. PICK v \in Cores(t) : \E n \in 0..(AivLoops(t, v) - 1) : Holds(AivTile(t, v, n), r, c)
  BY SomeTile
<1>2. PICK n \in 0..(AivLoops(t, v) - 1) : Holds(AivTile(t, v, n), r, c)
  BY <1>1
<1> QED
  BY <1>2, OneTile, BlockFacts

(* The kernel cuts rows only when there are twice as many vector cores,    *)
(* and then a core gets at most one piece: its splitloopid loop ends       *)
(* before the signals would have to tell two tiles apart.                  *)
THEOREM OnePiecePerCore ==
    ASSUME NEW t \in Blocks, CutsRows(t), NEW v \in Cores(t)
    PROVE  AivLoops(t, v) <= 1
BY PieceLoopsAre DEF AivLoops

(* A tile is a part of the block, and not empty; its columns begin at an   *)
(* aligned element, and it fits into a UB buffer with its rows aligned.    *)
THEOREM TilesFit ==
    ASSUME NEW t \in Blocks, RowFits(t), NEW v \in Cores(t), NEW n \in 0..(AivLoops(t, v) - 1)
    PROVE  \E first \in Nat, height \in Nat \ {0}, left \in Nat, width \in Nat \ {0} :
             /\ AivTile(t, v, n).rows = first..(first + height - 1) /\ first + height <= t[1]
             /\ AivTile(t, v, n).cols = left..(left + width - 1) /\ left + width <= t[2]
             /\ \E k \in Nat : left = k * Align
             /\ height * RoundUp(width, Align) <= ComputeLength
<1>1. /\ t[1] \in Nat \ {0} /\ t[2] \in Nat \ {0} /\ t[3] \in Nat \ {0}
      /\ v \in Nat /\ ComputeLength \in Nat /\ Align \in Nat \ {0}
  BY BlockFacts, AlignAssumption DEF Cores
<1>2. CASE CutsRows(t)
  <2> DEFINE S == Split(t)
             P == PieceLength(t)
             q == v \div S
             x == v % S
             length == IF x = S - 1 THEN t[2] - x * P ELSE P
  <2>1. /\ S \in Nat \ {0} /\ P \in Nat \ {0} /\ (S - 1) * P < t[2] /\ t[2] <= S * P
        /\ P <= RoundUp(t[2], Align) /\ t[1] * S \in Nat
    BY <1>2, SplitFacts, PiecesFewerThanCores
  <2>2. v < t[1] * S /\ n = 0
    BY <1>2, PieceLoopsAre DEF AivLoops
  <2>3. /\ AivTile(t, v, n).rows = {q}
        /\ AivTile(t, v, n).cols = (x * P)..(x * P + length - 1)
    BY <1>1, <1>2, <2>2 DEF Piece, AivTile
  <2>4. PICK k \in Nat : P = k * Align
    BY <1>2, SplitFacts
  <2> HIDE DEF S, P
  <2>5. q \in Nat /\ x \in 0..(S - 1) /\ v = q * S + x
    BY <1>1, <2>1, Division
  <2> HIDE DEF q, x
  <2>6. {q} = q..(q + 1 - 1) /\ q + 1 <= t[1]
    BY <1>1, <2>1, <2>2, <2>5, MultiplyLess
  <2>7. x # S - 1 => x * P + P <= (S - 1) * P
    <3> SUFFICES ASSUME x # S - 1
                 PROVE  x * P + P <= (S - 1) * P
      OBVIOUS
    <3> QED
      BY <2>1, <2>5, MultiplyMono
  <2> DEFINE X == x * P
             Z == (S - 1) * P
  <2>8. /\ X \in Nat /\ Z \in Nat /\ X <= Z /\ Z < t[2] /\ t[2] <= Z + P
         /\ (x # S - 1 => X + P <= Z) /\ (x = S - 1 => X = Z)
         /\ length = IF x = S - 1 THEN t[2] - X ELSE P
    BY <2>1, <2>5, <2>7, MultiplyMono
  <2>9. X = (x * k) * Align /\ x * k \in Nat
    BY <1>1, <2>4, <2>5
  <2> HIDE DEF X, Z, length
  <2>10. length \in Nat \ {0} /\ length <= P /\ X + length <= t[2]
    BY <1>1, <2>1, <2>8
  <2>11. 1 * RoundUp(length, Align) <= ComputeLength
    <3>1. RoundUp(length, Align) <= P
      BY <2>4, <2>10, RoundUpLeast
    <3> QED
      BY <1>1, <2>1, <2>10, <3>1, RoundUpFacts DEF RowFits
  <2>12. AivTile(t, v, n).cols = X..(X + length - 1)
    BY <2>3 DEF X
  <2>13. 1 \in Nat \ {0} /\ AivTile(t, v, n).rows = q..(q + 1 - 1)
    BY <2>3, <2>6
  <2> QED
    BY <2>5, <2>6, <2>8, <2>9, <2>10, <2>11, <2>12, <2>13
<1>3. CASE ~CutsRows(t)
  <2>1. AivTile(t, v, n) = RowTile(t, v, n) /\ n \in 0..(RowLoops(t, v) - 1)
    BY <1>3 DEF AivTile, AivLoops
  <2>2. PICK first \in Nat, height \in Nat \ {0} :
          /\ RowTile(t, v, n).rows = first..(first + height - 1)
          /\ first + height <= t[1]
          /\ height * RoundUp(t[2], Align) <= ComputeLength
    BY <2>1, RowTileShape
  <2>3. 0 + t[2] - 1 = t[2] - 1 /\ 0 + t[2] <= t[2] /\ 0 = 0 * Align
    BY <1>1
  <2>4. AivTile(t, v, n).cols = 0..(0 + t[2] - 1)
    BY <2>1, <2>3 DEF RowTile
  <2> QED
    BY <1>1, <2>1, <2>2, <2>3, <2>4
<1> QED
  BY <1>2, <1>3

-----------------------------------------------------------------------------
(* Putting together a whole that is cut into a partition.                  *)

(* The elements of a whole, each in its own place.                         *)
Diagonal(n) == {<<i, i>> : i \in 0..(n - 1)}

(* Pieces put a whole together: every element is in one of them, and in no *)
(* other, and there is nothing else in them.                               *)
PartitionOf(pieces, whole) ==
    /\ pieces \in Seq(SUBSET whole)
    /\ \A x \in whole : \E k \in DOMAIN pieces : x \in pieces[k]
    /\ \A k, l \in DOMAIN pieces : k # l => pieces[k] \cap pieces[l] = {}

(* In particular the elements of a row of n.                               *)
Partition(pieces, n) == PartitionOf(pieces, Diagonal(n))

(* A whole of n places, with one thing to be put in each.                  *)
OnePerPlace(whole, n) ==
    /\ \A p \in whole : p[1] \in 0..(n - 1)
    /\ \A p, q \in whole : p[1] = q[1] => p = q

(* A job about the elements of a whole that is cut into such pieces.       *)
CutJob(j) ==
    /\ \E cut, e, args : \E n \in Nat \ {0} : j = Whole(cut, e, args, n)
    /\ OnePerPlace(Goal(j), j.cols)
    /\ PartitionOf(Pieces(j), Goal(j))

(* What is in place and what is in the pieces that are left is the whole.  *)
Remaining ==
    /\ rest \in Seq(SUBSET Goal(job))
    /\ place \subseteq Goal(job)
    /\ \A x \in Goal(job) \ place : \E k \in DOMAIN rest : x \in rest[k]
    /\ \A k \in DOMAIN rest : rest[k] \cap place = {}
    /\ \A k, l \in DOMAIN rest : k # l => rest[k] \cap rest[l] = {}

(* Only pieces of the job are left.                                        *)
PiecesOfJob == \A k \in DOMAIN rest : \E l \in DOMAIN Pieces(job) : rest[k] = Pieces(job)[l]

(* The invariant: a whole that is cut is in place or left, and nothing     *)
(* else is left.                                                           *)
PartitionInv == CutJob(job) => (Remaining /\ PiecesOfJob)

(* A whole is a row of its elements, in a buffer of their number.          *)
LEMMA WholeIs ==
    ASSUME NEW cut, NEW e, NEW args, NEW n \in Nat \ {0}
    PROVE  LET j == Whole(cut, e, args, n)
           IN /\ j.copy = cut /\ j.args = args /\ j.cols = n
              /\ j.into.r = 0 /\ j.into.c = 0
              /\ Capacity(j.into.l) = n
              /\ Places(j) = Diagonal(n)
<1> DEFINE j == Whole(cut, e, args, n)
           l == RowMajor(1, n, n)
<1>1. /\ j.copy = cut /\ j.args = args /\ j.cols = n /\ j.rows = 1
      /\ j.into = Region(l, 0, 0) /\ j.from = Region(l, 0, 0)
  BY DEF Whole, Job
<1>2. j.into.r = 0 /\ j.into.c = 0 /\ j.into.l = l /\ j.from.r = 0 /\ j.from.c = 0 /\ j.from.l = l
  BY <1>1 DEF Region
<1>3. l.shape = <<1, n>> /\ l.stride = <<n, 1>>
  BY DEF RowMajor, Layout
<1>4. ASSUME NEW r \in Int, NEW c \in Int
      PROVE  GetOffset(l, r, c) = r * n + c * 1
  <2> HIDE DEF l
  <2> QED
    BY <1>3 DEF GetOffset
<1> HIDE DEF j, l
<1>5. Capacity(l) = n
  BY <1>3, <1>4 DEF Capacity
<1>6. Places(j) = {<<GetOffset(l, 0 + r, 0 + c) - GetOffset(l, 0, 0),
                     GetOffset(l, 0 + r, 0 + c) - GetOffset(l, 0, 0)>> : r \in 0..0, c \in 0..(n - 1)}
  BY <1>1, <1>2 DEF Places
<1>7. ASSUME NEW c \in 0..(n - 1)
      PROVE  GetOffset(l, 0 + 0, 0 + c) - GetOffset(l, 0, 0) = c
  BY <1>4
<1>8. Places(j) = Diagonal(n)
  <2>1. ASSUME NEW x \in Places(j)
        PROVE  x \in Diagonal(n)
    <3>1. PICK r \in 0..0, c \in 0..(n - 1) :
            x = <<GetOffset(l, 0 + r, 0 + c) - GetOffset(l, 0, 0), GetOffset(l, 0 + r, 0 + c) - GetOffset(l, 0, 0)>>
      BY <1>6
    <3> QED
      BY <1>7, <3>1 DEF Diagonal
  <2>2. ASSUME NEW x \in Diagonal(n)
        PROVE  x \in Places(j)
    <3>1. PICK c \in 0..(n - 1) : x = <<c, c>>
      BY DEF Diagonal
    <3> QED
      BY <1>6, <1>7, <3>1
  <2> QED
    BY <2>1, <2>2
<1> QED
  BY <1>1, <1>2, <1>5, <1>8 DEF j

(* The same for a job that is cut.                                         *)
LEMMA CutJobIs ==
    ASSUME NEW j, CutJob(j)
    PROVE  /\ j.cols \in Nat \ {0} /\ j.into.r = 0 /\ j.into.c = 0
           /\ Capacity(j.into.l) = j.cols
           /\ OnePerPlace(Goal(j), j.cols)
           /\ PartitionOf(Pieces(j), Goal(j))
<1>1. PICK cut, e, args : \E n \in Nat \ {0} : j = Whole(cut, e, args, n)
  BY DEF CutJob
<1>2. PICK n \in Nat \ {0} : j = Whole(cut, e, args, n)
  BY <1>1
<1> QED
  BY <1>2, WholeIs DEF CutJob

(* A whole whose elements are their own places is cut by a partition.      *)
LEMMA PartitionedJob ==
    ASSUME NEW cut, NEW e, NEW args, NEW n \in Nat \ {0}, cut # "kernel",
           Partition(Pieces(Whole(cut, e, args, n)), n)
    PROVE  CutJob(Whole(cut, e, args, n))
<1>1. OnePerPlace(Diagonal(n), n)
  BY DEF OnePerPlace, Diagonal
<1> QED
  BY <1>1, WholeIs DEF CutJob, Goal, Partition

(* All pieces are left at first.                                           *)
LEMMA PartitionInit == ASSUME rest = Pieces(job), place = {} PROVE PartitionInv
<1> SUFFICES ASSUME CutJob(job)
             PROVE  Remaining /\ PiecesOfJob
  BY DEF PartitionInv
<1> QED
  BY CutJobIs DEF Remaining, PartitionOf, PiecesOfJob

(* A piece puts in place what was in no other piece.                       *)
LEMMA PartitionNext == ASSUME PartitionInv, [Execute]_vars PROVE PartitionInv'
<1>1. CASE Execute
  <2> SUFFICES ASSUME CutJob(job)'
               PROVE  (Remaining /\ PiecesOfJob)'
    BY DEF PartitionInv
  <2>1. job' = job /\ rest # << >> /\ rest' = Tail(rest)
        /\ place' = {p \in place : p[1] \notin Targets(Head(rest))} \cup Head(rest)
    BY <1>1 DEF Execute
  <2>2. CutJob(job)
    BY <2>1
  <2>3. Remaining /\ PiecesOfJob
    BY <2>2 DEF PartitionInv
  <2> DEFINE W == Goal(job)
             S == SUBSET W
             head == Head(rest)
  <2>4. /\ rest \in Seq(S) /\ Len(rest) \in Nat /\ Len(rest) # 0
        /\ DOMAIN rest = 1..Len(rest) /\ head = rest[1] /\ head \in S
    BY <2>1, <2>3 DEF Remaining
  <2>5. /\ rest' \in Seq(S) /\ Len(rest') = Len(rest) - 1 /\ DOMAIN rest' = 1..(Len(rest) - 1)
        /\ \A k \in 1..(Len(rest) - 1) : rest'[k] = rest[k + 1]
    BY <2>1, <2>4
  <2>6. place' = place \cup head
    <3>1. ASSUME NEW p \in place
          PROVE  p[1] \notin Targets(head)
      <4> SUFFICES ASSUME NEW q \in head, q[1] = p[1]
                   PROVE  FALSE
        BY DEF Targets
      <4> QED
        BY <2>2, <2>3, <2>4, CutJobIs DEF Remaining, OnePerPlace
    <3> QED
      BY <2>1, <3>1
  <2> HIDE DEF head
  <2>7. Remaining'
    <3>1. place' \subseteq W
      BY <2>3, <2>4, <2>6 DEF Remaining
    <3>2. ASSUME NEW x \in W, x \notin place'
          PROVE  \E k \in DOMAIN rest' : x \in rest'[k]
      <4>1. x \notin place /\ x \notin head
        BY <2>6, <3>2
      <4>2. PICK k \in DOMAIN rest : x \in rest[k]
        BY <2>3, <4>1 DEF Remaining
      <4>3. k - 1 \in 1..(Len(rest) - 1) /\ (k - 1) + 1 = k
        BY <2>4, <4>1, <4>2
      <4> QED
        BY <2>5, <4>2, <4>3
    <3>3. ASSUME NEW k \in 1..(Len(rest) - 1)
          PROVE  k + 1 \in DOMAIN rest /\ k + 1 # 1 /\ rest'[k] = rest[k + 1]
      BY <2>4, <2>5
    <3>4. ASSUME NEW k \in DOMAIN rest'
          PROVE  rest'[k] \cap place' = {}
      BY <2>3, <2>4, <2>5, <2>6, <3>3 DEF Remaining
    <3>5. ASSUME NEW k \in DOMAIN rest', NEW l \in DOMAIN rest', k # l
          PROVE  rest'[k] \cap rest'[l] = {}
      <4>1. /\ k + 1 \in DOMAIN rest /\ rest'[k] = rest[k + 1]
            /\ l + 1 \in DOMAIN rest /\ rest'[l] = rest[l + 1]
            /\ k + 1 # l + 1
        BY <2>5, <3>3, <3>5
      <4> QED
        BY <2>3, <4>1 DEF Remaining
    <3> QED
      BY <2>1, <2>5, <3>1, <3>2, <3>4, <3>5 DEF Remaining
  <2>8. PiecesOfJob'
    <3>1. ASSUME NEW k \in DOMAIN rest'
          PROVE  \E l \in DOMAIN Pieces(job) : rest'[k] = Pieces(job)[l]
      BY <2>3, <2>4, <2>5 DEF PiecesOfJob
    <3> QED
      BY <2>1, <3>1 DEF PiecesOfJob
  <2> QED
    BY <2>7, <2>8
<1>2. CASE UNCHANGED vars
  BY <1>2 DEF vars, PartitionInv, Remaining, PiecesOfJob
<1> QED
  BY <1>1, <1>2

(* What the invariant says of the properties.                              *)
LEMMA CutJobsEnd ==
    ASSUME PartitionInv, CutJob(job)
    PROVE  ElementsInPlace /\ StaysInBuffer
<1>1. Remaining
  BY DEF PartitionInv
<1>2. /\ job.cols \in Nat \ {0} /\ Capacity(job.into.l) = job.cols
      /\ OnePerPlace(Goal(job), job.cols)
  BY CutJobIs
<1>3. ASSUME rest = << >>
      PROVE  {p \in place : p[1] \in Targets(Goal(job))} = Goal(job)
  BY <1>1, <1>2, <1>3 DEF Targets, Remaining
<1>4. ASSUME NEW p \in place
      PROVE  p[1] \in 0..(job.cols - 1)
  BY <1>1, <1>2 DEF Remaining, OnePerPlace
<1> QED
  BY <1>2, <1>3, <1>4 DEF ElementsInPlace, StaysInBuffer

(* By the invariant a piece that is next has nothing that is in place.     *)
LEMMA CutJobsDisjoint ==
    ASSUME PartitionInv, CutJob(job), rest # << >>
    PROVE  Targets(place) \cap Targets(Head(rest)) = {}
<1> SUFFICES ASSUME NEW p \in place, NEW q \in Head(rest), p[1] = q[1]
             PROVE  FALSE
  BY DEF Targets
<1> QED
  BY CutJobIs DEF Remaining, OnePerPlace, PartitionInv

-----------------------------------------------------------------------------
(* FlattenSeq, which the pieces of several cores go through.               *)

(* A set of naturals has a least member, so what holds of n whenever it    *)
(* holds below n holds of every n.                                         *)
LEMMA Least ==
    ASSUME NEW T, T \subseteq Nat, T # {}
    PROVE  \E m \in T : \A n \in T : m <= n
<1>1. PICK x \in T : \A y \in T : ~(<<y, x>> \in OpToRel(<, Nat))
  BY NatLessThanWellFounded, WFMin
<1>2. \A y \in T : ~(y < x)
  BY <1>1 DEF OpToRel
<1> QED
  BY <1>2

(* The values of f on 1..n follow from the one before by the steps G[i].   *)
Follows(f, n, base, G) == \A i \in 1..n : f[i] = IF i = 1 THEN base ELSE G[i][f[i - 1]]

(* There is such a function.                                               *)
LEMMA Recursion ==
    ASSUME NEW V, NEW n \in Nat, NEW base \in V, NEW G \in [2..n -> [V -> V]]
    PROVE  \E f \in [1..n -> V] : Follows(f, n, base, G)
<1> DEFINE Is(f, k) == \A i \in 1..k : f[i] = IF i = 1 THEN base ELSE G[i][f[i - 1]]
           Some(k) == \E f \in [1..k -> V] : Is(f, k)
           T == {k \in 0..n : ~Some(k)}
<1> SUFFICES ASSUME T # {}
             PROVE  FALSE
  <2>1. Some(n) => \E f \in [1..n -> V] : Follows(f, n, base, G)
    BY DEF Follows
  <2> HIDE DEF Some
  <2> QED
    BY <2>1
<1>1. PICK k \in T : \A j \in T : k <= j
  <2>1. T \subseteq Nat
    OBVIOUS
  <2> QED
    BY <2>1, Least
<1>2. k # 0
  <2>1. [i \in 1..0 |-> base] \in [1..0 -> V] /\ Is([i \in 1..0 |-> base], 0)
    OBVIOUS
  <2> QED
    BY <2>1
<1>3. k - 1 \in 0..n /\ k - 1 \notin T
  <2>1. k - 1 \in 0..n /\ ~(k <= k - 1)
    BY <1>1, <1>2
  <2> HIDE DEF T
  <2> QED
    BY <1>1, <2>1
<1>4. PICK f \in [1..(k - 1) -> V] : Is(f, k - 1)
  BY <1>3
<1> DEFINE g == [i \in 1..k |-> IF i < k THEN f[i] ELSE IF i = 1 THEN base ELSE G[i][f[i - 1]]]
<1>5. g \in [1..k -> V]
  <2>1. ASSUME NEW i \in 1..k
        PROVE  g[i] \in V
    <3>1. CASE i < k
      BY <3>1
    <3>2. CASE i = k /\ i = 1
      BY <3>2
    <3>3. CASE i = k /\ i # 1
      BY <1>1, <3>3
    <3> QED
      BY <1>1, <3>1, <3>2, <3>3
  <2> QED
    BY <2>1
<1>6. Is(g, k)
  <2>1. ASSUME NEW i \in 1..k
        PROVE  g[i] = IF i = 1 THEN base ELSE G[i][g[i - 1]]
    <3>1. i # 1 => g[i - 1] = f[i - 1]
      BY <1>1
    <3>2. CASE i < k
      BY <1>1, <1>4, <3>1, <3>2
    <3>3. CASE i = k
      BY <1>1, <3>1, <3>3
    <3> QED
      BY <1>1, <3>2, <3>3
  <2> QED
    BY <2>1
<1> QED
  BY <1>1, <1>5, <1>6

(* Where the elements of two sequences are when they are joined.           *)
LEMMA Joined ==
    ASSUME NEW S, NEW p \in Seq(S), NEW q \in Seq(S)
    PROVE  /\ \A k \in DOMAIN p : k \in DOMAIN (p \o q) /\ (p \o q)[k] = p[k]
           /\ \A k \in DOMAIN q :
                Len(p) + k \in DOMAIN (p \o q) /\ (p \o q)[Len(p) + k] = q[k]
OBVIOUS

(* And where those of the joined one are from.                             *)
LEMMA Parted ==
    ASSUME NEW S, NEW p \in Seq(S), NEW q \in Seq(S), NEW k \in DOMAIN (p \o q)
    PROVE  /\ k \in Nat
           /\ \/ k \in DOMAIN p /\ (p \o q)[k] = p[k] /\ k <= Len(p)
              \/ k - Len(p) \in DOMAIN q /\ (p \o q)[k] = q[k - Len(p)] /\ k > Len(p)
OBVIOUS

(* What FlattenSeq returns has the elements of the sequences and no other. *)
LEMMA Flattened ==
    ASSUME NEW S, NEW seqs \in Seq(Seq(S))
    PROVE  /\ FlattenSeq(seqs) \in Seq(S)
           /\ \A i \in DOMAIN seqs : \A j \in DOMAIN seqs[i] :
                \E k \in DOMAIN FlattenSeq(seqs) : FlattenSeq(seqs)[k] = seqs[i][j]
           /\ \A k \in DOMAIN FlattenSeq(seqs) :
                \E i \in DOMAIN seqs : \E j \in DOMAIN seqs[i] : FlattenSeq(seqs)[k] = seqs[i][j]
           /\ \A k, l \in DOMAIN FlattenSeq(seqs) : k < l =>
                \E a, c \in DOMAIN seqs : \E b \in DOMAIN seqs[a], d \in DOMAIN seqs[c] :
                  /\ a < c \/ (a = c /\ b < d)
                  /\ FlattenSeq(seqs)[k] = seqs[a][b] /\ FlattenSeq(seqs)[l] = seqs[c][d]
<1>1. CASE Len(seqs) = 0
  <2>1. FlattenSeq(seqs) = seqs
    BY <1>1 DEF FlattenSeq
  <2>2. seqs = << >>
    BY <1>1
  <2>3. << >> \in Seq(S)
    OBVIOUS
  <2>4. DOMAIN seqs = {}
    BY <2>2
  <2> QED
    BY <2>1, <2>2, <2>3, <2>4
<1>2. CASE Len(seqs) # 0
  <2> DEFINE n == Len(seqs)
             P(g) == g = [i \in 1..n |-> IF i = 1 THEN seqs[i] ELSE g[i - 1] \o seqs[i]]
             G == [i \in 2..n |-> [v \in Seq(S) |-> v \o seqs[i]]]
  <2>1. n \in Nat /\ n # 0 /\ DOMAIN seqs = 1..n /\ \A i \in 1..n : seqs[i] \in Seq(S)
    BY <1>2
  <2>2. FlattenSeq(seqs) = (CHOOSE g : P(g))[n]
    BY <1>2 DEF FlattenSeq
  <2> HIDE DEF n
  <2>3. G \in [2..n -> [Seq(S) -> Seq(S)]]
    BY <2>1
  <2> HIDE DEF G
  <2>4. PICK f \in [1..n -> Seq(S)] :
             \A i \in 1..n : f[i] = IF i = 1 THEN seqs[1] ELSE G[i][f[i - 1]]
    <3>1. seqs[1] \in Seq(S) /\ n \in Nat
      BY <2>1
    <3> DEFINE V == Seq(S)
               base == seqs[1]
    <3>2. base \in V /\ G \in [2..n -> [V -> V]]
      BY <2>3, <3>1
    <3> HIDE DEF V, base
    <3>3. \E f \in [1..n -> V] : Follows(f, n, base, G)
      BY <3>1, <3>2, Recursion
    <3> QED
      BY <3>3 DEF V, base, Follows
  <2>5. P(f)
    <3>1. ASSUME NEW i \in 1..n
          PROVE  f[i] = IF i = 1 THEN seqs[i] ELSE f[i - 1] \o seqs[i]
      <4>1. CASE i = 1
        BY <2>4, <4>1
      <4>2. CASE i # 1
        <5>1. i \in 2..n /\ i - 1 \in 1..n
          BY <2>1, <4>2
        <5>2. f[i - 1] \in Seq(S)
          BY <5>1
        <5>3. G[i][f[i - 1]] = f[i - 1] \o seqs[i]
          BY <5>1, <5>2, Zenon DEF G
        <5> QED
          BY <2>4, <4>2, <5>3
      <4> QED
        BY <4>1, <4>2
    <3> QED
      BY <3>1
  <2> DEFINE h == CHOOSE g : P(g)
  <2>6. P(h)
    BY <2>5, Zenon
  <2>7. FlattenSeq(seqs) = h[n]
    BY <2>2
  <2> HIDE DEF h, P
  <2>8. \A i \in 1..n : h[i] = IF i = 1 THEN seqs[i] ELSE h[i - 1] \o seqs[i]
    BY <2>6 DEF P
  <2> DEFINE Has(i) == /\ h[i] \in Seq(S)
                       /\ \A m \in 1..i : \A j \in DOMAIN seqs[m] :
                            \E k \in DOMAIN h[i] : h[i][k] = seqs[m][j]
                       /\ \A k \in DOMAIN h[i] :
                            \E m \in 1..i : \E j \in DOMAIN seqs[m] : h[i][k] = seqs[m][j]
                       /\ \A k, l \in DOMAIN h[i] : k < l =>
                            \E a, c \in 1..i : \E b \in DOMAIN seqs[a], d \in DOMAIN seqs[c] :
                              /\ a < c \/ (a = c /\ b < d)
                              /\ h[i][k] = seqs[a][b] /\ h[i][l] = seqs[c][d]
             T == {i \in 1..n : ~Has(i)}
  <2> HIDE DEF Has
  <2>9. T = {}
    <3> SUFFICES ASSUME T # {}
                 PROVE  FALSE
      OBVIOUS
    <3>1. PICK i \in T : \A j \in T : i <= j
      <4>1. T \subseteq Nat
        BY <2>1
      <4> QED
        BY <4>1, Least
    <3>2. CASE i = 1
      <4>1. h[i] = seqs[1]
        BY <2>1, <2>8, <3>2
      <4>2. Has(i)
        BY <2>1, <3>2, <4>1 DEF Has
      <4> QED
        BY <3>1, <4>2
    <3>3. CASE i # 1
      <4>1. i - 1 \in 1..n /\ i \in 1..n /\ Has(i - 1)
        BY <2>1, <3>1, <3>3
      <4>2. h[i] = h[i - 1] \o seqs[i] /\ h[i - 1] \in Seq(S) /\ seqs[i] \in Seq(S)
        BY <2>1, <2>8, <3>3, <4>1 DEF Has
      <4> DEFINE p == h[i - 1]
                 q == seqs[i]
      <4>3. h[i] \in Seq(S)
        BY <4>2
      <4>4. h[i] = p \o q /\ p \in Seq(S) /\ q \in Seq(S)
        BY <4>2
      <4> HIDE DEF p, q
      <4>5. /\ \A k \in DOMAIN p : k \in DOMAIN h[i] /\ h[i][k] = p[k]
            /\ \A k \in DOMAIN q : Len(p) + k \in DOMAIN h[i] /\ h[i][Len(p) + k] = q[k]
        BY <4>4, Joined
      <4>6. ASSUME NEW k \in DOMAIN h[i]
            PROVE  /\ k \in Nat
                   /\ \/ k \in DOMAIN p /\ h[i][k] = p[k] /\ k <= Len(p)
                      \/ /\ k - Len(p) \in DOMAIN q /\ h[i][k] = q[k - Len(p)]
                         /\ k > Len(p)
        BY <4>4, Parted
      <4>7. ASSUME NEW k \in DOMAIN h[i]
            PROVE  \E m \in 1..i : \E j \in DOMAIN seqs[m] : h[i][k] = seqs[m][j]
        <5>1. CASE k \in DOMAIN p /\ h[i][k] = p[k]
          <6>1. PICK m \in 1..(i - 1) : \E j \in DOMAIN seqs[m] : p[k] = seqs[m][j]
            BY <4>1, <5>1 DEF Has, p
          <6>2. m \in 1..i
            BY <4>1, <6>1
          <6> QED
            BY <5>1, <6>1, <6>2
        <5>2. CASE k - Len(p) \in DOMAIN q /\ h[i][k] = q[k - Len(p)]
          BY <4>1, <5>2 DEF q
        <5> QED
          BY <4>6, <5>1, <5>2
      <4>8. ASSUME NEW k \in DOMAIN h[i], NEW l \in DOMAIN h[i], k < l
            PROVE  \E a, c \in 1..i : \E b \in DOMAIN seqs[a], d \in DOMAIN seqs[c] :
                     /\ a < c \/ (a = c /\ b < d)
                     /\ h[i][k] = seqs[a][b] /\ h[i][l] = seqs[c][d]
        <5>1. CASE l \in DOMAIN p /\ h[i][l] = p[l] /\ l <= Len(p)
          <6>1. k \in DOMAIN p /\ h[i][k] = p[k]
            BY <4>4, <4>6, <4>8, <5>1
          <6>2. PICK a \in 1..(i - 1), c \in 1..(i - 1) :
                  \E b \in DOMAIN seqs[a], d \in DOMAIN seqs[c] :
                    /\ a < c \/ (a = c /\ b < d)
                    /\ p[k] = seqs[a][b] /\ p[l] = seqs[c][d]
            BY <4>1, <4>8, <5>1, <6>1 DEF Has, p
          <6>3. a \in 1..i /\ c \in 1..i
            BY <4>1, <6>2
          <6> QED
            BY <5>1, <6>1, <6>2, <6>3
        <5>2. CASE l - Len(p) \in DOMAIN q /\ h[i][l] = q[l - Len(p)] /\ l > Len(p)
          <6>1. CASE k \in DOMAIN p /\ h[i][k] = p[k]
            <7>1. PICK m \in 1..(i - 1) : \E j \in DOMAIN seqs[m] : p[k] = seqs[m][j]
              BY <4>1, <6>1 DEF Has, p
            <7>2. m \in 1..i /\ m < i /\ i \in 1..i
              BY <4>1, <7>1
            <7>3. l - Len(p) \in DOMAIN seqs[i] /\ h[i][l] = seqs[i][l - Len(p)]
              BY <5>2 DEF q
            <7>4. PICK j \in DOMAIN seqs[m] : h[i][k] = seqs[m][j]
              BY <6>1, <7>1
            <7> QED
              BY <7>2, <7>3, <7>4
          <6>2. CASE k - Len(p) \in DOMAIN q /\ h[i][k] = q[k - Len(p)] /\ k > Len(p)
            <7>1. /\ l - Len(p) \in DOMAIN seqs[i] /\ h[i][l] = seqs[i][l - Len(p)]
                  /\ k - Len(p) \in DOMAIN seqs[i] /\ h[i][k] = seqs[i][k - Len(p)]
              BY <5>2, <6>2 DEF q
            <7>2. k - Len(p) < l - Len(p) /\ i \in 1..i
              BY <4>1, <4>4, <4>6, <4>8
            <7> QED
              BY <7>1, <7>2
          <6> QED
            BY <4>6, <6>1, <6>2
        <5> QED
          BY <4>6, <5>1, <5>2
      <4>9. ASSUME NEW m \in 1..i, NEW j \in DOMAIN seqs[m]
            PROVE  \E k \in DOMAIN h[i] : h[i][k] = seqs[m][j]
        <5>1. CASE m = i
          <6>1. j \in DOMAIN q /\ q[j] = seqs[m][j]
            BY <5>1 DEF q
          <6> QED
            BY <4>5, <6>1
        <5>2. CASE m # i
          <6>1. m \in 1..(i - 1)
            BY <4>1, <5>2
          <6>2. PICK k \in DOMAIN h[i - 1] : h[i - 1][k] = seqs[m][j]
            BY <4>1, <6>1 DEF Has
          <6>3. k \in DOMAIN h[i] /\ h[i][k] = h[i - 1][k]
            BY <4>5, <6>2 DEF p
          <6> QED
            BY <6>2, <6>3
        <5> QED
          BY <5>1, <5>2
      <4> QED
        BY <3>1, <4>3, <4>9, <4>7, <4>8 DEF Has
    <3> QED
      BY <3>2, <3>3
  <2>10. n \in 1..n
    BY <2>1
  <2>11. Has(n)
    BY <2>9, <2>10
  <2> DEFINE all == FlattenSeq(seqs)
  <2>12. all = h[n] /\ DOMAIN seqs = 1..n
    BY <2>1, <2>7
  <2> HIDE DEF all, n
  <2>13. /\ all \in Seq(S)
         /\ \A m \in DOMAIN seqs : \A j \in DOMAIN seqs[m] :
              \E k \in DOMAIN all : all[k] = seqs[m][j]
    BY <2>11, <2>12 DEF Has
  <2>14. ASSUME NEW k \in DOMAIN all
         PROVE  \E m \in DOMAIN seqs : \E j \in DOMAIN seqs[m] : all[k] = seqs[m][j]
    <3>1. k \in DOMAIN h[n]
      BY <2>12
    <3>2. PICK m \in 1..n : \E j \in DOMAIN seqs[m] : h[n][k] = seqs[m][j]
      BY <2>11, <3>1 DEF Has
    <3> QED
      BY <2>12, <3>2
  <2>15. ASSUME NEW k \in DOMAIN all, NEW l \in DOMAIN all, k < l
         PROVE  \E a, c \in DOMAIN seqs : \E b \in DOMAIN seqs[a], d \in DOMAIN seqs[c] :
                  /\ a < c \/ (a = c /\ b < d)
                  /\ all[k] = seqs[a][b] /\ all[l] = seqs[c][d]
    <3>1. k \in DOMAIN h[n] /\ l \in DOMAIN h[n]
      BY <2>12
    <3>2. PICK a \in 1..n, c \in 1..n : \E b \in DOMAIN seqs[a], d \in DOMAIN seqs[c] :
            /\ a < c \/ (a = c /\ b < d)
            /\ h[n][k] = seqs[a][b] /\ h[n][l] = seqs[c][d]
      BY <2>11, <2>15, <3>1 DEF Has
    <3> QED
      BY <2>12, <3>2
  <2> QED
    BY <2>13, <2>14, <2>15 DEF all
<1> QED
  BY <1>1, <1>2

-----------------------------------------------------------------------------
(* The tiles of an all-reduce are a partition of its block.                *)

(* The element of row r and column c of a block of cols columns.           *)
Element(cols, r, c) == <<r * cols + c, r * cols + c>>

(* It has a number below that of all, and no two have the same.            *)
LEMMA ElementIs ==
    ASSUME NEW rows \in Nat \ {0}, NEW cols \in Nat \ {0},
           NEW r \in 0..(rows - 1), NEW c \in 0..(cols - 1)
    PROVE  /\ r * cols + c \in 0..(rows * cols - 1)
           /\ Element(cols, r, c) \in Diagonal(rows * cols)
<1> QED
  BY MultiplyMono DEF Element, Diagonal

(* No two elements have the same number.                                   *)
LEMMA ElementsDiffer ==
    ASSUME NEW cols \in Nat \ {0}, NEW r \in Nat, NEW c \in 0..(cols - 1),
           NEW x \in Nat, NEW y \in 0..(cols - 1), Element(cols, x, y) = Element(cols, r, c)
    PROVE  x = r /\ y = c
<1> QED
  BY Quotient DEF Element

(* Every element is one of a row and a column.                             *)
LEMMA ElementOf ==
    ASSUME NEW rows \in Nat \ {0}, NEW cols \in Nat \ {0}, NEW x \in Diagonal(rows * cols)
    PROVE  \E r \in 0..(rows - 1), c \in 0..(cols - 1) : x = Element(cols, r, c)
<1>1. PICK i \in 0..(rows * cols - 1) : x = <<i, i>>
  BY DEF Diagonal
<1> DEFINE r == i \div cols
           c == i % cols
<1>2. i \in Nat /\ i < rows * cols /\ rows * cols \in Nat
  OBVIOUS
<1>3. r \in Nat /\ c \in 0..(cols - 1) /\ i = r * cols + c
  BY <1>2, Division
<1> HIDE DEF r, c
<1>4. r \in 0..(rows - 1)
  BY <1>2, <1>3, MultiplyLess
<1> QED
  BY <1>1, <1>3, <1>4 DEF Element

-----------------------------------------------------------------------------
(* Blocks whose rows fit into a UB buffer, which the code needs.           *)
FittingBlocks == {t \in Blocks : RowFits(t)}

(* A core has a number of tiles. *)
LEMMA LoopsAre ==
    ASSUME NEW t \in FittingBlocks, NEW v \in Cores(t)
    PROVE  AivLoops(t, v) \in Nat
<1>1. t \in Blocks /\ RowFits(t)
  BY DEF FittingBlocks
<1>2. CASE CutsRows(t)
  BY <1>1, <1>2, PieceLoopsAre DEF AivLoops
<1>3. CASE ~CutsRows(t)
  BY <1>1, <1>3, CeilDivFacts, RowsPerLoop, RowsFollow DEF AivLoops, RowLoops
<1> QED
  BY <1>2, <1>3

(* A tile has rows and columns of the block.                               *)
LEMMA TileInside ==
    ASSUME NEW t \in FittingBlocks, NEW v \in Cores(t), NEW n \in 0..(AivLoops(t, v) - 1)
    PROVE  /\ AivTile(t, v, n) \in [rows : SUBSET (0..(t[1] - 1)), cols : SUBSET (0..(t[2] - 1))]
           /\ \E first \in AivTile(t, v, n).rows, left \in AivTile(t, v, n).cols :
                /\ left % Align = 0
                /\ \A r \in AivTile(t, v, n).rows : first <= r
                /\ \A c \in AivTile(t, v, n).cols : left <= c
<1>1. t \in Blocks /\ RowFits(t) /\ t[1] \in Nat \ {0} /\ t[2] \in Nat \ {0}
  BY BlockFacts DEF FittingBlocks
<1> DEFINE tile == AivTile(t, v, n)
<1>2. PICK first \in Nat, height \in Nat \ {0}, left \in Nat, width \in Nat \ {0} :
        /\ tile.rows = first..(first + height - 1) /\ first + height <= t[1]
        /\ tile.cols = left..(left + width - 1) /\ left + width <= t[2]
        /\ \E k \in Nat : left = k * Align
        /\ height * RoundUp(width, Align) <= ComputeLength
  BY <1>1, TilesFit
<1> HIDE DEF tile
<1>3. tile.rows \subseteq 0..(t[1] - 1) /\ tile.cols \subseteq 0..(t[2] - 1)
  <2>1. tile.rows = first..(first + height - 1) /\ first + height <= t[1]
    BY <1>2
  <2>2. tile.cols = left..(left + width - 1) /\ left + width <= t[2]
    BY <1>2
  <2>3. left..(left + width - 1) \subseteq 0..(t[2] - 1)
    BY <1>1, <2>2
  <2> QED
    BY <1>1, <2>1, <2>2, <2>3
<1>4. left % Align = 0
  <2>1. PICK k \in Nat : left = k * Align
    BY <1>2
  <2>2. left = k * Align + 0
    BY <1>2, <2>1
  <2> QED
    BY <2>2, AlignAssumption, Quotient
<1>5. first \in tile.rows /\ left \in tile.cols
  BY <1>2
<1>6. (\A r \in tile.rows : first <= r) /\ (\A c \in tile.cols : left <= c)
  BY <1>2
<1> QED
  BY <1>3, <1>4, <1>5, <1>6 DEF tile, AivTile, Piece, RowTile

(* The elements of a tile.                                                 *)
TileElements(t, tile) == {Element(t[2], r, c) : r \in tile.rows, c \in tile.cols}

(* The tiles of a block are a partition of it.                             *)
LEMMA AllReducePartition ==
    ASSUME NEW t \in FittingBlocks
    PROVE  /\ Partition(OfAllReduce(t), t[1] * t[2])
           /\ \A k \in DOMAIN OfAllReduce(t) :
                \E v \in Cores(t) : \E n \in 0..(AivLoops(t, v) - 1) :
                  OfAllReduce(t)[k] = TileElements(t, AivTile(t, v, n))
<1> DEFINE S == [rows : SUBSET (0..(t[1] - 1)), cols : SUBSET (0..(t[2] - 1))]
           seqs == [v \in 1..t[3] |-> [n \in 1..AivLoops(t, v - 1) |-> AivTile(t, v - 1, n - 1)]]
           tiles == AllReduceTiles(t)
           pieces == OfAllReduce(t)
           D == Diagonal(t[1] * t[2])
<1>1. t \in Blocks /\ RowFits(t) /\ t[1] \in Nat \ {0} /\ t[2] \in Nat \ {0} /\ t[3] \in Nat \ {0}
  BY BlockFacts DEF FittingBlocks
<1>2. tiles = FlattenSeq(seqs)
  BY DEF AllReduceTiles
<1>3. ASSUME NEW v \in 1..t[3]
      PROVE  v - 1 \in Cores(t) /\ AivLoops(t, v - 1) \in Nat
  BY <1>1, LoopsAre DEF Cores
<1>4. ASSUME NEW v \in 1..t[3], NEW n \in 1..AivLoops(t, v - 1)
      PROVE  n - 1 \in 0..(AivLoops(t, v - 1) - 1) /\ AivTile(t, v - 1, n - 1) \in S
  BY <1>3, TileInside
<1> HIDE DEF S
<1>5. seqs \in Seq(Seq(S))
  <2>1. ASSUME NEW v \in 1..t[3]
        PROVE  seqs[v] \in Seq(S)
    <3> DEFINE n == AivLoops(t, v - 1)
    <3>1. n \in Nat /\ seqs[v] \in [1..n -> S]
      BY <1>3, <1>4
    <3> HIDE DEF n, seqs
    <3> QED
      BY <3>1
  <2> DEFINE SS == Seq(S)
  <2>2. seqs \in [1..t[3] -> SS]
    BY <2>1
  <2> HIDE DEF SS, seqs
  <2> QED
    BY <1>1, <2>2 DEF SS
<1>6. DOMAIN seqs = 1..t[3] /\ \A v \in 1..t[3] : /\ DOMAIN seqs[v] = 1..AivLoops(t, v - 1)
                                                 /\ \A n \in DOMAIN seqs[v] : seqs[v][n] = AivTile(t, v - 1, n - 1)
  OBVIOUS
<1> HIDE DEF seqs
<1>7. /\ tiles \in Seq(S)
      /\ \A i \in DOMAIN seqs : \A j \in DOMAIN seqs[i] :
           \E k \in DOMAIN tiles : tiles[k] = seqs[i][j]
      /\ \A k \in DOMAIN tiles :
           \E i \in DOMAIN seqs : \E j \in DOMAIN seqs[i] : tiles[k] = seqs[i][j]
      /\ \A k, l \in DOMAIN tiles : k < l =>
           \E a, c \in DOMAIN seqs : \E b \in DOMAIN seqs[a], d \in DOMAIN seqs[c] :
             /\ a < c \/ (a = c /\ b < d)
             /\ tiles[k] = seqs[a][b] /\ tiles[l] = seqs[c][d]
  BY <1>2, <1>5, Flattened
<1> HIDE DEF tiles
<1>8. pieces = [k \in DOMAIN tiles |-> TileElements(t, tiles[k])]
  BY DEF OfAllReduce, TileElements, Element, tiles
<1>9. ASSUME NEW k \in DOMAIN tiles
      PROVE  TileElements(t, tiles[k]) \subseteq D
  <2>1. tiles[k].rows \subseteq 0..(t[1] - 1) /\ tiles[k].cols \subseteq 0..(t[2] - 1)
    <3>1. tiles[k] \in S
      BY <1>7
    <3> QED
      BY <3>1 DEF S
  <2>2. ASSUME NEW r \in tiles[k].rows, NEW c \in tiles[k].cols
        PROVE  Element(t[2], r, c) \in D
    BY <1>1, <2>1, ElementIs
  <2> QED
    BY <2>2 DEF TileElements
<1>10. pieces \in Seq(SUBSET D)
  <2> HIDE DEF pieces, D
  <2> QED
    BY <1>7, <1>8, <1>9
<1>11. ASSUME NEW x \in D
       PROVE  \E k \in DOMAIN pieces : x \in pieces[k]
  <2>1. PICK r \in 0..(t[1] - 1), c \in 0..(t[2] - 1) : x = Element(t[2], r, c)
    BY <1>1, ElementOf
  <2>2. PICK v \in Cores(t) : \E n \in 0..(AivLoops(t, v) - 1) : Holds(AivTile(t, v, n), r, c)
    BY <1>1, SomeTile
  <2>3. PICK n \in 0..(AivLoops(t, v) - 1) : Holds(AivTile(t, v, n), r, c)
    BY <2>2
  <2>4. v + 1 \in 1..t[3] /\ (v + 1) - 1 = v
    BY <1>1 DEF Cores
  <2>5. v + 1 \in DOMAIN seqs /\ n + 1 \in DOMAIN seqs[v + 1] /\ seqs[v + 1][n + 1] = AivTile(t, v, n)
    BY <1>6, <2>4, LoopsAre
  <2>6. PICK k \in DOMAIN tiles : tiles[k] = AivTile(t, v, n)
    BY <1>7, <2>5
  <2> QED
    BY <1>8, <2>1, <2>3, <2>6 DEF TileElements, Holds
<1>12. ASSUME NEW k \in DOMAIN pieces, NEW l \in DOMAIN pieces, k < l
       PROVE  pieces[k] \cap pieces[l] = {}
  <2>1. k \in DOMAIN tiles /\ l \in DOMAIN tiles
    BY <1>8
  <2>2. PICK a \in DOMAIN seqs, c \in DOMAIN seqs : \E b \in DOMAIN seqs[a], d \in DOMAIN seqs[c] :
          /\ a < c \/ (a = c /\ b < d)
          /\ tiles[k] = seqs[a][b] /\ tiles[l] = seqs[c][d]
    BY <1>7, <1>12, <2>1
  <2>3. PICK b \in DOMAIN seqs[a], d \in DOMAIN seqs[c] :
          /\ a < c \/ (a = c /\ b < d)
          /\ tiles[k] = seqs[a][b] /\ tiles[l] = seqs[c][d]
    BY <2>2
  <2>4. a \in 1..t[3] /\ c \in 1..t[3] /\ b \in 1..AivLoops(t, a - 1) /\ d \in 1..AivLoops(t, c - 1)
    BY <1>6
  <2>5. /\ a - 1 \in Cores(t) /\ c - 1 \in Cores(t)
        /\ b - 1 \in 0..(AivLoops(t, a - 1) - 1) /\ d - 1 \in 0..(AivLoops(t, c - 1) - 1)
    BY <1>3, <1>4, <2>4
  <2> SUFFICES ASSUME NEW x \in pieces[k], x \in pieces[l]
               PROVE  FALSE
    OBVIOUS
  <2>6. PICK r \in tiles[k].rows, s \in tiles[k].cols : x = Element(t[2], r, s)
    BY <1>8, <2>1 DEF TileElements
  <2>7. PICK u \in tiles[l].rows, w \in tiles[l].cols : x = Element(t[2], u, w)
    BY <1>8, <2>1 DEF TileElements
  <2>8. r \in 0..(t[1] - 1) /\ s \in 0..(t[2] - 1) /\ u \in 0..(t[1] - 1) /\ w \in 0..(t[2] - 1)
    <3>1. tiles[k] \in S /\ tiles[l] \in S
      BY <1>7, <2>1
    <3> QED
      BY <2>6, <2>7, <3>1 DEF S
  <2>9. u = r /\ w = s
    <3>1. u \in Nat /\ Element(t[2], u, w) = Element(t[2], r, s)
      BY <1>1, <2>6, <2>7, <2>8
    <3> QED
      BY <1>1, <2>8, <3>1, ElementsDiffer
  <2>10. Holds(AivTile(t, a - 1, b - 1), r, s) /\ Holds(AivTile(t, c - 1, d - 1), r, s)
    BY <1>6, <2>3, <2>6, <2>7, <2>9 DEF Holds
  <2>11. a - 1 = c - 1 /\ b - 1 = d - 1
    BY <1>1, <2>5, <2>8, <2>10, OneTile
  <2> QED
    BY <2>3, <2>4, <2>11
<1>13. ASSUME NEW k \in DOMAIN pieces, NEW l \in DOMAIN pieces, k # l
       PROVE  pieces[k] \cap pieces[l] = {}
  BY <1>7, <1>8, <1>12, <1>13
<1>14. ASSUME NEW k \in DOMAIN pieces
       PROVE  \E v \in Cores(t) : \E n \in 0..(AivLoops(t, v) - 1) :
                pieces[k] = TileElements(t, AivTile(t, v, n))
  <2>1. k \in DOMAIN tiles /\ pieces[k] = TileElements(t, tiles[k])
    BY <1>8
  <2>2. PICK i \in DOMAIN seqs : \E j \in DOMAIN seqs[i] : tiles[k] = seqs[i][j]
    BY <1>7, <2>1
  <2>3. PICK j \in DOMAIN seqs[i] : tiles[k] = seqs[i][j]
    BY <2>2
  <2> QED
    BY <1>3, <1>4, <1>6, <2>1, <2>3
<1> QED
  BY <1>10, <1>11, <1>13, <1>14 DEF Partition, PartitionOf

(* A tile has what a piece of an all-reduce must have.                     *)
LEMMA TilePiece ==
    ASSUME NEW t \in FittingBlocks, NEW v \in Cores(t), NEW n \in 0..(AivLoops(t, v) - 1),
           NEW piece, piece = Targets(TileElements(t, AivTile(t, v, n)))
    PROVE  /\ piece # {}
           /\ \E p \in piece : (p % t[2]) % Align = 0 /\ \A q \in piece : p <= q
<1> DEFINE tile == AivTile(t, v, n)
<1>1. t[1] \in Nat \ {0} /\ t[2] \in Nat \ {0}
  BY BlockFacts DEF FittingBlocks
<1>2. tile.rows \subseteq 0..(t[1] - 1) /\ tile.cols \subseteq 0..(t[2] - 1)
  BY TileInside
<1>3. PICK first \in tile.rows, left \in tile.cols :
        /\ left % Align = 0
        /\ \A r \in tile.rows : first <= r
        /\ \A c \in tile.cols : left <= c
  BY TileInside
<1> HIDE DEF tile
<1>4. piece = {r * t[2] + c : r \in tile.rows, c \in tile.cols}
  <2>1. ASSUME NEW p \in piece
        PROVE  p \in {r * t[2] + c : r \in tile.rows, c \in tile.cols}
    BY DEF Targets, TileElements, Element, tile
  <2>2. ASSUME NEW r \in tile.rows, NEW c \in tile.cols
        PROVE  r * t[2] + c \in piece
    <3>1. Element(t[2], r, c) \in TileElements(t, tile) /\ Element(t[2], r, c)[1] = r * t[2] + c
      BY DEF TileElements, Element
    <3> QED
      BY <3>1 DEF Targets, tile
  <2> QED
    BY <2>1, <2>2
<1> DEFINE p == first * t[2] + left
<1>5. p % t[2] = left
  <2>1. first \in Nat /\ left \in 0..(t[2] - 1)
    BY <1>1, <1>2
  <2> QED
    BY <1>1, <2>1, Quotient
<1>6. ASSUME NEW q \in piece
      PROVE  p <= q
  <2>1. PICK r \in tile.rows, c \in tile.cols : q = r * t[2] + c
    BY <1>4
  <2> QED
    BY <1>1, <1>2, <1>3, <2>1, MultiplyMono
<1> QED
  BY <1>3, <1>4, <1>5, <1>6

(* The jobs that put an all-reduce together.                               *)
AllReduceJobs == {Whole("AllReduce", Align, t, t[1] * t[2]) : t \in FittingBlocks}

(* They are wholes that are cut into pieces.                               *)
LEMMA AllReduceJobIs ==
    ASSUME NEW j \in AllReduceJobs
    PROVE  /\ CutJob(j) /\ j.copy = "AllReduce" /\ j.args \in FittingBlocks
           /\ Pieces(j) = OfAllReduce(j.args)
<1>1. PICK t \in FittingBlocks : j = Whole("AllReduce", Align, t, t[1] * t[2])
  BY DEF AllReduceJobs
<1> DEFINE n == t[1] * t[2]
<1>2. n \in Nat \ {0}
  BY BlockFacts DEF FittingBlocks
<1>3. j = Whole("AllReduce", Align, t, n) /\ Partition(OfAllReduce(t), n)
  BY <1>1, AllReducePartition
<1> HIDE DEF n
<1> QED
  BY <1>2, <1>3, PartitionedJob, WholeIs DEF Pieces

(* By the invariant what is left of an all-reduce are its tiles, which are *)
(* not empty, begin aligned and fit into a UB buffer.                      *)
LEMMA AllReduceFits ==
    ASSUME PartitionInv, job \in AllReduceJobs
    PROVE  AllReducePiecesFit
<1>1. /\ CutJob(job) /\ job.args \in FittingBlocks /\ Pieces(job) = OfAllReduce(job.args)
  BY AllReduceJobIs
<1> DEFINE t == job.args
<1> SUFFICES ASSUME rest # << >>
             PROVE  LET piece == Targets(Head(rest))
                    IN /\ piece # {}
                       /\ \E p \in piece : (p % t[2]) % Align = 0 /\ \A q \in piece : p <= q
                       /\ CutsRows(t) => \A v \in 0..(t[3] - 1) : AivLoops(t, v) <= 1
  BY DEF AllReducePiecesFit
<1>2. PICK l \in DOMAIN OfAllReduce(t) : Head(rest) = OfAllReduce(t)[l]
  BY <1>1 DEF PiecesOfJob, Remaining, PartitionInv
<1>3. PICK v \in Cores(t) : \E n \in 0..(AivLoops(t, v) - 1) :
        Head(rest) = TileElements(t, AivTile(t, v, n))
  BY <1>1, <1>2, AllReducePartition
<1>4. PICK n \in 0..(AivLoops(t, v) - 1) : Head(rest) = TileElements(t, AivTile(t, v, n))
  BY <1>3
<1> QED
  BY <1>1, <1>4, OnePiecePerCore, TilePiece DEF FittingBlocks, Cores

(* The run's all-reduce jobs are among them. *)
LEMMA TilingJobsAre == TilingJobs \subseteq AllReduceJobs
<1> SUFFICES ASSUME NEW j \in TilingJobs
             PROVE  j \in AllReduceJobs
  OBVIOUS
<1> DEFINE F(rows, cols, aivNum) == Whole("AllReduce", Align, <<rows, cols, aivNum>>, rows * cols)
<1>1. TilingJobs = {F(rows, cols, aivNum) : rows \in 1..9, cols \in 1..ComputeLength, aivNum \in {2, 4, 6, 8}}
  BY DEF TilingJobs
<1> HIDE DEF F
<1>2. PICK rows \in 1..9, cols \in 1..ComputeLength, aivNum \in {2, 4, 6, 8} : j = F(rows, cols, aivNum)
  BY <1>1
<1> USE DEF F
<1> DEFINE t == <<rows, cols, aivNum>>
<1>3. t \in Blocks /\ t[1] = rows /\ t[2] = cols
  BY AlignAssumption DEF Blocks
<1>4. RowFits(t)
  <2> DEFINE n == ComputeLength \div Align
  <2>1. n \in Nat /\ ComputeLength = n * Align
    <3>1. n \in Nat /\ ComputeLength = n * Align + (ComputeLength % Align)
      BY AlignAssumption, Division
    <3> HIDE DEF n
    <3> QED
      BY <3>1, AlignAssumption
  <2> HIDE DEF n
  <2> QED
    BY <1>3, <2>1, RoundUpLeast, AlignAssumption DEF RowFits
<1> QED
  BY <1>2, <1>3, <1>4 DEF AllReduceJobs, FittingBlocks

-----------------------------------------------------------------------------
(* Things shared out in runs, and the elements of a problem.               *)

(* n things shared out in k runs that follow each other, the first ones    *)
(* one longer.                                                             *)
RunStart(n, k, i) == i * (n \div k) + (IF i < n % k THEN i ELSE n % k)

(* How many a run has.                                                     *)
RunLength(n, k, i) == n \div k + (IF i < n % k THEN 1 ELSE 0)

(* Thing x is in run i.                                                    *)
InRun(n, k, i, x) == RunStart(n, k, i) <= x /\ x < RunStart(n, k, i) + RunLength(n, k, i)

(* Runs follow each other, from the first thing to the last.               *)
LEMMA RunsFollow ==
    ASSUME NEW n \in Nat, NEW k \in Nat \ {0}, NEW i \in Nat
    PROVE  /\ RunStart(n, k, i) \in Nat /\ RunLength(n, k, i) \in Nat
           /\ RunStart(n, k, i) + RunLength(n, k, i) = RunStart(n, k, i + 1)
           /\ RunStart(n, k, 0) = 0 /\ RunStart(n, k, k) = n
<1> DEFINE q == n \div k
           m == n % k
<1>1. q \in Nat /\ m \in 0..(k - 1) /\ n = q * k + m
  BY Division
<1> HIDE DEF q, m
<1>2. /\ \A j \in Nat : RunStart(n, k, j) = j * q + (IF j < m THEN j ELSE m)
      /\ RunLength(n, k, i) = q + (IF i < m THEN 1 ELSE 0)
  BY DEF RunStart, RunLength, q, m
<1>3. i * q \in Nat /\ (i + 1) * q = i * q + q /\ 0 * q = 0 /\ k * q = q * k
  BY <1>1
<1>4. /\ RunStart(n, k, i) = i * q + (IF i < m THEN i ELSE m)
      /\ RunStart(n, k, i + 1) = i * q + q + (IF i + 1 < m THEN i + 1 ELSE m)
      /\ RunStart(n, k, 0) = 0 + (IF 0 < m THEN 0 ELSE m)
      /\ RunStart(n, k, k) = q * k + (IF k < m THEN k ELSE m)
  BY <1>2, <1>3
<1> DEFINE A == i * q
           B == q * k
<1>5. A \in Nat /\ n = B + m
  BY <1>1, <1>3
<1>6. /\ RunStart(n, k, i) = A + (IF i < m THEN i ELSE m)
      /\ RunStart(n, k, i + 1) = A + q + (IF i + 1 < m THEN i + 1 ELSE m)
      /\ RunStart(n, k, k) = B + (IF k < m THEN k ELSE m)
  BY <1>4
<1> HIDE DEF A, B
<1>7. RunStart(n, k, i) + RunLength(n, k, i) = RunStart(n, k, i + 1)
  BY <1>1, <1>2, <1>5, <1>6
<1> QED
  BY <1>1, <1>2, <1>4, <1>5, <1>6, <1>7

(* A later run starts at a later thing.                                    *)
LEMMA RunsMono ==
    ASSUME NEW n \in Nat, NEW k \in Nat \ {0}, NEW i \in Nat, NEW j \in Nat, i <= j
    PROVE  RunStart(n, k, i) <= RunStart(n, k, j)
<1> DEFINE q == n \div k
           m == n % k
<1>1. q \in Nat /\ m \in Nat
  BY Division
<1> HIDE DEF q, m
<1> QED
  BY <1>1, MultiplyMono DEF RunStart

(* A run ends where the next one begins, or at the end.                    *)
LEMMA RunEnds ==
    ASSUME NEW n \in Nat, NEW k \in Nat \ {0}, NEW i \in 0..(k - 1)
    PROVE  /\ RunStart(n, k, i) + RunLength(n, k, i) <= n
           /\ \A j \in Nat : i < j => RunStart(n, k, i) + RunLength(n, k, i) <= RunStart(n, k, j)
<1>1. i \in Nat /\ i + 1 \in Nat /\ i + 1 <= k
  OBVIOUS
<1>2. ASSUME NEW j \in Nat, i < j
      PROVE  RunStart(n, k, i + 1) <= RunStart(n, k, j)
  BY <1>1, <1>2, RunsMono
<1> QED
  BY <1>1, <1>2, RunsFollow, RunsMono

(* Everything is in a run. *)
LEMMA SomeRun ==
    ASSUME NEW n \in Nat, NEW k \in Nat \ {0}, NEW x \in 0..(n - 1)
    PROVE  \E i \in 0..(k - 1) : InRun(n, k, i, x)
<1> DEFINE T == {i \in Nat : x < RunStart(n, k, i)}
<1>1. k \in T
  BY RunsFollow
<1>2. PICK m \in T : \A i \in T : m <= i
  BY <1>1, Least
<1>3. m \in Nat /\ m <= k /\ x < RunStart(n, k, m)
  BY <1>1, <1>2
<1>4. m # 0
  BY <1>3, RunsFollow
<1>5. m - 1 \in Nat /\ m - 1 \notin T /\ (m - 1) + 1 = m
  BY <1>2, <1>3, <1>4
<1> QED
  BY <1>3, <1>5, RunsFollow DEF InRun

(* And in no other. *)
LEMMA OneRun ==
    ASSUME NEW n \in Nat, NEW k \in Nat \ {0}, NEW i \in 0..(k - 1), NEW j \in 0..(k - 1),
           NEW x \in Int, InRun(n, k, i, x), InRun(n, k, j, x)
    PROVE  i = j
<1>1. i \in Nat /\ j \in Nat
  OBVIOUS
<1>2. /\ RunStart(n, k, i) \in Nat /\ RunLength(n, k, i) \in Nat
      /\ RunStart(n, k, j) \in Nat /\ RunLength(n, k, j) \in Nat
  BY <1>1, RunsFollow
<1> QED
  BY <1>1, <1>2, RunEnds DEF InRun

-----------------------------------------------------------------------------
(* The batches, rows, columns and depth of a problem.                      *)
Shapes == [1..4 -> Nat \ {0}]

(* The elements of a problem, by their indices along the axes.             *)
Elements(shape) == {e \in [1..4 -> Nat] : \A axis \in 1..4 : e[axis] < shape[axis]}

(* The number that Numbered gives an element. *)
Index(shape, e) == ((e[1] * shape[2] + e[2]) * shape[3] + e[3]) * shape[4] + e[4]

(* A pair of digits. *)
LEMMA Digits ==
    ASSUME NEW rows \in Nat \ {0}, NEW cols \in Nat \ {0}, NEW r \in Nat, NEW c \in Nat,
           r < rows, c < cols
    PROVE  r * cols + c \in Nat /\ r * cols + c < rows * cols /\ rows * cols \in Nat \ {0}
<1> QED
  BY MultiplyMono

(* Numbers are below the volume. *)
LEMMA IndexIs ==
    ASSUME NEW shape \in Shapes, NEW e \in Elements(shape)
    PROVE  Index(shape, e) \in Nat /\ Index(shape, e) < Volume(shape) /\ Volume(shape) \in Nat \ {0}
<1>1. /\ shape[1] \in Nat \ {0} /\ shape[2] \in Nat \ {0} /\ shape[3] \in Nat \ {0} /\ shape[4] \in Nat \ {0}
      /\ e[1] \in Nat /\ e[2] \in Nat /\ e[3] \in Nat /\ e[4] \in Nat
      /\ e[1] < shape[1] /\ e[2] < shape[2] /\ e[3] < shape[3] /\ e[4] < shape[4]
  BY DEF Shapes, Elements
<1> QED
  BY <1>1, Digits DEF Index, Volume

(* No two elements have the same. *)
LEMMA IndexDiffers ==
    ASSUME NEW shape \in Shapes, NEW e \in Elements(shape), NEW f \in Elements(shape),
           Index(shape, e) = Index(shape, f)
    PROVE  e = f
<1>1. /\ shape[1] \in Nat \ {0} /\ shape[2] \in Nat \ {0} /\ shape[3] \in Nat \ {0} /\ shape[4] \in Nat \ {0}
      /\ e[1] \in Nat /\ e[2] \in 0..(shape[2] - 1) /\ e[3] \in 0..(shape[3] - 1) /\ e[4] \in 0..(shape[4] - 1)
      /\ f[1] \in Nat /\ f[2] \in 0..(shape[2] - 1) /\ f[3] \in 0..(shape[3] - 1) /\ f[4] \in 0..(shape[4] - 1)
  BY DEF Shapes, Elements
<1>2. ASSUME NEW k \in Nat \ {0}, NEW q \in Nat, NEW p \in Nat, NEW a \in 0..(k - 1), NEW b \in 0..(k - 1),
             q * k + a = p * k + b
      PROVE  q = p /\ a = b
  BY <1>2, Quotient
<1> DEFINE i2 == e[1] * shape[2] + e[2]
           i3 == i2 * shape[3] + e[3]
           j2 == f[1] * shape[2] + f[2]
           j3 == j2 * shape[3] + f[3]
<1>3. i2 \in Nat /\ j2 \in Nat
  BY <1>1
<1>4. i3 \in Nat /\ j3 \in Nat
  <2> HIDE DEF i2, j2
  <2> QED
    BY <1>1, <1>3
<1>5. i3 * shape[4] + e[4] = j3 * shape[4] + f[4]
  BY DEF Index
<1> HIDE DEF i3, j3
<1>6. i3 = j3 /\ e[4] = f[4]
  BY <1>1, <1>2, <1>4, <1>5
<1>7. i2 = j2 /\ e[3] = f[3]
  <2> HIDE DEF i2, j2
  <2> QED
    BY <1>1, <1>2, <1>3, <1>6 DEF i3, j3
<1>8. e[1] = f[1] /\ e[2] = f[2]
  BY <1>1, <1>2, <1>7
<1> QED
  BY <1>6, <1>7, <1>8 DEF Elements

(* Every number is that of an element. *)
LEMMA IndexOf ==
    ASSUME NEW shape \in Shapes, NEW i \in Nat, i < Volume(shape)
    PROVE  \E e \in Elements(shape) : Index(shape, e) = i
<1>1. /\ shape[1] \in Nat \ {0} /\ shape[2] \in Nat \ {0} /\ shape[3] \in Nat \ {0} /\ shape[4] \in Nat \ {0}
  BY DEF Shapes
<1>2. ASSUME NEW rows \in Nat \ {0}, NEW cols \in Nat \ {0}, NEW j \in Nat, j < rows * cols
      PROVE  /\ j \div cols \in Nat /\ j \div cols < rows /\ j % cols \in Nat /\ j % cols < cols
             /\ (j \div cols) * cols + (j % cols) = j
  BY <1>2, MultiplyLess, Division
<1> DEFINE v2 == shape[1] * shape[2]
           v3 == v2 * shape[3]
<1>3. v2 \in Nat \ {0}
  BY <1>1
<1> HIDE DEF v2
<1>4. v3 \in Nat \ {0}
  BY <1>1, <1>3
<1> HIDE DEF v3
<1>5. i < v3 * shape[4]
  BY DEF Volume, v2, v3
<1> DEFINE i3 == i \div shape[4]
           i2 == i3 \div shape[3]
           e == [axis \in 1..4 |-> IF axis = 1 THEN i2 \div shape[2] ELSE IF axis = 2 THEN i2 % shape[2]
                                   ELSE IF axis = 3 THEN i3 % shape[3] ELSE i % shape[4]]
<1>6. /\ i3 \in Nat /\ i3 < v3 /\ i % shape[4] \in Nat /\ i % shape[4] < shape[4]
      /\ i3 * shape[4] + (i % shape[4]) = i
  BY <1>1, <1>2, <1>4, <1>5, ZenonT(30)
<1> HIDE DEF i3
<1>7. /\ i2 \in Nat /\ i2 < v2 /\ i3 % shape[3] \in Nat /\ i3 % shape[3] < shape[3]
      /\ i2 * shape[3] + (i3 % shape[3]) = i3
  BY <1>1, <1>2, <1>3, <1>6, ZenonT(30) DEF v3
<1> HIDE DEF i2
<1>8. /\ i2 \div shape[2] \in Nat /\ i2 \div shape[2] < shape[1]
      /\ i2 % shape[2] \in Nat /\ i2 % shape[2] < shape[2]
      /\ (i2 \div shape[2]) * shape[2] + (i2 % shape[2]) = i2
  BY <1>1, <1>2, <1>7, ZenonT(30) DEF v2
<1>9. e[1] = i2 \div shape[2] /\ e[2] = i2 % shape[2] /\ e[3] = i3 % shape[3] /\ e[4] = i % shape[4]
  OBVIOUS
<1>10. e \in [1..4 -> Nat]
  BY <1>6, <1>7, <1>8
<1> HIDE DEF e
<1> QED
  BY <1>6, <1>7, <1>8, <1>9, <1>10 DEF Elements, Index

(* What block has an element, and a block of elements only.                *)
Has(block, e) == \A axis \in 1..4 : e[axis] \in block[axis]

(* A block has indices of the problem only.                                *)
Inside(shape, block) == \A axis \in 1..4 : block[axis] \subseteq 0..(shape[axis] - 1)

(* Numbered has the numbers of the elements of a block.                    *)
LEMMA NumberedIs ==
    ASSUME NEW shape \in Shapes, NEW block, Inside(shape, block)
    PROVE  /\ Numbered(shape, block) \subseteq Diagonal(Volume(shape))
           /\ \A e \in Elements(shape) :
                <<Index(shape, e), Index(shape, e)>> \in Numbered(shape, block) <=> Has(block, e)
<1> DEFINE N(b, m, n, k) == ((b * shape[2] + m) * shape[3] + n) * shape[4] + k
           I == {N(b, m, n, k) : b \in block[1], m \in block[2], n \in block[3], k \in block[4]}
<1>1. Numbered(shape, block) = {<<i, i>> : i \in I}
  BY DEF Numbered
<1> HIDE DEF N
<1>2. ASSUME NEW b \in block[1], NEW m \in block[2], NEW n \in block[3], NEW k \in block[4]
      PROVE  <<b, m, n, k>> \in Elements(shape) /\ N(b, m, n, k) = Index(shape, <<b, m, n, k>>)
  BY DEF Elements, N, Index, Inside, Shapes
<1>3. ASSUME NEW i \in I
      PROVE  \E e \in Elements(shape) : Has(block, e) /\ Index(shape, e) = i
  <2>1. PICK b \in block[1], m \in block[2], n \in block[3], k \in block[4] : i = N(b, m, n, k)
    OBVIOUS
  <2>2. Has(block, <<b, m, n, k>>)
    BY DEF Has
  <2> QED
    BY <1>2, <2>1, <2>2
<1>4. ASSUME NEW e \in Elements(shape), Has(block, e)
      PROVE  Index(shape, e) \in I
  BY <1>4 DEF Has, N, Index
<1> HIDE DEF I
<1>5. I \subseteq 0..(Volume(shape) - 1)
  <2>1. ASSUME NEW i \in I
        PROVE  i \in 0..(Volume(shape) - 1)
    <3>1. PICK e \in Elements(shape) : Index(shape, e) = i
      BY <1>3
    <3> QED
      BY <3>1, IndexIs
  <2> QED
    BY <2>1
<1>6. ASSUME NEW e \in Elements(shape), <<Index(shape, e), Index(shape, e)>> \in Numbered(shape, block)
      PROVE  Has(block, e)
  <2>1. PICK f \in Elements(shape) : Has(block, f) /\ Index(shape, f) = Index(shape, e)
    BY <1>1, <1>3, <1>6
  <2> QED
    BY <2>1, IndexDiffers
<1>7. ASSUME NEW e \in Elements(shape), Has(block, e)
      PROVE  <<Index(shape, e), Index(shape, e)>> \in Numbered(shape, block)
  BY <1>1, <1>4, <1>7
<1> QED
  BY <1>1, <1>5, <1>6, <1>7 DEF Diagonal

(* Blocks with no element in common have no number in common.              *)
LEMMA NumberedApart ==
    ASSUME NEW shape \in Shapes, NEW block, NEW other, Inside(shape, block), Inside(shape, other),
           \A e \in Elements(shape) : ~(Has(block, e) /\ Has(other, e))
    PROVE  Numbered(shape, block) \cap Numbered(shape, other) = {}
<1> SUFFICES ASSUME NEW x \in Numbered(shape, block), x \in Numbered(shape, other)
             PROVE  FALSE
  OBVIOUS
<1>1. PICK i \in 0..(Volume(shape) - 1) : x = <<i, i>>
  BY NumberedIs DEF Diagonal
<1>2. PICK e \in Elements(shape) : Index(shape, e) = i
  BY IndexOf DEF Shapes, Volume
<1> QED
  BY <1>1, <1>2, NumberedIs

-----------------------------------------------------------------------------
(* The order of Zn.                                                        *)

(* The index at which Zn is at <<r, c>>. *)
RowsAt(rows, offset, b) == IF b = CeilDiv(rows, offset) - 1 THEN rows - offset * b ELSE offset

(* The number at which Zn is at a row and column.                          *)
ZnIndex(rows, cols, offset, r, c) ==
    LET b == r \div offset
        n == IF b % 2 = 1 THEN cols - c - 1 ELSE c
    IN b * (offset * cols) + (n * RowsAt(rows, offset, b) + (r % offset))

(* The rows of tile blocks: all but the last have offset rows.             *)
LEMMA TileBlocks ==
    ASSUME NEW rows \in Nat, NEW offset \in Nat \ {0}, NEW b \in Nat, b * offset < rows
    PROVE  /\ RowsAt(rows, offset, b) \in 1..offset
           /\ b * offset + RowsAt(rows, offset, b) <= rows
           /\ \A r \in Nat : r < rows /\ r \div offset = b => r % offset < RowsAt(rows, offset, b)
<1> DEFINE B == CeilDiv(rows, offset)
<1>1. B \in Nat /\ B * offset \in Nat /\ rows <= B * offset /\ B * offset < rows + offset
  BY CeilDivFacts
<1> HIDE DEF B
<1>2. b * offset \in Nat /\ offset * b = b * offset
  OBVIOUS
<1>3. CASE b = B - 1
  <2>1. ASSUME NEW r \in Nat, r < rows, r \div offset = b
        PROVE  r % offset < rows - b * offset
    <3>1. r = b * offset + (r % offset) /\ r % offset \in 0..(offset - 1)
      BY <2>1, Division
    <3> QED
      BY <1>2, <2>1, <3>1
  <2> QED
    BY <1>1, <1>2, <1>3, <2>1 DEF RowsAt, B
<1>4. CASE b # B - 1
  <2>1. ASSUME NEW r \in Nat
        PROVE  r % offset < offset
    BY Division
  <2> QED
    BY <1>1, <1>2, <1>4, <2>1, MultiplyMono, MultiplyLess DEF RowsAt, B
<1> QED
  BY <1>3, <1>4

(* Zn passes every block, and is at none twice. *)
LEMMA ZnIs ==
    ASSUME NEW rows \in Nat \ {0}, NEW cols \in Nat \ {0}, NEW offset \in Nat \ {0},
           NEW i \in 0..(rows * cols - 1)
    PROVE  /\ Zn(rows, cols, offset, i)[1] \in 0..(rows - 1)
           /\ Zn(rows, cols, offset, i)[2] \in 0..(cols - 1)
           /\ i = ZnIndex(rows, cols, offset, Zn(rows, cols, offset, i)[1], Zn(rows, cols, offset, i)[2])
<1> DEFINE W == offset * cols
           b == i \div W
           m == i % W
           h == RowsAt(rows, offset, b)
           n == m \div h
           d == m % h
           r == b * offset + d
           c == IF b % 2 = 1 THEN cols - n - 1 ELSE n
<1>1. rows * cols \in Nat /\ i \in Nat /\ i < rows * cols
  BY MultiplyMono
<1>2. W \in Nat \ {0}
  OBVIOUS
<1>3. Zn(rows, cols, offset, i) = <<r, c>>
  BY DEF Zn, RowsAt
<1>4. b \in Nat /\ m \in 0..(W - 1) /\ i = b * W + m
  BY <1>1, <1>2, Division
<1> HIDE DEF b, m
<1>5. b * W = (b * offset) * cols /\ b * offset \in Nat /\ b * W \in Nat
  BY <1>4
<1>6. b * offset < rows
  BY <1>1, <1>2, <1>4, <1>5, MultiplyLess
<1>7. h \in 1..offset /\ b * offset + h <= rows
  BY <1>4, <1>6, TileBlocks
<1>8. m < h * cols /\ h * cols \in Nat
  <2>1. h \in Nat \ {0} /\ h <= offset
    BY <1>7
  <2> HIDE DEF h
  <2>2. h * cols \in Nat
    BY <2>1
  <2>3. CASE h = offset
    BY <1>2, <1>4, <2>2, <2>3
  <2>4. CASE h # offset
    <3>1. rows * cols = (b * offset) * cols + h * cols
      BY <1>4, <1>5, <2>1, <2>4 DEF h, RowsAt
    <3> QED
      BY <1>1, <1>2, <1>4, <1>5, <2>2, <3>1
  <2> QED
    BY <2>3, <2>4
<1>9. h \in Nat \ {0} /\ h <= offset
  BY <1>7
<1> HIDE DEF h
<1>10. n \in Nat /\ d \in 0..(h - 1) /\ m = n * h + d
  <2>1. m \in Nat
    BY <1>2, <1>4
  <2> QED
    BY <1>9, <2>1, Division
<1> HIDE DEF n, d
<1>11. n < cols
  BY <1>2, <1>4, <1>8, <1>9, <1>10, MultiplyLess
<1>12. r \div offset = b /\ r % offset = d
  BY <1>4, <1>9, <1>10, Quotient
<1>13. r \in 0..(rows - 1)
  BY <1>5, <1>7, <1>9, <1>10
<1>14. c \in 0..(cols - 1)
  BY <1>10, <1>11
<1>15. (IF b % 2 = 1 THEN cols - c - 1 ELSE c) = n
  BY <1>10, <1>11
<1>16. ZnIndex(rows, cols, offset, r, c) = b * W + (n * h + d)
  <2> HIDE DEF r, c
  <2> QED
    BY <1>12, <1>15 DEF ZnIndex, h
<1> HIDE DEF r, c, W
<1> QED
  BY <1>3, <1>4, <1>10, <1>13, <1>14, <1>16

(* Zn passes every row and column, at the number that ZnIndex has.         *)
LEMMA ZnFinds ==
    ASSUME NEW rows \in Nat \ {0}, NEW cols \in Nat \ {0}, NEW offset \in Nat \ {0},
           NEW r \in 0..(rows - 1), NEW c \in 0..(cols - 1)
    PROVE  /\ ZnIndex(rows, cols, offset, r, c) \in 0..(rows * cols - 1)
           /\ Zn(rows, cols, offset, ZnIndex(rows, cols, offset, r, c)) = <<r, c>>
<1> DEFINE W == offset * cols
           b == r \div offset
           d == r % offset
           h == RowsAt(rows, offset, b)
           n == IF b % 2 = 1 THEN cols - c - 1 ELSE c
           m == n * h + d
           i == b * W + m
<1>1. r \in Nat /\ r < rows /\ c \in Nat /\ c < cols
  OBVIOUS
<1>2. W \in Nat \ {0}
  OBVIOUS
<1>3. b \in Nat /\ d \in 0..(offset - 1) /\ r = b * offset + d /\ b * offset \in Nat
  <2>1. b \in Nat /\ d \in 0..(offset - 1) /\ r = b * offset + d
    BY <1>1, Division
  <2> HIDE DEF b, d
  <2> QED
    BY <2>1
<1>4. b * offset < rows
  BY <1>1, <1>3
<1>5. h \in 1..offset /\ b * offset + h <= rows /\ d < h
  <2>1. b \in Nat /\ r \div offset = b /\ r % offset = d
    BY <1>3
  <2> HIDE DEF b, d
  <2> QED
    BY <1>1, <1>4, <2>1, TileBlocks
<1>6. n \in 0..(cols - 1)
  BY <1>1
<1>7. ZnIndex(rows, cols, offset, r, c) = i
  BY DEF ZnIndex
<1> HIDE DEF b, d, n
<1>8. h \in Nat \ {0} /\ h <= offset /\ d \in 0..(h - 1) /\ n \in Nat /\ n + 1 <= cols
  BY <1>3, <1>5, <1>6
<1>9. Zn(rows, cols, offset, i) =
         <<(i \div W) * offset + ((i % W) % RowsAt(rows, offset, i \div W)),
           IF (i \div W) % 2 = 1 THEN cols - ((i % W) \div RowsAt(rows, offset, i \div W)) - 1
           ELSE (i % W) \div RowsAt(rows, offset, i \div W)>>
  BY DEF Zn, RowsAt
<1> HIDE DEF h
<1>10. m \in Nat /\ m < h * cols /\ h * cols <= W /\ h * cols \in Nat
  BY <1>8, MultiplyMono
<1>11. m \div h = n /\ m % h = d
  BY <1>8, Quotient
<1>12. i \div W = b /\ i % W = m
  <2>1. m \in 0..(W - 1)
    BY <1>2, <1>10
  <2> HIDE DEF m, W
  <2> QED
    BY <1>2, <1>3, <2>1, Quotient
<1>13. i \in 0..(rows * cols - 1)
  <2>1. (b * offset + h) * cols <= rows * cols /\ rows * cols \in Nat
    BY <1>3, <1>5, <1>8, MultiplyMono
  <2>2. (b * offset + h) * cols = (b * offset) * cols + h * cols /\ (b * offset) * cols = b * W
    BY <1>3, <1>8
  <2> HIDE DEF m, W
  <2> QED
    BY <1>2, <1>3, <1>10, <2>1, <2>2
<1>14. b * offset + d = r
  BY <1>3
<1>15. c = IF b % 2 = 1 THEN cols - n - 1 ELSE n
  BY <1>1 DEF n
<1> HIDE DEF i, m, W
<1> QED
  BY <1>7, <1>11, <1>12, <1>13, <1>14, <1>15, <1>9 DEF h

-----------------------------------------------------------------------------
(* Blocks that cut a problem are a partition of its elements.              *)

(* Blocks in which every element of a problem is once, for every task.     *)
Cuts(shape, T, B) ==
    /\ \A t \in T : Inside(shape, B[t])
    /\ \A e \in Elements(shape) : \E t \in T : Has(B[t], e)
    /\ \A e \in Elements(shape) : \A t, u \in T : Has(B[t], e) /\ Has(B[u], e) => t = u

(* The same for every core and its tasks.                                  *)
CutsByCore(shape, n, L, B) ==
    /\ \A c \in 1..n : \A t \in 1..L[c] : Inside(shape, B[c][t])
    /\ \A e \in Elements(shape) : \E c \in 1..n : \E t \in 1..L[c] : Has(B[c][t], e)
    /\ \A e \in Elements(shape) : \A c, d \in 1..n : \A t \in 1..L[c], u \in 1..L[d] :
         Has(B[c][t], e) /\ Has(B[d][u], e) => c = d /\ t = u

(* An element of the whole has a place in it. *)
LEMMA DiagonalIs ==
    ASSUME NEW shape \in Shapes, NEW x \in Diagonal(Volume(shape))
    PROVE  \E e \in Elements(shape) : x = <<Index(shape, e), Index(shape, e)>>
<1>1. PICK i \in 0..(Volume(shape) - 1) : x = <<i, i>>
  BY DEF Diagonal
<1>2. i \in Nat /\ i < Volume(shape)
  <2> QED
    BY DEF Shapes, Volume
<1>3. PICK e \in Elements(shape) : Index(shape, e) = i
  BY <1>2, IndexOf
<1> QED
  BY <1>1, <1>3

(* Such blocks are a partition of the numbers. *)
LEMMA CutsPartition ==
    ASSUME NEW shape \in Shapes, NEW n \in Nat, NEW B, Cuts(shape, 1..n, B)
    PROVE  Partition([t \in 1..n |-> Numbered(shape, B[t])], Volume(shape))
<1> DEFINE pieces == [t \in 1..n |-> Numbered(shape, B[t])]
           D == Diagonal(Volume(shape))
<1>1. \A t \in 1..n : Inside(shape, B[t])
  BY DEF Cuts
<1>2. pieces \in Seq(SUBSET D)
  <2>1. \A t \in 1..n : Numbered(shape, B[t]) \subseteq D
    BY <1>1, NumberedIs
  <2> HIDE DEF D
  <2>2. pieces \in [1..n -> SUBSET D]
    BY <2>1
  <2> HIDE DEF pieces
  <2> QED
    BY <2>2
<1>3. ASSUME NEW x \in D
      PROVE  \E k \in DOMAIN pieces : x \in pieces[k]
  <2>1. PICK e \in Elements(shape) : x = <<Index(shape, e), Index(shape, e)>>
    BY DiagonalIs
  <2>2. PICK t \in 1..n : Has(B[t], e)
    BY DEF Cuts
  <2> QED
    BY <1>1, <2>1, <2>2, NumberedIs
<1>4. ASSUME NEW k \in DOMAIN pieces, NEW l \in DOMAIN pieces, k # l
      PROVE  pieces[k] \cap pieces[l] = {}
  <2> QED
    BY <1>1, <1>4, NumberedApart DEF Cuts
<1> QED
  BY <1>2, <1>3, <1>4 DEF Partition, PartitionOf

(* A partition may be put down core by core. *)
LEMMA FlattenedPartition ==
    ASSUME NEW whole, NEW seqs \in Seq(Seq(SUBSET whole)),
           \A x \in whole : \E i \in DOMAIN seqs : \E j \in DOMAIN seqs[i] : x \in seqs[i][j],
           \A i, k \in DOMAIN seqs : \A j \in DOMAIN seqs[i], l \in DOMAIN seqs[k] :
             i # k \/ j # l => seqs[i][j] \cap seqs[k][l] = {}
    PROVE  PartitionOf(FlattenSeq(seqs), whole)
<1> DEFINE S == SUBSET whole
           pieces == FlattenSeq(seqs)
<1>1. seqs \in Seq(Seq(S))
  OBVIOUS
<1> HIDE DEF S
<1>2. /\ pieces \in Seq(S)
      /\ \A i \in DOMAIN seqs : \A j \in DOMAIN seqs[i] :
           \E k \in DOMAIN pieces : pieces[k] = seqs[i][j]
      /\ \A k, l \in DOMAIN pieces : k < l =>
           \E a, c \in DOMAIN seqs : \E b \in DOMAIN seqs[a], d \in DOMAIN seqs[c] :
             /\ a < c \/ (a = c /\ b < d)
             /\ pieces[k] = seqs[a][b] /\ pieces[l] = seqs[c][d]
  BY <1>1, Flattened
<1> HIDE DEF pieces
<1>3. ASSUME NEW x \in whole
      PROVE  \E k \in DOMAIN pieces : x \in pieces[k]
  <2>1. PICK i \in DOMAIN seqs : \E j \in DOMAIN seqs[i] : x \in seqs[i][j]
    OBVIOUS
  <2>2. PICK j \in DOMAIN seqs[i] : x \in seqs[i][j]
    BY <2>1
  <2>3. PICK k \in DOMAIN pieces : pieces[k] = seqs[i][j]
    BY <1>2
  <2> QED
    BY <2>2, <2>3
<1>4. ASSUME NEW k \in DOMAIN pieces, NEW l \in DOMAIN pieces, k < l
      PROVE  pieces[k] \cap pieces[l] = {}
  <2>1. PICK a \in DOMAIN seqs, c \in DOMAIN seqs : \E b \in DOMAIN seqs[a], d \in DOMAIN seqs[c] :
          /\ a < c \/ (a = c /\ b < d)
          /\ pieces[k] = seqs[a][b] /\ pieces[l] = seqs[c][d]
    BY <1>2, <1>4
  <2>2. PICK b \in DOMAIN seqs[a], d \in DOMAIN seqs[c] :
          /\ a < c \/ (a = c /\ b < d)
          /\ pieces[k] = seqs[a][b] /\ pieces[l] = seqs[c][d]
    BY <2>1
  <2>3. a \in Int /\ c \in Int /\ seqs[a] \in Seq(S) /\ seqs[c] \in Seq(S)
    <3> HIDE DEF S
    <3> DEFINE SS == Seq(S)
    <3> HIDE DEF SS
    <3> QED
      BY <1>1 DEF SS
  <2> QED
    BY <2>2, <2>3
<1>5. ASSUME NEW k \in DOMAIN pieces, NEW l \in DOMAIN pieces, k # l
      PROVE  pieces[k] \cap pieces[l] = {}
  <2>1. k < l \/ l < k
    BY <1>2, <1>5
  <2> QED
    BY <1>4, <2>1
<1> QED
  BY <1>2, <1>3, <1>5 DEF PartitionOf, pieces, S

(* The same for blocks that are put down core by core.                     *)
LEMMA CutsByCorePartition ==
    ASSUME NEW shape \in Shapes, NEW n \in Nat, NEW L \in [1..n -> Nat], NEW B,
           CutsByCore(shape, n, L, B)
    PROVE  Partition(FlattenSeq([c \in 1..n |-> [t \in 1..L[c] |-> Numbered(shape, B[c][t])]]),
                     Volume(shape))
<1> DEFINE seqs == [c \in 1..n |-> [t \in 1..L[c] |-> Numbered(shape, B[c][t])]]
           D == Diagonal(Volume(shape))
<1>1. \A c \in 1..n : \A t \in 1..L[c] : Inside(shape, B[c][t])
  BY DEF CutsByCore
<1>2. /\ DOMAIN seqs = 1..n
      /\ \A c \in 1..n : /\ DOMAIN seqs[c] = 1..L[c]
                         /\ \A t \in 1..L[c] : seqs[c][t] = Numbered(shape, B[c][t])
  OBVIOUS
<1>3. seqs \in Seq(Seq(SUBSET D))
  <2> DEFINE S == SUBSET D
             SS == Seq(S)
  <2>1. ASSUME NEW c \in 1..n
        PROVE  seqs[c] \in SS
    <3> DEFINE m == L[c]
    <3>1. \A t \in 1..m : Numbered(shape, B[c][t]) \in S
      BY <1>1, NumberedIs
    <3>2. m \in Nat
      OBVIOUS
    <3> HIDE DEF S
    <3>3. seqs[c] \in [1..m -> S]
      BY <3>1
    <3> HIDE DEF m, seqs
    <3> QED
      BY <3>2, <3>3
  <2> HIDE DEF S, SS
  <2>2. seqs \in [1..n -> SS]
    BY <2>1
  <2> HIDE DEF seqs
  <2>3. seqs \in Seq(SS)
    BY <2>2
  <2> QED
    BY <2>3 DEF SS, S
<1> HIDE DEF seqs
<1>4. ASSUME NEW x \in D
      PROVE  \E i \in DOMAIN seqs : \E j \in DOMAIN seqs[i] : x \in seqs[i][j]
  <2>1. PICK e \in Elements(shape) : x = <<Index(shape, e), Index(shape, e)>>
    BY DiagonalIs
  <2>2. PICK c \in 1..n : \E t \in 1..L[c] : Has(B[c][t], e)
    BY DEF CutsByCore
  <2>3. PICK t \in 1..L[c] : Has(B[c][t], e)
    BY <2>2
  <2>4. x \in Numbered(shape, B[c][t])
    BY <1>1, <2>1, <2>3, NumberedIs
  <2> QED
    BY <1>2, <2>4
<1>5. ASSUME NEW i \in DOMAIN seqs, NEW k \in DOMAIN seqs, NEW j \in DOMAIN seqs[i], NEW l \in DOMAIN seqs[k],
             i # k \/ j # l
      PROVE  seqs[i][j] \cap seqs[k][l] = {}
  <2>1. i \in 1..n /\ k \in 1..n /\ j \in 1..L[i] /\ l \in 1..L[k]
    BY <1>2
  <2>2. Inside(shape, B[i][j]) /\ Inside(shape, B[k][l])
    BY <1>1, <2>1
  <2>3. \A e \in Elements(shape) : ~(Has(B[i][j], e) /\ Has(B[k][l], e))
    BY <1>5, <2>1 DEF CutsByCore
  <2>4. Numbered(shape, B[i][j]) \cap Numbered(shape, B[k][l]) = {}
    BY <2>2, <2>3, NumberedApart
  <2> QED
    BY <1>2, <2>1, <2>4
<1>6. PartitionOf(FlattenSeq(seqs), D)
  BY <1>3, <1>4, <1>5, FlattenedPartition
<1> QED
  BY <1>6 DEF seqs, Partition

-----------------------------------------------------------------------------
(* The tasks of two loops, one in the other. *)
LEMMA TaskPair ==
    ASSUME NEW a \in Nat \ {0}, NEW b \in Nat \ {0}
    PROVE  /\ a * b \in Nat \ {0}
           /\ \A t \in 1..(a * b) :
                /\ (t - 1) \div b \in 0..(a - 1) /\ (t - 1) % b \in 0..(b - 1)
                /\ t = ((t - 1) \div b) * b + ((t - 1) % b) + 1
           /\ \A q \in 0..(a - 1), m \in 0..(b - 1) :
                /\ q * b + m + 1 \in 1..(a * b)
                /\ ((q * b + m + 1) - 1) \div b = q /\ ((q * b + m + 1) - 1) % b = m
<1>1. a * b \in Nat \ {0}
  OBVIOUS
<1>2. ASSUME NEW t \in 1..(a * b)
      PROVE  /\ (t - 1) \div b \in 0..(a - 1) /\ (t - 1) % b \in 0..(b - 1)
             /\ t = ((t - 1) \div b) * b + ((t - 1) % b) + 1
  <2> DEFINE i == t - 1
             q == i \div b
             m == i % b
  <2>1. i \in Nat /\ i < a * b /\ t = i + 1
    BY <1>1
  <2> HIDE DEF i
  <2>2. q \in Nat /\ m \in 0..(b - 1) /\ i = q * b + m
    BY <2>1, Division
  <2> HIDE DEF q, m
  <2>3. q * b < a * b
    <3> QED
      BY <1>1, <2>1, <2>2
  <2> QED
    BY <2>1, <2>2, <2>3, MultiplyLess DEF q, m, i
<1>3. ASSUME NEW q \in 0..(a - 1), NEW m \in 0..(b - 1)
      PROVE  /\ q * b + m + 1 \in 1..(a * b)
             /\ ((q * b + m + 1) - 1) \div b = q /\ ((q * b + m + 1) - 1) % b = m
  <2> DEFINE i == q * b + m
  <2> HIDE DEF i
  <2> QED
    BY <1>1, Quotient, Digits DEF i
<1> QED
  BY <1>1, <1>2, <1>3

(* The quotient is where the multiples are on both sides.                  *)
LEMMA QuotientIs ==
    ASSUME NEW x \in Nat, NEW k \in Nat \ {0}, NEW c \in Nat
    PROVE  x \div k = c <=> c * k <= x /\ x < c * k + k
<1> DEFINE q == x \div k
<1>1. q \in Nat /\ x % k \in 0..(k - 1) /\ x = q * k + (x % k)
  BY Division
<1> DEFINE m == x % k
<1> HIDE DEF q, m
<1>2. ASSUME q = c
      PROVE  c * k <= x /\ x < c * k + k
  <2> QED
    BY <1>1, <1>2 DEF m
<1>3. ASSUME c * k <= x, x < c * k + k
      PROVE  q = c
  <2> DEFINE d == x - c * k
  <2> QED
    BY <1>3, Quotient DEF q
<1> QED
  BY <1>2, <1>3 DEF q

(* How a problem is cut. *)
AnyProblem ==
    [shape : Shapes, tile : Shapes, offset : Nat \ {0}, direction : {0, 1}, cores : Nat \ {0}]

(* Every axis has a tile. *)
LEMMA ProblemFacts ==
    ASSUME NEW s \in AnyProblem
    PROVE  /\ s.shape \in Shapes /\ s.offset \in Nat \ {0} /\ s.cores \in Nat \ {0}
           /\ \A axis \in 1..4 :
                /\ s.shape[axis] \in Nat \ {0} /\ s.tile[axis] \in Nat \ {0}
                /\ Loops(s)[axis] = CeilDiv(s.shape[axis], s.tile[axis])
                /\ Loops(s)[axis] \in Nat \ {0}
           /\ CoreLoops(s) \in Nat \ {0}
<1>1. s.shape \in Shapes /\ s.tile \in Shapes /\ s.offset \in Nat \ {0} /\ s.cores \in Nat \ {0}
  BY DEF AnyProblem
<1>2. ASSUME NEW axis \in 1..4
      PROVE  /\ s.shape[axis] \in Nat \ {0} /\ s.tile[axis] \in Nat \ {0}
             /\ Loops(s)[axis] = CeilDiv(s.shape[axis], s.tile[axis])
             /\ Loops(s)[axis] \in Nat \ {0}
  <2> QED
    BY <1>1, CeilDivPositive DEF Loops, Shapes
<1> QED
  BY <1>1, <1>2 DEF CoreLoops

(* Every index along an axis is in one tile. *)
LEMMA ExtentIs ==
    ASSUME NEW s \in AnyProblem, NEW axis \in 1..4
    PROVE  /\ \A c \in 0..(Loops(s)[axis] - 1) :
                /\ Extent(s, axis, c) \subseteq 0..(s.shape[axis] - 1)
                /\ \A x \in 0..(s.shape[axis] - 1) : x \in Extent(s, axis, c) <=> c = x \div s.tile[axis]
           /\ \A x \in 0..(s.shape[axis] - 1) : x \div s.tile[axis] \in 0..(Loops(s)[axis] - 1)
<1> DEFINE N == s.shape[axis]
           T == s.tile[axis]
           L == Loops(s)[axis]
<1>1. N \in Nat \ {0} /\ T \in Nat \ {0} /\ L \in Nat \ {0} /\ L = CeilDiv(N, T)
  BY ProblemFacts
<1>2. L * T \in Nat /\ N <= L * T /\ L * T < N + T
  BY <1>1, CeilDivFacts
<1>3. ASSUME NEW c \in 0..(L - 1)
      PROVE  Extent(s, axis, c) = (c * T)..(IF c = L - 1 THEN N - 1 ELSE c * T + T - 1)
  BY DEF Extent
<1> HIDE DEF N, T, L
<1>4. ASSUME NEW c \in 0..(L - 1)
      PROVE  /\ Extent(s, axis, c) \subseteq 0..(N - 1)
             /\ \A x \in 0..(N - 1) : x \in Extent(s, axis, c) <=> c = x \div T
  <2>1. c \in Nat /\ c + 1 <= L /\ c * T \in Nat
    BY <1>1
  <2>2. ASSUME c # L - 1
        PROVE  c * T + T <= (L - 1) * T
    <3> QED
      BY <1>1, <2>1, <2>2, MultiplyMono
  <2>3. c = L - 1 => c * T = (L - 1) * T
    OBVIOUS
  <2> DEFINE first == c * T
             beyond == L * T
             before == (L - 1) * T
             last == IF c = L - 1 THEN N - 1 ELSE first + T - 1
  <2>4. /\ first \in Nat /\ before \in Nat /\ beyond = before + T /\ N <= beyond /\ beyond < N + T
        /\ (c # L - 1 => first + T <= before) /\ (c = L - 1 => first = before)
    BY <1>1, <1>2, <2>1, <2>2, <2>3
  <2>5. Extent(s, axis, c) = first..last
    BY <1>3
  <2>6. ASSUME NEW x \in Nat
        PROVE  x \div T = c <=> first <= x /\ x < first + T
    BY <1>1, <2>1, QuotientIs
  <2> HIDE DEF first, beyond, before
  <2>7. ASSUME NEW x \in 0..(N - 1)
        PROVE  x \in first..last <=> first <= x /\ x < first + T
    BY <1>1, <2>4
  <2>8. ASSUME NEW x \in 0..(N - 1)
         PROVE  x \in Extent(s, axis, c) <=> c = x \div T
    <3>1. x \in Nat
      BY <1>1
    <3> QED
      BY <2>5, <2>6, <2>7, <3>1
  <2> QED
    BY <1>1, <2>4, <2>5, <2>8
<1>5. ASSUME NEW x \in 0..(N - 1)
      PROVE  x \div T \in 0..(L - 1)
  <2> DEFINE q == x \div T
  <2>1. x \in Nat /\ x < N
    BY <1>1
  <2>2. q \in Nat /\ q * T <= x /\ x < q * T + T
    <3> QED
      BY <1>1, <2>1, QuotientIs, Division
  <2> HIDE DEF q
  <2> QED
    BY <1>1, <1>2, <2>1, <2>2, MultiplyLess DEF q
<1> QED
  BY <1>4, <1>5 DEF N, T, L

(* The tile of rows and columns that an element is in.                     *)
RowOf(s, e) == e[2] \div s.tile[2]

(* And its column of tiles.                                                *)
ColOf(s, e) == e[3] \div s.tile[3]

(* And its tile of the depth.                                              *)
DepthOf(s, e) == e[4] \div s.tile[4]

(* An element is in one of the tiles along each axis.                      *)
LEMMA ElementFacts ==
    ASSUME NEW s \in AnyProblem, NEW e \in Elements(s.shape)
    PROVE  /\ \A axis \in 1..4 : e[axis] \in 0..(s.shape[axis] - 1)
           /\ RowOf(s, e) \in 0..(Loops(s)[2] - 1)
           /\ ColOf(s, e) \in 0..(Loops(s)[3] - 1)
           /\ DepthOf(s, e) \in 0..(Loops(s)[4] - 1)
<1>1. ASSUME NEW axis \in 1..4
      PROVE  e[axis] \in 0..(s.shape[axis] - 1)
  <2> QED
    BY ProblemFacts DEF Elements
<1> QED
  BY <1>1, ExtentIs DEF RowOf, ColOf, DepthOf

(* A tile of rows and columns with some of the depth.                      *)
LEMMA AlongInside ==
    ASSUME NEW s \in AnyProblem, NEW batch \in 0..(s.shape[1] - 1),
           NEW r \in 0..(Loops(s)[2] - 1), NEW c \in 0..(Loops(s)[3] - 1),
           NEW K, K \subseteq 0..(s.shape[4] - 1)
    PROVE  Inside(s.shape, <<{batch}, Extent(s, 2, r), Extent(s, 3, c), K>>)
<1> DEFINE block == <<{batch}, Extent(s, 2, r), Extent(s, 3, c), K>>
<1>1. block[1] = {batch} /\ block[2] = Extent(s, 2, r) /\ block[3] = Extent(s, 3, c) /\ block[4] = K
  OBVIOUS
<1>2. Extent(s, 2, r) \subseteq 0..(s.shape[2] - 1) /\ Extent(s, 3, c) \subseteq 0..(s.shape[3] - 1)
  BY ExtentIs
<1> HIDE DEF block
<1>3. \A axis \in 1..4 : axis = 1 \/ axis = 2 \/ axis = 3 \/ axis = 4
  OBVIOUS
<1> QED
  BY <1>1, <1>2, <1>3 DEF block, Inside

(* Its elements. *)
LEMMA AlongHas ==
    ASSUME NEW s \in AnyProblem, NEW batch,
           NEW r \in 0..(Loops(s)[2] - 1), NEW c \in 0..(Loops(s)[3] - 1),
           NEW K, NEW e \in Elements(s.shape)
    PROVE  Has(<<{batch}, Extent(s, 2, r), Extent(s, 3, c), K>>, e)
             <=> e[1] = batch /\ RowOf(s, e) = r /\ ColOf(s, e) = c /\ e[4] \in K
<1> DEFINE block == <<{batch}, Extent(s, 2, r), Extent(s, 3, c), K>>
<1> HIDE DEF block
<1> QED
  BY ExtentIs, ElementFacts DEF block, RowOf, ColOf, Has

-----------------------------------------------------------------------------
(* The orders of the swizzle.                                              *)

(* The first n numbers are an order of rows and columns: z is at each      *)
(* place once.                                                             *)
Passes(rows, cols, n, z) ==
    /\ \A i \in 0..(n - 1) : z[i][1] \in 0..(rows - 1) /\ z[i][2] \in 0..(cols - 1)
    /\ \A r \in 0..(rows - 1), c \in 0..(cols - 1) : \E i \in 0..(n - 1) : z[i][1] = r /\ z[i][2] = c
    /\ \A i, j \in 0..(n - 1) : z[i][1] = z[j][1] /\ z[i][2] = z[j][2] => i = j

(* The order of Zn.                                                        *)
LEMMA ZnPasses ==
    ASSUME NEW rows \in Nat \ {0}, NEW cols \in Nat \ {0}, NEW offset \in Nat \ {0},
           NEW n, n = rows * cols
    PROVE  Passes(rows, cols, n, [i \in 0..(n - 1) |-> Zn(rows, cols, offset, i)])
<1> DEFINE z == [i \in 0..(n - 1) |-> Zn(rows, cols, offset, i)]
<1>1. ASSUME NEW i \in 0..(n - 1)
      PROVE  /\ Zn(rows, cols, offset, i)[1] \in 0..(rows - 1)
             /\ Zn(rows, cols, offset, i)[2] \in 0..(cols - 1)
             /\ i = ZnIndex(rows, cols, offset, Zn(rows, cols, offset, i)[1],
                            Zn(rows, cols, offset, i)[2])
  BY ZnIs
<1>2. ASSUME NEW r \in 0..(rows - 1), NEW c \in 0..(cols - 1)
      PROVE  \E i \in 0..(n - 1) : Zn(rows, cols, offset, i) = <<r, c>>
  <2>1. /\ ZnIndex(rows, cols, offset, r, c) \in 0..(rows * cols - 1)
        /\ Zn(rows, cols, offset, ZnIndex(rows, cols, offset, r, c)) = <<r, c>>
    BY ZnFinds
  <2> QED
    BY <2>1
<1>3. \A i \in 0..(n - 1) : z[i] = Zn(rows, cols, offset, i)
  OBVIOUS
<1> HIDE DEF z
<1>4. \A r \in 0..(rows - 1), c \in 0..(cols - 1) :
        \E i \in 0..(n - 1) : z[i][1] = r /\ z[i][2] = c
  <2> SUFFICES ASSUME NEW r \in 0..(rows - 1), NEW c \in 0..(cols - 1)
               PROVE  \E i \in 0..(n - 1) : z[i][1] = r /\ z[i][2] = c
    OBVIOUS
  <2>1. PICK i \in 0..(n - 1) : Zn(rows, cols, offset, i) = <<r, c>>
    BY <1>2
  <2> QED
    BY <1>3, <2>1
<1> QED
  BY <1>1, <1>3, <1>4 DEF z, Passes

(* And its transpose, of columns and rows.                                 *)
LEMMA FlippedPasses ==
    ASSUME NEW rows, NEW cols, NEW n, NEW y, Passes(cols, rows, n, y)
    PROVE  Passes(rows, cols, n, [i \in 0..(n - 1) |-> <<y[i][2], y[i][1]>>])
<1> QED
  BY DEF Passes

(* The blocks in the order of a swizzle.                                   *)
SwizzledOrder(rows, cols, s) == [i \in 0..(rows * cols - 1) |-> Swizzled(rows, cols, s, i)]

(* Whatever the direction and the offset, the swizzle passes every block   *)
(* once.                                                                   *)
LEMMA SwizzledPasses ==
    ASSUME NEW s \in AnyProblem, NEW rows \in Nat \ {0}, NEW cols \in Nat \ {0}
    PROVE  Passes(rows, cols, rows * cols, SwizzledOrder(rows, cols, s))
<1> DEFINE o == s.offset
           n == rows * cols
           y == [i \in 0..(n - 1) |-> Zn(rows, cols, o, i)]
           f == [i \in 0..(n - 1) |-> Zn(cols, rows, o, i)]
           x == [i \in 0..(n - 1) |-> <<f[i][2], f[i][1]>>]
           z == SwizzledOrder(rows, cols, s)
<1>1. o \in Nat \ {0}
  BY DEF AnyProblem
<1>2. z = [i \in 0..(n - 1) |-> Swizzled(rows, cols, s, i)]
  BY DEF SwizzledOrder
<1>3. n = rows * cols /\ n = cols * rows
  OBVIOUS
<1> HIDE DEF n, z
<1>4. ASSUME s.direction = 0
      PROVE  z = y
  BY <1>2, <1>4 DEF Swizzled
<1>5. ASSUME s.direction # 0
      PROVE  z = x
  BY <1>2, <1>5 DEF Swizzled, Flip
<1> HIDE DEF o
<1>6. Passes(rows, cols, n, y) /\ Passes(cols, rows, n, f)
  BY <1>1, <1>3, ZnPasses
<1> HIDE DEF y, f
<1>7. Passes(rows, cols, n, x)
  BY <1>6, FlippedPasses
<1> HIDE DEF x
<1> QED
  BY <1>4, <1>5, <1>6, <1>7 DEF n, z

-----------------------------------------------------------------------------
(* Tasks dealt along an order, and the identity swizzle.                   *)

(* Tasks T, of which t is about batch q[t], the p[t]-th place of an order  *)
(* of rows and columns, and K[t] of the depth: every batch, place and      *)
(* depth is that of one task.                                              *)
Dealt(s, T, q, p, K) ==
    /\ \A t \in T : /\ q[t] \in 0..(s.shape[1] - 1) /\ p[t] \in 0..(CoreLoops(s) - 1)
                    /\ K[t] \subseteq 0..(s.shape[4] - 1)
    /\ \A b \in 0..(s.shape[1] - 1), i \in 0..(CoreLoops(s) - 1), k \in 0..(s.shape[4] - 1) :
         \E t \in T : q[t] = b /\ p[t] = i /\ k \in K[t]
    /\ \A t, u \in T : \A k \in K[t] : q[t] = q[u] /\ p[t] = p[u] /\ k \in K[u] => t = u

(* The blocks of such tasks. *)
BlockOf(s, z, batch, at, K) == <<{batch}, Extent(s, 2, z[at][1]), Extent(s, 3, z[at][2]), K>>

(* One for every task.                                                     *)
BlocksOf(s, T, z, q, p, K) == [t \in T |-> BlockOf(s, z, q[t], p[t], K[t])]

(* They are the whole problem, and have nothing in common.                 *)
LEMMA DealtCuts ==
    ASSUME NEW s \in AnyProblem, NEW z, Passes(Loops(s)[2], Loops(s)[3], CoreLoops(s), z),
           NEW T, NEW q, NEW p, NEW K, Dealt(s, T, q, p, K)
    PROVE  Cuts(s.shape, T, BlocksOf(s, T, z, q, p, K))
<1> DEFINE B == BlocksOf(s, T, z, q, p, K)
<1>1. ASSUME NEW t \in T
      PROVE  /\ Inside(s.shape, B[t])
             /\ \A e \in Elements(s.shape) :
                  Has(B[t], e) <=> /\ e[1] = q[t] /\ RowOf(s, e) = z[p[t]][1] /\ ColOf(s, e) = z[p[t]][2]
                                   /\ e[4] \in K[t]
  <2> DEFINE batch == q[t]
             depths == K[t]
             r == z[p[t]][1]
             c == z[p[t]][2]
  <2>1. batch \in 0..(s.shape[1] - 1) /\ depths \subseteq 0..(s.shape[4] - 1)
    BY DEF Dealt
  <2>2. r \in 0..(Loops(s)[2] - 1) /\ c \in 0..(Loops(s)[3] - 1)
    BY DEF Dealt, Passes
  <2>3. B[t] = <<{batch}, Extent(s, 2, r), Extent(s, 3, c), depths>>
    BY DEF BlocksOf, BlockOf
  <2> HIDE DEF B, batch, depths, r, c
  <2>4. ASSUME NEW e \in Elements(s.shape)
        PROVE  Has(<<{batch}, Extent(s, 2, r), Extent(s, 3, c), depths>>, e)
                 <=> e[1] = batch /\ RowOf(s, e) = r /\ ColOf(s, e) = c /\ e[4] \in depths
    BY <2>2, AlongHas
  <2> QED
    BY <2>1, <2>2, <2>3, <2>4, AlongInside DEF batch, depths, r, c
<1> HIDE DEF B
<1>2. ASSUME NEW e \in Elements(s.shape)
      PROVE  \E t \in T : Has(B[t], e)
  <2>1. /\ e[1] \in 0..(s.shape[1] - 1) /\ e[4] \in 0..(s.shape[4] - 1)
        /\ RowOf(s, e) \in 0..(Loops(s)[2] - 1) /\ ColOf(s, e) \in 0..(Loops(s)[3] - 1)
    BY ElementFacts
  <2>2. PICK i \in 0..(CoreLoops(s) - 1) : z[i][1] = RowOf(s, e) /\ z[i][2] = ColOf(s, e)
    BY <2>1 DEF Passes
  <2>3. PICK t \in T : q[t] = e[1] /\ p[t] = i /\ e[4] \in K[t]
    BY <2>1 DEF Dealt
  <2> QED
    BY <1>1, <2>2, <2>3
<1>3. ASSUME NEW e \in Elements(s.shape), NEW t \in T, NEW u \in T, Has(B[t], e), Has(B[u], e)
      PROVE  t = u
  BY <1>1, <1>3 DEF Dealt, Passes
<1> QED
  BY <1>1, <1>2, <1>3 DEF B, Cuts

(* A block in the order of the swizzle, of the whole depth or some of it.  *)
Order(s) == SwizzledOrder(Loops(s)[2], Loops(s)[3], s)

(* That order passes every row and column of tiles once.                   *)
LEMMA OrderPasses ==
    ASSUME NEW s \in AnyProblem
    PROVE  Passes(Loops(s)[2], Loops(s)[3], CoreLoops(s), Order(s))
<1> DEFINE rows == Loops(s)[2]
           cols == Loops(s)[3]
<1>1. rows \in Nat \ {0} /\ cols \in Nat \ {0}
  BY ProblemFacts
<1> HIDE DEF rows, cols
<1>2. Passes(rows, cols, rows * cols, SwizzledOrder(rows, cols, s))
  BY <1>1, SwizzledPasses
<1> QED
  BY <1>2 DEF Order, CoreLoops, rows, cols

(* Such a block is the one that BlockOf describes.                         *)
LEMMA AlongOrder ==
    ASSUME NEW s \in AnyProblem, NEW batch, NEW i \in 0..(CoreLoops(s) - 1)
    PROVE  /\ Along(s, batch, Swizzled(Loops(s)[2], Loops(s)[3], s, i))
                = BlockOf(s, Order(s), batch, i, 0..(s.shape[4] - 1))
           /\ \A K : [Along(s, batch, Swizzled(Loops(s)[2], Loops(s)[3], s, i)) EXCEPT ![4] = K]
                       = BlockOf(s, Order(s), batch, i, K)
<1> DEFINE mn == Swizzled(Loops(s)[2], Loops(s)[3], s, i)
<1>1. Order(s)[i] = mn
  BY DEF Order, SwizzledOrder, CoreLoops
<1> HIDE DEF mn
<1>2. Along(s, batch, mn) = <<{batch}, Extent(s, 2, mn[1]), Extent(s, 3, mn[2]), 0..(s.shape[4] - 1)>>
  BY DEF Along
<1>3. ASSUME NEW K
      PROVE  [Along(s, batch, mn) EXCEPT ![4] = K] = BlockOf(s, Order(s), batch, i, K)
  BY <1>1, <1>2 DEF BlockOf
<1> QED
  BY <1>1, <1>2, <1>3 DEF mn, BlockOf

-----------------------------------------------------------------------------
(* Whole depth, batch by batch.                                            *)
LEMMA IdentityCuts ==
    ASSUME NEW s \in AnyProblem
    PROVE  LET n == s.shape[1] * CoreLoops(s)
           IN n \in Nat /\ Cuts(s.shape, 1..n, [t \in 1..n |-> IdentityBlock(s, t - 1)])
<1> DEFINE a == s.shape[1]
           b == CoreLoops(s)
           n == a * b
           T == 1..n
           D == 0..(s.shape[4] - 1)
           q == [t \in T |-> (t - 1) \div b]
           p == [t \in T |-> (t - 1) % b]
           K == [t \in T |-> D]
           B == [t \in T |-> IdentityBlock(s, t - 1)]
<1>1. a \in Nat \ {0} /\ b \in Nat \ {0}
  BY ProblemFacts
<1> HIDE DEF a, b
<1>2. /\ n \in Nat \ {0}
      /\ \A t \in 1..n :
           /\ (t - 1) \div b \in 0..(a - 1) /\ (t - 1) % b \in 0..(b - 1)
           /\ t = ((t - 1) \div b) * b + ((t - 1) % b) + 1
      /\ \A x \in 0..(a - 1), m \in 0..(b - 1) :
           /\ x * b + m + 1 \in 1..n
           /\ ((x * b + m + 1) - 1) \div b = x /\ ((x * b + m + 1) - 1) % b = m
  BY <1>1, TaskPair
<1> HIDE DEF n
<1>3. \A t \in T : /\ q[t] = (t - 1) \div b /\ p[t] = (t - 1) % b /\ K[t] = D
                   /\ B[t] = IdentityBlock(s, t - 1)
  OBVIOUS
<1>4. B = BlocksOf(s, T, Order(s), q, p, K)
  <2>1. ASSUME NEW t \in T
        PROVE  B[t] = BlockOf(s, Order(s), q[t], p[t], K[t])
    <3> DEFINE batch == (t - 1) \div b
               i == (t - 1) % b
    <3>1. i \in 0..(CoreLoops(s) - 1)
      BY <1>2 DEF b
    <3>2. B[t] = Along(s, batch, Swizzled(Loops(s)[2], Loops(s)[3], s, i))
      BY <1>3 DEF IdentityBlock, b
    <3>3. q[t] = batch /\ p[t] = i /\ K[t] = 0..(s.shape[4] - 1)
      BY <1>3
    <3> HIDE DEF batch, i, B, q, p, K, T
    <3>4. Along(s, batch, Swizzled(Loops(s)[2], Loops(s)[3], s, i))
            = BlockOf(s, Order(s), batch, i, 0..(s.shape[4] - 1))
      BY <3>1, AlongOrder, Zenon
    <3> QED
      BY <3>2, <3>3, <3>4, Zenon
  <2> QED
    BY <2>1 DEF BlocksOf
<1> HIDE DEF q, p, K, B, D
<1>5. Dealt(s, T, q, p, K)
  <2>1. ASSUME NEW t \in T
        PROVE  q[t] \in 0..(a - 1) /\ p[t] \in 0..(b - 1) /\ K[t] \subseteq D
    BY <1>2, <1>3
  <2>2. ASSUME NEW x \in 0..(a - 1), NEW i \in 0..(b - 1), NEW k \in D
        PROVE  \E t \in T : q[t] = x /\ p[t] = i /\ k \in K[t]
    <3>1. x * b + i + 1 \in T
      BY <1>2
    <3> QED
      BY <1>2, <1>3, <3>1
  <2>3. ASSUME NEW t \in T, NEW u \in T, q[t] = q[u], p[t] = p[u]
        PROVE  t = u
    BY <1>2, <1>3, <2>3
  <2> QED
    BY <2>1, <2>2, <2>3 DEF Dealt, a, b, D
<1>6. Cuts(s.shape, T, B)
  BY <1>4, <1>5, OrderPasses, DealtCuts
<1> QED
  BY <1>2, <1>6 DEF n, B, a, b

-----------------------------------------------------------------------------
(* The greatest common divisor, the least common multiple, and the         *)
(* diagonal.                                                               *)

(* d divides a. *)
Divides(d, a) == \E x \in Nat : a = d * x

(* What divides both. *)
Common(a, b) == {d \in Nat : Divides(d, a) /\ Divides(d, b)}

(* What divides b and a divides b and the remainder, and the other way     *)
(* round.                                                                  *)
LEMMA CommonOfRemainder ==
    ASSUME NEW a \in Nat, NEW b \in Nat \ {0}
    PROVE  Common(b, a % b) = Common(a, b)
<1> DEFINE q == a \div b
           r == a % b
<1>1. q \in Nat /\ r \in Nat /\ a = q * b + r
  BY Division
<1> HIDE DEF q, r
<1>2. ASSUME NEW d \in Nat, Divides(d, b)
      PROVE  Divides(d, a) <=> Divides(d, r)
  <2>1. PICK x \in Nat : b = d * x
    BY <1>2 DEF Divides
  <2>2. ASSUME NEW y \in Nat, r = d * y
        PROVE  a = d * (q * x + y) /\ q * x + y \in Nat
    BY <1>1, <2>1, <2>2
  <2>3. ASSUME NEW z \in Nat, a = d * z
        PROVE  Divides(d, r)
    <3>1. r = d * (z - q * x)
      BY <1>1, <2>1, <2>3
    <3>2. CASE q * x <= z
      BY <1>1, <3>1, <3>2 DEF Divides
    <3>3. CASE ~(q * x <= z)
      BY <1>1, <3>1, <3>3, MultiplyMono DEF Divides
    <3> QED
      BY <3>2, <3>3
  <2> QED
    BY <2>2, <2>3 DEF Divides
<1> QED
  BY <1>2 DEF Common, r

(* A function satisfies the equation of Gcd, so that Gcd does.             *)
LEMMA GcdIs ==
    ASSUME NEW a \in Nat, NEW b \in Nat
    PROVE  Gcd[<<a, b>>] = IF b = 0 THEN a ELSE Gcd[<<b, a % b>>]
<1> DEFINE P(g) == g = [p \in Nat \X Nat |-> IF p[2] = 0 THEN p[1] ELSE g[<<p[2], p[1] % p[2]>>]]
           Top(S) == CHOOSE d \in S : \A e \in S : e <= d
           f == [p \in Nat \X Nat |-> IF p[1] = 0 /\ p[2] = 0 THEN 0 ELSE Top(Common(p[1], p[2]))]
<1>1. ASSUME NEW p \in Nat \X Nat
      PROVE  f[p] = IF p[2] = 0 THEN p[1] ELSE f[<<p[2], p[1] % p[2]>>]
  <2> DEFINE x == p[1]
             y == p[2]
  <2>1. x \in Nat /\ y \in Nat
    OBVIOUS
  <2>2. f[p] = IF x = 0 /\ y = 0 THEN 0 ELSE Top(Common(x, y))
    OBVIOUS
  <2>3. CASE y # 0
    <3> DEFINE m == x % y
               o == <<y, m>>
    <3>1. m \in Nat
      <4> HIDE DEF x, y
      <4> QED
        BY <2>1, <2>3, Division
    <3> HIDE DEF m
    <3>2. f[o] = Top(Common(y, m))
      BY <2>1, <2>3, <3>1
    <3>3. Common(y, m) = Common(x, y)
      <4> HIDE DEF x, y
      <4> QED
        BY <2>1, <2>3, CommonOfRemainder DEF m
    <3> HIDE DEF f, Top
    <3> QED
      BY <2>2, <2>3, <3>2, <3>3 DEF m
  <2>4. CASE y = 0 /\ x # 0
    <3> DEFINE S == Common(x, y)
    <3>1. x \in S
      BY <2>1, <2>4 DEF Common, Divides
    <3>2. ASSUME NEW e \in S
          PROVE  e \in Nat /\ e <= x
      <4>1. e \in Nat
        BY DEF Common
      <4>2. PICK z \in Nat : x = e * z
        BY DEF Common, Divides
      <4> HIDE DEF x, y, S
      <4> QED
        BY <2>1, <2>4, <4>1, <4>2, MultiplyMono
    <3> HIDE DEF S, x, y
    <3>3. Top(S) = x
      <4>1. \A d \in S : (\A e \in S : e <= d) => d = x
        BY <2>1, <3>1, <3>2
      <4> QED
        BY <3>1, <3>2, <4>1
    <3> QED
      BY <2>2, <2>4, <3>3 DEF S, y, x
  <2>5. CASE y = 0 /\ x = 0
    BY <2>2, <2>5
  <2> QED
    BY <2>3, <2>4, <2>5
<1>2. P(f)
  <2>1. f = [p \in Nat \X Nat |-> f[p]]
    OBVIOUS
  <2> HIDE DEF f
  <2>2. [p \in Nat \X Nat |-> f[p]]
          = [p \in Nat \X Nat |-> IF p[2] = 0 THEN p[1] ELSE f[<<p[2], p[1] % p[2]>>]]
    BY <1>1, Zenon
  <2> QED
    BY <2>1, <2>2
<1> HIDE DEF f, P
<1> QED
  BY <1>2 DEF P, Gcd

(* g divides a and b, and is a sum of multiples of them.                   *)
Bezout(a, b, g) ==
    /\ g \in Nat
    /\ \E x, y \in Nat : a = g * x /\ b = g * y
    /\ \E u, v \in Int : g = a * u + b * v

(* So does what divides b and the remainder.                               *)
LEMMA BezoutStep ==
    ASSUME NEW a \in Nat, NEW b \in Nat \ {0}, NEW g, Bezout(b, a % b, g)
    PROVE  Bezout(a, b, g)
<1> DEFINE q == a \div b
           r == a % b
<1>1. q \in Nat /\ r \in Nat /\ a = q * b + r
  <2>1. a \div b \in Nat /\ a % b \in 0..(b - 1) /\ a = (a \div b) * b + (a % b)
    BY Division
  <2> QED
    BY <2>1
<1>2. Bezout(b, r, g)
  OBVIOUS
<1> HIDE DEF q, r
<1>3. g \in Nat
  BY <1>2 DEF Bezout
<1>4. PICK x \in Nat, y \in Nat : b = g * x /\ r = g * y
  BY <1>2 DEF Bezout
<1>5. PICK u \in Int, v \in Int : g = b * u + r * v
  BY <1>2 DEF Bezout
<1>6. a = g * (q * x + y) /\ q * x + y \in Nat
  BY <1>1, <1>3, <1>4
<1>7. g = a * v + b * (u - q * v) /\ u - q * v \in Int
  BY <1>1, <1>5
<1> QED
  BY <1>3, <1>4, <1>5, <1>6, <1>7 DEF Bezout

(* Gcd returns such a divisor.                                             *)
LEMMA GcdBezout ==
    ASSUME NEW a \in Nat, NEW b \in Nat
    PROVE  Bezout(a, b, Gcd[<<a, b>>])
<1> DEFINE Good(y) == \A x \in Nat : Bezout(x, y, Gcd[<<x, y>>])
           T == {y \in Nat : ~Good(y)}
<1>1. T = {}
  <2> SUFFICES ASSUME T # {}
               PROVE  FALSE
    OBVIOUS
  <2>1. PICK y \in T : \A z \in T : y <= z
    BY Least
  <2>2. ASSUME NEW x \in Nat
        PROVE  Bezout(x, y, Gcd[<<x, y>>])
    <3>1. CASE y = 0
      <4>1. Gcd[<<x, y>>] = x
        BY <2>1, <3>1, GcdIs
      <4> QED
        BY <3>1, <4>1 DEF Bezout
    <3>2. CASE y # 0
      <4> DEFINE r == x % y
      <4>1. y \in Nat \ {0}
        BY <2>1, <3>2
      <4>2. r \in Nat /\ r < y
        <5>1. r \in 0..(y - 1)
          BY <4>1, Division
        <5> QED
          BY <4>1, <5>1
      <4>3. Good(r)
        <5> HIDE DEF Good, r
        <5> QED
          BY <2>1, <4>1, <4>2
      <4> QED
        BY <4>1, <4>3, GcdIs, BezoutStep
    <3> QED
      BY <3>1, <3>2
  <2> QED
    BY <2>1, <2>2
<1> HIDE DEF Good
<1> QED
  BY <1>1 DEF Good

(* L is a common multiple of a and b: the one has as many multiples in it  *)
(* as the other in the divisor g.                                          *)
LcmOf(a, b, L, g, x, y) ==
    /\ a = g * x /\ b = g * y
    /\ L = x * b /\ L = a * y /\ a * b = g * L
    /\ L \in Nat \ {0}
    /\ \E u, v \in Int : g = a * u + b * v

(* Lcm returns such a multiple.                                            *)
LEMMA LcmIs ==
    ASSUME NEW a \in Nat \ {0}, NEW b \in Nat \ {0}
    PROVE  \E g \in Nat \ {0}, x \in Nat \ {0}, y \in Nat \ {0} : LcmOf(a, b, Lcm(a, b), g, x, y)
<1> DEFINE g == Gcd[<<a, b>>]
<1>1. Bezout(a, b, g)
  BY GcdBezout
<1>2. Lcm(a, b) = (a * b) \div g
  BY DEF Lcm
<1> HIDE DEF g
<1>3. g \in Nat
  BY <1>1 DEF Bezout
<1>4. PICK x \in Nat, y \in Nat : a = g * x /\ b = g * y
  BY <1>1 DEF Bezout
<1>5. g # 0 /\ x # 0 /\ y # 0
  BY <1>3, <1>4
<1> DEFINE L == x * b
<1>6. L \in Nat \ {0}
  BY <1>4, <1>5
<1>7. a * b = L * g + 0 /\ a * b = g * L
  BY <1>3, <1>4, <1>6
<1> HIDE DEF L
<1>8. (L * g + 0) \div g = L
  BY <1>3, <1>5, <1>6, Quotient
<1>9. Lcm(a, b) = L
  BY <1>2, <1>7, <1>8
<1>10. \E u, v \in Int : g = a * u + b * v
  BY <1>1 DEF Bezout
<1>11. LcmOf(a, b, Lcm(a, b), g, x, y)
  BY <1>3, <1>4, <1>6, <1>7, <1>9, <1>10 DEF L, LcmOf
<1> QED
  BY <1>3, <1>5, <1>11, Zenon

(* Division of what may be negative.                                       *)
LEMMA IntDivision ==
    ASSUME NEW a \in Int, NEW k \in Nat \ {0}
    PROVE  /\ a \div k \in Int
           /\ a % k \in 0..(k - 1)
           /\ a = (a \div k) * k + (a % k)
OBVIOUS

(* A remainder is known when it is found, below zero too.                  *)
LEMMA IntRemainder ==
    ASSUME NEW q \in Int, NEW k \in Nat \ {0}, NEW m \in 0..(k - 1)
    PROVE  (q * k + m) % k = m
OBVIOUS

(* A multiple of k nearer to zero than k is zero.                          *)
LEMMA SmallMultiple ==
    ASSUME NEW d \in Int, NEW k \in Nat \ {0}, NEW e \in Int, e = k * d, -k < e, e < k
    PROVE  d = 0
<1>1. CASE d >= 1
  BY <1>1, MultiplyMono
<1>2. CASE d <= -1
  BY <1>2, MultiplyMono
<1> QED
  BY <1>1, <1>2

(* The diagonal that MisplacedCoord follows within an L2 tile.             *)
DiagonalAt(rows, cols, i) == <<i % rows, (i + i \div Lcm(rows, cols)) % cols>>

(* It is at every place.                                                   *)
LEMMA DiagonalFinds ==
    ASSUME NEW rows \in Nat \ {0}, NEW cols \in Nat \ {0},
           NEW r \in 0..(rows - 1), NEW c \in 0..(cols - 1)
    PROVE  \E i \in 0..(rows * cols - 1) : DiagonalAt(rows, cols, i) = <<r, c>>
<1> DEFINE L == Lcm(rows, cols)
<1>1. PICK g \in Nat \ {0}, x \in Nat \ {0}, y \in Nat \ {0} : LcmOf(rows, cols, L, g, x, y)
  BY LcmIs
<1> HIDE DEF L
<1>2. /\ rows = g * x /\ cols = g * y
      /\ L = x * cols /\ L = rows * y
      /\ rows * cols = g * L /\ L \in Nat \ {0}
      /\ \E u, v \in Int : g = rows * u + cols * v
  BY <1>1 DEF LcmOf
<1>3. PICK u \in Int, v \in Int : g = rows * u + cols * v
  BY <1>2
<1> DEFINE q == (c - r) % g
           k == (c - r) \div g
<1>4. k \in Int /\ q \in 0..(g - 1) /\ c - r = k * g + q
  BY IntDivision
<1> HIDE DEF q, k
<1> DEFINE a == r + rows * (u * k)
           Q == a \div L
           w == a % L
<1>5. a \in Int /\ Q \in Int /\ w \in 0..(L - 1) /\ a = Q * L + w
  <2>1. a \in Int
    BY <1>3, <1>4
  <2> HIDE DEF a
  <2> QED
    BY <1>2, <2>1, IntDivision
<1>6. a = c - q - cols * (v * k)
  <2> DEFINE A == rows * (u * k)
             B == cols * (v * k)
  <2>1. A \in Int /\ B \in Int /\ c - r = A + B + q /\ a = r + A
    BY <1>3, <1>4
  <2> HIDE DEF A, B, a
  <2> QED
    BY <1>4, <2>1 DEF B
<1>7. a = r + rows * (u * k)
  OBVIOUS
<1> HIDE DEF a, Q, w
<1> DEFINE i == q * L + w
<1>8. i \in Nat /\ i < g * L
  <2>1. q \in Nat /\ q < g /\ w \in Nat /\ w < L
    BY <1>2, <1>4, <1>5
  <2> QED
    BY <1>2, <2>1, Digits
<1>9. i \div L = q
  BY <1>2, <1>4, <1>5, Quotient
<1>10. i % rows = r
  <2> DEFINE A == u * k
             B == (A + (q - Q) * y)
  <2>1. A \in Int /\ B \in Int
    BY <1>2, <1>3, <1>4, <1>5
  <2>2. i = B * rows + r
    <3> DEFINE X == rows * A
               Y == rows * (q * y)
               Z == rows * (Q * y)
               W == B * rows
    <3>1. X \in Int /\ Y \in Int /\ Z \in Int /\ w \in Int
      BY <1>2, <1>4, <1>5, <2>1
    <3>2. W = X + Y - Z /\ Q * L = Z /\ q * L = Y /\ r + X = Q * L + w /\ i = q * L + w
      BY <1>2, <1>3, <1>4, <1>5, <1>7, <2>1
    <3> HIDE DEF X, Y, Z, W, i
    <3>3. i = W + r
      BY <3>1, <3>2
    <3> QED
      BY <3>3 DEF W
  <2> HIDE DEF A, B, i
  <2> QED
    BY <2>1, <2>2, IntRemainder
<1>11. (i + q) % cols = c
  <2> DEFINE A == v * k
             B == ((q - Q) * x - A)
  <2>1. A \in Int /\ B \in Int
    BY <1>2, <1>3, <1>4, <1>5
  <2>2. i + q = B * cols + c
    <3> DEFINE X == cols * A
               Y == cols * (q * x)
               Z == cols * (Q * x)
               W == B * cols
    <3>1. X \in Int /\ Y \in Int /\ Z \in Int /\ w \in Int /\ q \in Int
      BY <1>2, <1>4, <1>5, <2>1
    <3>2. W = Y - Z - X /\ Q * L = Z /\ q * L = Y /\ c - q - X = Q * L + w /\ i = q * L + w
      BY <1>2, <1>3, <1>4, <1>5, <1>6, <2>1
    <3> HIDE DEF X, Y, Z, W, i
    <3> QED
      BY <3>1, <3>2 DEF W
  <2> HIDE DEF A, B, i
  <2> QED
    BY <2>1, <2>2, IntRemainder
<1> HIDE DEF i
<1>12. i \in 0..(rows * cols - 1)
  <2> DEFINE n == g * L
  <2>1. n \in Int /\ i < n /\ rows * cols = n
    BY <1>2, <1>8
  <2> HIDE DEF n
  <2> QED
    BY <1>8, <2>1
<1> QED
  BY <1>9, <1>10, <1>11, <1>12 DEF DiagonalAt, L

(* And at none twice.                                                      *)
LEMMA DiagonalOnce ==
    ASSUME NEW rows \in Nat \ {0}, NEW cols \in Nat \ {0},
           NEW i \in 0..(rows * cols - 1), NEW j \in 0..(rows * cols - 1),
           DiagonalAt(rows, cols, i) = DiagonalAt(rows, cols, j)
    PROVE  i = j
<1> DEFINE L == Lcm(rows, cols)
<1>1. PICK g \in Nat \ {0}, x \in Nat \ {0}, y \in Nat \ {0} : LcmOf(rows, cols, L, g, x, y)
  BY LcmIs
<1> HIDE DEF L
<1>2. /\ rows = g * x /\ cols = g * y
      /\ L = x * cols /\ L = rows * y
      /\ rows * cols = g * L /\ L \in Nat \ {0}
      /\ \E u, v \in Int : g = rows * u + cols * v
  BY <1>1 DEF LcmOf
<1>3. PICK u \in Int, v \in Int : g = rows * u + cols * v
  BY <1>2
<1>4. ASSUME NEW e \in 0..(rows * cols - 1)
      PROVE  /\ e \in Nat /\ e \div L \in 0..(g - 1) /\ e % L \in 0..(L - 1)
             /\ e = (e \div L) * L + (e % L)
             /\ e \div rows \in Int /\ e = (e \div rows) * rows + (e % rows) /\ e % rows \in Int
             /\ (e + e \div L) \div cols \in Int /\ (e + e \div L) % cols \in Int
             /\ e + e \div L = ((e + e \div L) \div cols) * cols + ((e + e \div L) % cols)
  <2>1. e \in Nat /\ e < g * L
    BY <1>2
  <2>2. e \div L \in Nat /\ e % L \in 0..(L - 1) /\ e = (e \div L) * L + (e % L)
    BY <1>2, <2>1, Division
  <2> DEFINE p == e \div L
             f == e + p
  <2> HIDE DEF p
  <2>3. p < g
    BY <1>2, <2>1, <2>2, MultiplyLess DEF p
  <2>4. f \in Nat
    BY <2>1, <2>2 DEF p
  <2> HIDE DEF f
  <2>5. f \div cols \in Nat /\ f % cols \in 0..(cols - 1) /\ f = (f \div cols) * cols + (f % cols)
    BY <2>4, Division
  <2>6. e \div rows \in Nat /\ e % rows \in 0..(rows - 1) /\ e = (e \div rows) * rows + (e % rows)
    BY <2>1, Division
  <2> QED
    BY <2>1, <2>2, <2>3, <2>5, <2>6 DEF f, p
<1> DEFINE q == i \div L
           p == j \div L
           w == i % L
           z == j % L
           s == i \div rows - j \div rows
           t == (i + q) \div cols - (j + p) \div cols
<1>5. i % rows = j % rows /\ (i + q) % cols = (j + p) % cols
  BY DEF DiagonalAt, L
<1>6. /\ i \in Int /\ j \in Int /\ q \in 0..(g - 1) /\ p \in 0..(g - 1) /\ w \in 0..(L - 1) /\ z \in 0..(L - 1)
      /\ i = q * L + w /\ j = p * L + z
  BY <1>4
<1>7. s \in Int /\ i - j = rows * s
  <2> DEFINE A == i \div rows
             B == j \div rows
             m == j % rows
  <2>1. A \in Int /\ B \in Int /\ m \in Int /\ i = A * rows + m /\ j = B * rows + m /\ s = A - B
    BY <1>4, <1>5
  <2> HIDE DEF A, B, m, s
  <2> QED
    BY <2>1
<1>8. t \in Int /\ (i + q) - (j + p) = cols * t
  <2> DEFINE F == i + q
             G == j + p
             A == F \div cols
             B == G \div cols
             m == G % cols
  <2>1. A \in Int /\ B \in Int /\ m \in Int /\ F = A * cols + m /\ G = B * cols + m /\ t = A - B
    BY <1>4, <1>5
  <2> HIDE DEF F, G, A, B, m, t
  <2> QED
    BY <2>1 DEF F, G
<1> HIDE DEF q, p, w, z, s, t
<1>9. q = p
  <2> DEFINE d == y * t - x * s
             e == q - p
  <2>1. d \in Int
    BY <1>7, <1>8
  <2>2. e = g * d /\ e \in Int /\ -g < e /\ e < g
    <3> DEFINE A == cols * t
               B == rows * s
    <3>1. A = (i + q) - (j + p) /\ B = i - j /\ g * d = A - B
      BY <1>2, <1>7, <1>8
    <3> HIDE DEF A, B
    <3> QED
      BY <1>6, <3>1
  <2> HIDE DEF d, e
  <2> QED
    BY <1>6, <2>1, <2>2, SmallMultiple DEF e
<1>10. w - z = L * (u * t + v * s)
  <2> DEFINE D == i - j
             E == u * t + v * s
  <2>1. D \in Int /\ D = rows * s /\ D = cols * t /\ D = w - z
    BY <1>2, <1>6, <1>7, <1>8, <1>9
  <2>2. E \in Int
    BY <1>3, <1>7, <1>8
  <2> HIDE DEF D
  <2>3. (rows * u) * D = (rows * cols) * (u * t)
    BY <1>3, <1>8, <2>1
  <2>4. g * D = (g * L) * E
    <3> DEFINE A == (rows * cols) * (u * t)
               B == (rows * cols) * (v * s)
    <3>1. g * D = A + B /\ (rows * cols) * E = A + B
      BY <1>3, <1>7, <1>8, <2>1, <2>3
    <3> HIDE DEF A, B, E
    <3> QED
      BY <1>2, <3>1
  <2> HIDE DEF E
  <2> DEFINE F == L * E
  <2>5. g * D = g * F /\ F \in Int
    BY <1>2, <2>2, <2>4
  <2> HIDE DEF F
  <2>6. D - F = 0
    <3> DEFINE d == D - F
    <3>1. d \in Int /\ 0 = g * d /\ -g < 0 /\ 0 < g
      BY <2>1, <2>5
    <3> HIDE DEF d
    <3> QED
      BY <3>1, SmallMultiple DEF d
  <2> QED
    BY <2>1, <2>5, <2>6 DEF F, E
<1>11. w = z
  <2> DEFINE d == u * t + v * s
             e == w - z
  <2>1. d \in Int
    BY <1>3, <1>7, <1>8
  <2>2. e = L * d /\ e \in Int /\ -L < e /\ e < L
    BY <1>2, <1>6, <1>10
  <2> HIDE DEF d, e
  <2> QED
    BY <1>2, <1>6, <2>1, <2>2, SmallMultiple DEF e
<1> QED
  BY <1>6, <1>9, <1>11

(* So the diagonal is an order of rows and columns.                        *)
LEMMA DiagonalPasses ==
    ASSUME NEW rows \in Nat \ {0}, NEW cols \in Nat \ {0}, NEW n, n = rows * cols
    PROVE  Passes(rows, cols, n, [i \in 0..(n - 1) |-> DiagonalAt(rows, cols, i)])
<1> DEFINE z == [i \in 0..(n - 1) |-> DiagonalAt(rows, cols, i)]
<1>1. \A i \in 0..(n - 1) : z[i] = DiagonalAt(rows, cols, i)
  OBVIOUS
<1> HIDE DEF z
<1>2. ASSUME NEW i \in 0..(n - 1)
      PROVE  z[i][1] \in 0..(rows - 1) /\ z[i][2] \in 0..(cols - 1)
  <2> DEFINE L == Lcm(rows, cols)
             f == i + i \div L
  <2>1. z[i][1] = i % rows /\ z[i][2] = f % cols
    BY <1>1 DEF DiagonalAt
  <2>2. L \in Nat \ {0}
    BY LcmIs DEF LcmOf
  <2> HIDE DEF L
  <2>3. i \in Nat /\ i \div L \in Nat
    BY <2>2, Division
  <2>4. f \in Nat
    BY <2>3
  <2> HIDE DEF f
  <2>5. f % cols \in 0..(cols - 1) /\ i % rows \in 0..(rows - 1)
    BY <2>3, <2>4, Division
  <2> QED
    BY <2>1, <2>5
<1>3. ASSUME NEW r \in 0..(rows - 1), NEW c \in 0..(cols - 1)
      PROVE  \E i \in 0..(n - 1) : z[i][1] = r /\ z[i][2] = c
  <2>1. PICK i \in 0..(n - 1) : DiagonalAt(rows, cols, i) = <<r, c>>
    BY DiagonalFinds
  <2> QED
    BY <1>1, <2>1
<1>4. ASSUME NEW i \in 0..(n - 1), NEW j \in 0..(n - 1), z[i][1] = z[j][1], z[i][2] = z[j][2]
      PROVE  i = j
  BY <1>1, <1>4, DiagonalOnce DEF DiagonalAt
<1> QED
  BY <1>2, <1>3, <1>4 DEF z, Passes

-----------------------------------------------------------------------------
(* The L2 tiles of the misplaced swizzle.                                  *)

(* Element i of rows that are passed in bands of offset rows is element k  *)
(* of band b.                                                              *)
BandOf(rows, cols, offset, i, b, k) ==
    /\ b \in Nat /\ b * offset < rows
    /\ k \in Nat /\ k < RowsAt(rows, offset, b) * cols
    /\ i = b * (offset * cols) + k

(* It is in one. *)
LEMMA BandIs ==
    ASSUME NEW rows \in Nat \ {0}, NEW cols \in Nat \ {0}, NEW offset \in Nat \ {0},
           NEW n, n = rows * cols, NEW i \in 0..(n - 1)
    PROVE  BandOf(rows, cols, offset, i, i \div (offset * cols), i % (offset * cols))
<1> DEFINE W == offset * cols
           b == i \div W
           m == i % W
           h == RowsAt(rows, offset, b)
<1>1. i \in Nat /\ i < rows * cols /\ rows * cols \in Nat
  BY MultiplyMono
<1>2. W \in Nat \ {0}
  OBVIOUS
<1>3. b \in Nat /\ m \in 0..(W - 1) /\ i = b * W + m
  BY <1>1, <1>2, Division
<1> HIDE DEF b, m
<1>4. b * W = (b * offset) * cols /\ b * offset \in Nat /\ b * W \in Nat
  BY <1>3
<1>5. b * offset < rows
  BY <1>1, <1>2, <1>3, <1>4, MultiplyLess
<1>6. h \in 1..offset /\ b * offset + h <= rows
  BY <1>3, <1>5, TileBlocks
<1>7. m < h * cols
  <2>1. h \in Nat \ {0} /\ h <= offset
    BY <1>6
  <2> HIDE DEF h
  <2>2. h * cols \in Nat
    BY <2>1
  <2>3. CASE h = offset
    BY <1>2, <1>3, <2>2, <2>3
  <2>4. CASE h # offset
    <3>1. rows * cols = (b * offset) * cols + h * cols
      BY <1>3, <1>4, <2>1, <2>4 DEF h, RowsAt
    <3> QED
      BY <1>1, <1>2, <1>3, <1>4, <2>2, <3>1
  <2> QED
    BY <2>3, <2>4
<1> HIDE DEF W
<1> QED
  BY <1>2, <1>3, <1>5, <1>7 DEF BandOf, h, b, m, W

(* And in no other, and every element of a band is one of the rows.        *)
LEMMA BandDigits ==
    ASSUME NEW rows \in Nat \ {0}, NEW cols \in Nat \ {0}, NEW offset \in Nat \ {0},
           NEW n, n = rows * cols, NEW i, NEW b, NEW k, BandOf(rows, cols, offset, i, b, k)
    PROVE  i \in 0..(n - 1) /\ i \div (offset * cols) = b /\ i % (offset * cols) = k
<1> DEFINE W == offset * cols
           h == RowsAt(rows, offset, b)
<1>1. b \in Nat /\ b * offset < rows /\ k \in Nat /\ k < h * cols /\ i = b * W + k
  BY DEF BandOf
<1>2. h \in 1..offset /\ b * offset + h <= rows
  BY <1>1, TileBlocks
<1>3. h \in Nat \ {0} /\ h <= offset
  BY <1>2
<1> HIDE DEF h
<1>4. W \in Nat \ {0} /\ h * cols <= W /\ h * cols \in Nat
  BY <1>3, MultiplyMono
<1>5. (b * offset + h) * cols = (b * offset) * cols + h * cols /\ (b * offset) * cols = b * W
  BY <1>1, <1>3
<1> HIDE DEF W
<1>6. i \in 0..(n - 1)
  BY <1>1, <1>2, <1>3, <1>4, <1>5, MultiplyMono
<1> QED
  BY <1>1, <1>4, <1>6, Quotient DEF W

(* What is left for the last L2 tile.                                      *)
LEMMA TailIs ==
    ASSUME NEW total \in Nat \ {0}, NEW normal \in Nat \ {0}, NEW b \in Nat
    PROVE  (IF b = CeilDiv(total, normal) - 1 THEN TailNum(total, normal) ELSE normal)
             = RowsAt(total, normal, b)
<1> DEFINE c == CeilDiv(total, normal)
           q == total \div normal
           m == total % normal
<1>1. c \in Nat /\ c * normal \in Nat /\ total <= c * normal /\ c * normal < total + normal
  BY CeilDivFacts
<1>2. q \in Nat /\ m \in 0..(normal - 1) /\ total = q * normal + m /\ q * normal \in Nat
  <2>1. q \in Nat /\ m \in 0..(normal - 1) /\ total = q * normal + m
    BY Division
  <2> HIDE DEF q, m
  <2> QED
    BY <2>1
<1>3. TailNum(total, normal) = IF m = 0 THEN normal ELSE m
  BY DEF TailNum
<1> HIDE DEF c, q, m
<1>4. CASE m = 0
  <2>1. c = q
    <3>1. q * normal <= c * normal /\ c * normal < (q + 1) * normal
      BY <1>1, <1>2, <1>4
    <3>2. ~(c < q)
      <4> SUFFICES ASSUME c + 1 <= q
                   PROVE  FALSE
        BY <1>1, <1>2
      <4> QED
        BY <1>1, <1>2, <3>1, MultiplyMono
    <3> QED
      BY <1>1, <1>2, <3>1, <3>2, MultiplyLess
  <2> QED
    BY <1>1, <1>2, <1>3, <1>4, <2>1 DEF RowsAt, c
<1>5. CASE m # 0
  <2>1. c = q + 1
    BY <1>1, <1>2, <1>5, MultiplyLess
  <2> QED
    BY <1>2, <1>3, <1>5, <2>1 DEF RowsAt, c
<1> QED
  BY <1>4, <1>5

(* Block i of m rows and n columns in L2 tiles of t rows and columns is    *)
(* about element k of L2 tile q of band b, which has h rows and w columns. *)
Misplaced(m, n, t, i) ==
    LET b == i \div (t[1] * n)
        h == RowsAt(m, t[1], b)
        q == (i % (t[1] * n)) \div (t[2] * h)
        w == RowsAt(n, t[2], q)
        k == (i % (t[1] * n)) % (t[2] * h)
    IN <<DiagonalAt(h, w, k)[1] + b * t[1], DiagonalAt(h, w, k)[2] + q * t[2]>>

(* Block i is element k of L2 tile q of band b.                            *)
InL2Tile(m, n, t, i, b, q, k) ==
    \E j \in Nat : BandOf(m, n, t[1], i, b, j) /\ BandOf(n, RowsAt(m, t[1], b), t[2], j, q, k)

(* Such an L2 tile has rows and columns of the problem.                    *)
LEMMA L2TileInside ==
    ASSUME NEW m \in Nat \ {0}, NEW n \in Nat \ {0}, NEW t1 \in Nat \ {0}, NEW b \in Nat, b * t1 < m
    PROVE  /\ RowsAt(m, t1, b) \in Nat \ {0} /\ RowsAt(m, t1, b) <= t1
           /\ b * t1 + RowsAt(m, t1, b) <= m /\ b * t1 \in Nat
<1>1. RowsAt(m, t1, b) \in 1..t1 /\ b * t1 + RowsAt(m, t1, b) <= m
  BY TileBlocks
<1> QED
  BY <1>1

(* Such a block is one of the problem, and the diagonal of its L2 tile     *)
(* says where it is.                                                       *)
LEMMA MisplacedIs ==
    ASSUME NEW m \in Nat \ {0}, NEW n \in Nat \ {0}, NEW t, t[1] \in Nat \ {0}, t[2] \in Nat \ {0},
           NEW i \in Nat, NEW b, NEW q, NEW k, InL2Tile(m, n, t, i, b, q, k)
    PROVE  /\ i \in 0..(m * n - 1)
           /\ b \in Nat /\ b * t[1] < m /\ q \in Nat /\ q * t[2] < n
           /\ k \in 0..(RowsAt(m, t[1], b) * RowsAt(n, t[2], q) - 1)
           /\ Misplaced(m, n, t, i)
                = <<DiagonalAt(RowsAt(m, t[1], b), RowsAt(n, t[2], q), k)[1] + b * t[1],
                    DiagonalAt(RowsAt(m, t[1], b), RowsAt(n, t[2], q), k)[2] + q * t[2]>>
<1> DEFINE h == RowsAt(m, t[1], b)
           w == RowsAt(n, t[2], q)
<1>1. PICK j \in Nat : BandOf(m, n, t[1], i, b, j) /\ BandOf(n, h, t[2], j, q, k)
  BY DEF InL2Tile
<1>2. b \in Nat /\ b * t[1] < m /\ q \in Nat /\ q * t[2] < n /\ k \in Nat /\ k < w * h
  BY <1>1 DEF BandOf
<1>3. h \in Nat \ {0}
  BY <1>2, L2TileInside
<1>4. w \in Nat \ {0}
  BY <1>2, L2TileInside
<1>5. i \in 0..(m * n - 1) /\ i \div (t[1] * n) = b /\ i % (t[1] * n) = j
  BY <1>1, BandDigits
<1> HIDE DEF h
<1> HIDE DEF w
<1>6. Misplaced(m, n, t, i) = <<DiagonalAt(h, w, k)[1] + b * t[1], DiagonalAt(h, w, k)[2] + q * t[2]>>
  BY <1>1, <1>3, <1>5, BandDigits DEF Misplaced, h, w
<1> QED
  BY <1>2, <1>3, <1>4, <1>5, <1>6 DEF h, w

(* Every block is in an L2 tile.                                           *)
LEMMA SomeL2Tile ==
    ASSUME NEW m \in Nat \ {0}, NEW n \in Nat \ {0}, NEW t, t[1] \in Nat \ {0}, t[2] \in Nat \ {0},
           NEW i \in 0..(m * n - 1)
    PROVE  \E b, q, k : InL2Tile(m, n, t, i, b, q, k)
<1> DEFINE b == i \div (t[1] * n)
           j == i % (t[1] * n)
           h == RowsAt(m, t[1], b)
<1>1. BandOf(m, n, t[1], i, b, j)
  BY BandIs
<1> HIDE DEF b, j
<1>2. b \in Nat /\ b * t[1] < m /\ j \in Nat /\ j < h * n
  BY <1>1 DEF BandOf
<1>3. h \in Nat \ {0}
  BY <1>2, L2TileInside
<1> HIDE DEF h
<1> DEFINE A == n * h
<1>4. A = n * h /\ j \in 0..(A - 1)
  <2> HIDE DEF A
  <2> QED
    BY <1>2, <1>3 DEF A
<1> HIDE DEF A
<1> QED
  BY <1>1, <1>2, <1>3, <1>4, BandIs DEF InL2Tile, h

(* So is every element k of an L2 tile.                                    *)
LEMMA L2TileBlock ==
    ASSUME NEW m \in Nat \ {0}, NEW n \in Nat \ {0}, NEW t, t[1] \in Nat \ {0}, t[2] \in Nat \ {0},
           NEW b \in Nat, b * t[1] < m, NEW q \in Nat, q * t[2] < n,
           NEW k \in 0..(RowsAt(m, t[1], b) * RowsAt(n, t[2], q) - 1)
    PROVE  \E i \in Nat : InL2Tile(m, n, t, i, b, q, k)
<1> DEFINE h == RowsAt(m, t[1], b)
           w == RowsAt(n, t[2], q)
           j == q * (t[2] * h) + k
<1>1. h \in Nat \ {0} /\ w \in Nat \ {0}
  BY L2TileInside
<1>2. k \in Nat /\ k < w * h
  <2> HIDE DEF h, w
  <2> QED
    BY <1>1 DEF h, w
<1>3. BandOf(n, h, t[2], j, q, k)
  BY <1>2 DEF BandOf
<1> HIDE DEF h, w, j
<1> DEFINE B == n * h
<1>4. j \in 0..(B - 1)
  <2>1. B = n * h
    OBVIOUS
  <2> HIDE DEF B
  <2> QED
    BY <1>1, <1>3, <2>1, BandDigits
<1>5. B \in Nat /\ h * n = B
  BY <1>1
<1> HIDE DEF B
<1> QED
  BY <1>3, <1>4, <1>5 DEF InL2Tile, h, BandOf

(* A row of a band is that of one band and place.                          *)
LEMMA BandPlace ==
    ASSUME NEW k \in Nat \ {0}, NEW b \in Nat, NEW d \in 0..(k - 1),
           NEW c \in Nat, NEW e \in 0..(k - 1), d + b * k = e + c * k
    PROVE  b = c /\ d = e
<1> QED
  BY Quotient

(* Number i is row d and column e of L2 tile (b, q), where it is element k. *)
PlacedIn(m, n, t, i, b, q, k, d, e) ==
    /\ InL2Tile(m, n, t, i, b, q, k)
    /\ b \in Nat /\ b * t[1] < m /\ q \in Nat /\ q * t[2] < n
    /\ k \in 0..(RowsAt(m, t[1], b) * RowsAt(n, t[2], q) - 1)
    /\ d \in 0..(t[1] - 1) /\ d < RowsAt(m, t[1], b)
    /\ e \in 0..(t[2] - 1) /\ e < RowsAt(n, t[2], q)
    /\ DiagonalAt(RowsAt(m, t[1], b), RowsAt(n, t[2], q), k) = <<d, e>>
    /\ Misplaced(m, n, t, i) = <<d + b * t[1], e + q * t[2]>>

(* Each element of a matrix is on its diagonal.                            *)
OnDiagonal(rows, cols, r, c) == \E i \in 0..(rows * cols - 1) : DiagonalAt(rows, cols, i) = <<r, c>>

(* So is every one.                                                        *)
LEMMA DiagonalHolds ==
    ASSUME NEW rows \in Nat \ {0}, NEW cols \in Nat \ {0},
           NEW r \in 0..(rows - 1), NEW c \in 0..(cols - 1)
    PROVE  OnDiagonal(rows, cols, r, c)
  BY DiagonalFinds DEF OnDiagonal

(* The first numbers are an order of rows and columns.                     *)
LEMMA MisplacedPasses ==
    ASSUME NEW m \in Nat \ {0}, NEW n \in Nat \ {0}, NEW t, t[1] \in Nat \ {0}, t[2] \in Nat \ {0},
           NEW N, N = m * n
    PROVE  Passes(m, n, N, [i \in 0..(N - 1) |-> Misplaced(m, n, t, i)])
<1> DEFINE z == [i \in 0..(N - 1) |-> Misplaced(m, n, t, i)]
           H(b) == RowsAt(m, t[1], b)
           W(q) == RowsAt(n, t[2], q)
<1>1. \A i \in 0..(N - 1) : z[i] = Misplaced(m, n, t, i)
  OBVIOUS
<1> HIDE DEF z
<1>2. ASSUME NEW b \in Nat, b * t[1] < m
      PROVE  H(b) \in Nat \ {0} /\ H(b) <= t[1] /\ b * t[1] + H(b) <= m /\ b * t[1] \in Nat
  BY <1>2, L2TileInside
<1>3. ASSUME NEW q \in Nat, q * t[2] < n
      PROVE  W(q) \in Nat \ {0} /\ W(q) <= t[2] /\ q * t[2] + W(q) <= n /\ q * t[2] \in Nat
  BY <1>3, L2TileInside
<1>4. ASSUME NEW i \in Nat, NEW b, NEW q, NEW k, InL2Tile(m, n, t, i, b, q, k)
      PROVE  /\ i \in 0..(N - 1)
             /\ b \in Nat /\ b * t[1] < m /\ q \in Nat /\ q * t[2] < n
             /\ k \in 0..(H(b) * W(q) - 1)
             /\ Misplaced(m, n, t, i) = <<DiagonalAt(H(b), W(q), k)[1] + b * t[1],
                                          DiagonalAt(H(b), W(q), k)[2] + q * t[2]>>
  BY <1>4, MisplacedIs
<1>5. ASSUME NEW i \in 0..(N - 1)
      PROVE  \E b, q, k : InL2Tile(m, n, t, i, b, q, k)
  BY SomeL2Tile
<1>6. ASSUME NEW h \in Nat \ {0}, NEW w \in Nat \ {0}, NEW k \in 0..(h * w - 1)
      PROVE  DiagonalAt(h, w, k)[1] \in 0..(h - 1) /\ DiagonalAt(h, w, k)[2] \in 0..(w - 1)
  BY DiagonalPasses DEF Passes
<1> HIDE DEF H, W
<1>7. ASSUME NEW i \in 0..(N - 1)
      PROVE  \E b, q, k, d, e : PlacedIn(m, n, t, i, b, q, k, d, e)
  <2>1. PICK b, q, k : InL2Tile(m, n, t, i, b, q, k)
    BY <1>5
  <2> DEFINE d == DiagonalAt(H(b), W(q), k)[1]
             e == DiagonalAt(H(b), W(q), k)[2]
  <2>2. /\ b \in Nat /\ b * t[1] < m /\ q \in Nat /\ q * t[2] < n
        /\ k \in 0..(H(b) * W(q) - 1)
        /\ Misplaced(m, n, t, i) = <<d + b * t[1], e + q * t[2]>>
    BY <1>4, <2>1
  <2>3. H(b) \in Nat \ {0} /\ W(q) \in Nat \ {0} /\ H(b) <= t[1] /\ W(q) <= t[2]
    BY <1>2, <1>3, <2>2
  <2>4. d \in 0..(H(b) - 1) /\ e \in 0..(W(q) - 1)
    BY <1>6, <2>2, <2>3
  <2>5. DiagonalAt(H(b), W(q), k) = <<d, e>>
    BY DEF DiagonalAt
  <2> HIDE DEF d, e
  <2> QED
    BY <2>1, <2>2, <2>3, <2>4, <2>5 DEF PlacedIn, H, W
<1>8. ASSUME NEW i \in 0..(N - 1)
      PROVE  z[i][1] \in 0..(m - 1) /\ z[i][2] \in 0..(n - 1)
  <2>1. PICK b, q, k, d, e : PlacedIn(m, n, t, i, b, q, k, d, e)
    BY <1>7
  <2>2. /\ b \in Nat /\ b * t[1] < m /\ q \in Nat /\ q * t[2] < n
        /\ d \in Nat /\ d < H(b) /\ e \in Nat /\ e < W(q)
        /\ z[i][1] = d + b * t[1] /\ z[i][2] = e + q * t[2]
    BY <1>1, <2>1 DEF PlacedIn, H, W
  <2> DEFINE B == b * t[1]
             Q == q * t[2]
  <2>3. /\ B \in Nat /\ B + H(b) <= m /\ H(b) \in Nat /\ z[i][1] = d + B
        /\ Q \in Nat /\ Q + W(q) <= n /\ W(q) \in Nat /\ z[i][2] = e + Q
        /\ d \in Nat /\ e \in Nat
    BY <1>2, <1>3, <2>2
  <2> HIDE DEF B, Q
  <2> QED
    BY <2>2, <2>3
<1>9. ASSUME NEW r \in 0..(m - 1), NEW c \in 0..(n - 1)
      PROVE  \E i \in 0..(N - 1) : z[i][1] = r /\ z[i][2] = c
  <2> DEFINE b == r \div t[1]
             d == r % t[1]
             q == c \div t[2]
             e == c % t[2]
  <2>1. r \in Nat /\ r < m /\ c \in Nat /\ c < n
    OBVIOUS
  <2>2. b \in Nat /\ d \in 0..(t[1] - 1) /\ r = b * t[1] + d
    BY <2>1, Division
  <2>3. q \in Nat /\ e \in 0..(t[2] - 1) /\ c = q * t[2] + e
    BY <2>1, Division
  <2>4. b * t[1] < m /\ q * t[2] < n /\ d \in Nat /\ e \in Nat
    <3> HIDE DEF b, d, q, e
    <3> QED
      BY <2>1, <2>2, <2>3
  <2>5. d < H(b) /\ e < W(q)
    BY <2>1, <2>2, <2>3, <2>4, TileBlocks DEF H, W
  <2> HIDE DEF b, d, q, e
  <2> DEFINE h == H(b)
             w == W(q)
  <2>6. d \in 0..(h - 1) /\ e \in 0..(w - 1) /\ h \in Nat \ {0} /\ w \in Nat \ {0}
    BY <1>2, <1>3, <2>2, <2>3, <2>4, <2>5
  <2> HIDE DEF h, w
  <2>7. OnDiagonal(h, w, d, e)
    BY <2>6, DiagonalHolds
  <2>8. PICK k \in 0..(h * w - 1) : DiagonalAt(h, w, k) = <<d, e>>
    BY <2>7 DEF OnDiagonal
  <2>9. PICK i \in Nat : InL2Tile(m, n, t, i, b, q, k)
    BY <2>2, <2>3, <2>4, <2>8, L2TileBlock DEF h, w, H, W
  <2>10. d + b * t[1] = r /\ e + q * t[2] = c
    BY <2>2, <2>3, <2>4
  <2> QED
    BY <1>1, <1>4, <2>8, <2>9, <2>10 DEF h, w
<1>10. ASSUME NEW i \in 0..(N - 1), NEW j \in 0..(N - 1), z[i][1] = z[j][1], z[i][2] = z[j][2]
      PROVE  i = j
  <2>1. PICK b, q, k, d, e : PlacedIn(m, n, t, i, b, q, k, d, e)
    BY <1>7
  <2>2. PICK c, p, l, f, g : PlacedIn(m, n, t, j, c, p, l, f, g)
    BY <1>7
  <2>3. /\ InL2Tile(m, n, t, i, b, q, k)
        /\ b \in Nat /\ b * t[1] < m /\ q \in Nat /\ q * t[2] < n
        /\ k \in 0..(H(b) * W(q) - 1)
        /\ d \in 0..(t[1] - 1) /\ e \in 0..(t[2] - 1)
        /\ DiagonalAt(H(b), W(q), k) = <<d, e>>
        /\ z[i][1] = d + b * t[1] /\ z[i][2] = e + q * t[2]
    BY <1>1, <2>1 DEF PlacedIn, H, W
  <2>4. /\ InL2Tile(m, n, t, j, c, p, l)
        /\ c \in Nat /\ c * t[1] < m /\ p \in Nat /\ p * t[2] < n
        /\ l \in 0..(H(c) * W(p) - 1)
        /\ f \in 0..(t[1] - 1) /\ g \in 0..(t[2] - 1)
        /\ DiagonalAt(H(c), W(p), l) = <<f, g>>
        /\ z[j][1] = f + c * t[1] /\ z[j][2] = g + p * t[2]
    BY <1>1, <2>2 DEF PlacedIn, H, W
  <2>5. b = c /\ d = f
    <3> DEFINE a == t[1]
    <3>1. /\ a \in Nat \ {0} /\ b \in Nat /\ c \in Nat
          /\ d \in 0..(a - 1) /\ f \in 0..(a - 1) /\ d + b * a = f + c * a
      BY <1>10, <2>3, <2>4
    <3> HIDE DEF a
    <3> QED
      BY <3>1, BandPlace
  <2>6. q = p /\ e = g
    <3> DEFINE a == t[2]
    <3>1. /\ a \in Nat \ {0} /\ q \in Nat /\ p \in Nat
          /\ e \in 0..(a - 1) /\ g \in 0..(a - 1) /\ e + q * a = g + p * a
      BY <1>10, <2>3, <2>4
    <3> HIDE DEF a
    <3> QED
      BY <3>1, BandPlace
  <2>7. k = l
    <3> DEFINE h == H(b)
               w == W(q)
    <3>1. h \in Nat \ {0} /\ w \in Nat \ {0}
      BY <1>2, <1>3, <2>3
    <3>2. k \in 0..(h * w - 1) /\ l \in 0..(h * w - 1) /\ DiagonalAt(h, w, k) = DiagonalAt(h, w, l)
      BY <2>3, <2>4, <2>5, <2>6
    <3> HIDE DEF h, w
    <3> QED
      BY <3>1, <3>2, DiagonalOnce
  <2>8. /\ InL2Tile(m, n, t, i, b, q, k) /\ InL2Tile(m, n, t, j, b, q, k)
    BY <2>3, <2>4, <2>5, <2>6, <2>7
  <2>9. PICK x \in Nat : BandOf(m, n, t[1], i, b, x) /\ BandOf(n, RowsAt(m, t[1], b), t[2], x, q, k)
    BY <2>8 DEF InL2Tile
  <2>10. PICK y \in Nat : BandOf(m, n, t[1], j, b, y) /\ BandOf(n, RowsAt(m, t[1], b), t[2], y, q, k)
    BY <2>8 DEF InL2Tile
  <2> QED
    BY <2>9, <2>10 DEF BandOf
<1> QED
  BY <1>8, <1>9, <1>10 DEF z, Passes

(* The values of f on 0..n follow from the one before by the steps G[i].   *)
Stepwise(f, n, base, G) == \A i \in 0..n : f[i] = IF i = 0 THEN base ELSE G[i][f[i - 1]]

(* There is such a function.                                               *)
LEMMA StepsExist ==
    ASSUME NEW V, NEW n \in Nat, NEW base \in V, NEW G \in [1..n -> [V -> V]]
    PROVE  \E f \in [0..n -> V] : Stepwise(f, n, base, G)
<1> DEFINE F == [i \in 2..(n + 1) |-> G[i - 1]]
           g0(g) == [i \in 0..n |-> g[i + 1]]
<1>1. n + 1 \in Nat /\ F \in [2..(n + 1) -> [V -> V]]
  OBVIOUS
<1>2. \A i \in 1..n : F[i + 1] = G[i]
  OBVIOUS
<1> HIDE DEF F
<1>3. PICK g \in [1..(n + 1) -> V] : Follows(g, n + 1, base, F)
  BY <1>1, Recursion
<1>4. g0(g) \in [0..n -> V]
  BY <1>3
<1>5. ASSUME NEW i \in 0..n
      PROVE  g0(g)[i] = IF i = 0 THEN base ELSE G[i][g0(g)[i - 1]]
  <2>1. g0(g)[i] = g[i + 1]
    OBVIOUS
  <2>2. g[i + 1] = IF i + 1 = 1 THEN base ELSE F[i + 1][g[i + 1 - 1]]
    BY <1>3 DEF Follows
  <2>3. CASE i = 0
    BY <2>1, <2>2, <2>3
  <2>4. CASE i # 0
    <3>1. i - 1 \in 0..n /\ i \in 1..n /\ i + 1 # 1 /\ i + 1 - 1 = i /\ (i - 1) + 1 = i
      BY <2>4
    <3>2. g0(g)[i - 1] = g[i]
      BY <3>1
    <3> HIDE DEF g0
    <3> QED
      BY <1>2, <2>1, <2>2, <2>4, <3>1, <3>2
  <2> QED
    BY <2>3, <2>4
<1> HIDE DEF g0
<1> QED
  BY <1>4, <1>5 DEF Stepwise

(* The sizes from one down to another that are tried for an L2 tile.       *)
Downward(from, to) == IF from < to THEN <<>> ELSE [x \in 1..(from - to + 1) |-> from + 1 - x]

(* They are sizes.                                                         *)
LEMMA DownwardIs ==
    ASSUME NEW from \in Int, NEW to \in Nat \ {0}
    PROVE  Downward(from, to) \in Seq(Nat \ {0})
<1> DEFINE k == from - to + 1
<1>1. ASSUME NEW x \in 1..k
      PROVE  from + 1 - x \in Nat \ {0}
  OBVIOUS
<1>2. CASE from < to
  BY <1>2 DEF Downward
<1>3. CASE ~(from < to)
  <2>1. k \in Nat
    BY <1>3
  <2> HIDE DEF k
  <2> QED
    BY <1>1, <1>3, <2>1 DEF Downward
<1> QED
  BY <1>2, <1>3

(* The pairs of such sizes, those of the first outermost.                  *)
L2Tiles == (Nat \ {0}) \X (Nat \ {0})

(* They are sizes of L2 tiles.                                             *)
LEMMA TilesTried ==
    ASSUME NEW A \in Seq(Nat \ {0}), NEW B \in Seq(Nat \ {0}), NEW wide \in BOOLEAN
    PROVE  FlattenSeq([x \in DOMAIN A |-> [y \in DOMAIN B |->
             LET i == A[x]  j == B[y] IN IF wide THEN <<j, i>> ELSE <<i, j>>]]) \in Seq(L2Tiles)
<1> DEFINE row(x) == [y \in DOMAIN B |-> IF wide THEN <<B[y], A[x]>> ELSE <<A[x], B[y]>>]
           seqs == [x \in DOMAIN A |-> row(x)]
<1>1. DOMAIN B = 1..Len(B) /\ Len(B) \in Nat /\ DOMAIN A = 1..Len(A) /\ Len(A) \in Nat
  OBVIOUS
<1>2. ASSUME NEW x \in DOMAIN A
      PROVE  row(x) \in Seq(L2Tiles)
  <2> HIDE DEF L2Tiles
  <2>1. row(x) \in [1..Len(B) -> L2Tiles]
    BY <1>1 DEF L2Tiles
  <2> HIDE DEF row
  <2> QED
    BY <1>1, <2>1
<1> HIDE DEF row
<1>3. seqs \in [1..Len(A) -> Seq(L2Tiles)]
  BY <1>1, <1>2
<1>4. seqs \in Seq(Seq(L2Tiles))
  <2> HIDE DEF seqs
  <2> QED
    BY <1>1, <1>3
<1>5. FlattenSeq(seqs) \in Seq(L2Tiles)
  <2> HIDE DEF seqs, L2Tiles
  <2> QED
    BY <1>4, Flattened
<1> QED
  BY <1>5 DEF row

(* An L2 tile has rows and columns.                                        *)
LEMMA L2TileTailIs ==
    ASSUME NEW s \in AnyProblem
    PROVE  L2TileTail(s) \in L2Tiles
<1> DEFINE m == Loops(s)[2]
           n == Loops(s)[3]
           wide == s.tile[3] > s.tile[2]
           Low(a) == IF s.cores > a THEN a ELSE s.cores
           maxi == IF wide THEN Low(n) ELSE Low(m)
           maxj == IF wide THEN Low(m) ELSE Low(n)
           inner == IF wide THEN MIN_SPLIT_TILE_NUM ELSE MAX_SPLIT_TILE_NUM
           A == Downward(maxi, MIN_SPLIT_TILE_NUM)
           B == Downward(maxj, inner)
           tried == FlattenSeq([x \in DOMAIN A |-> [y \in DOMAIN B |->
                      LET i == A[x]  j == B[y] IN IF wide THEN <<j, i>> ELSE <<i, j>>]])
           Conflict(t) == <<CeilDiv(s.cores, TailNum(m, t[1])), CeilDiv(s.cores, TailNum(n, t[2]))>>
           Fits(t) == TotalSize(t[1] * s.tile[2], t[2] * s.tile[3], s.shape[4]) <= L2_TILE_THRESHOLD
           Better(so, t) ==
             IF Fits(t) /\ (so = <<>> \/ (/\ Conflict(so)[1] >= Conflict(t)[1]
                                          /\ Conflict(so)[2] >= Conflict(t)[2]))
             THEN t ELSE so
           P(f) == f = [i \in 0..Len(tried) |-> IF i = 0 THEN <<>> ELSE Better(f[i - 1], tried[i])]
           best == CHOOSE f : P(f)
           found == best[Len(tried)]
<1>1. L2TileTail(s) = IF found = <<>> THEN <<m, n>> ELSE found
  BY DEF L2TileTail, Downward
<1>2. m \in Nat \ {0} /\ n \in Nat \ {0} /\ s.cores \in Nat \ {0}
  BY ProblemFacts
<1>3. maxi \in Nat \ {0} /\ maxj \in Nat \ {0} /\ wide \in BOOLEAN
  BY <1>2
<1>4. inner \in Nat \ {0} /\ MIN_SPLIT_TILE_NUM \in Nat \ {0}
  BY DEF MIN_SPLIT_TILE_NUM, MAX_SPLIT_TILE_NUM
<1> HIDE DEF wide, maxi, maxj, inner
<1>5. A \in Seq(Nat \ {0}) /\ B \in Seq(Nat \ {0})
  BY <1>3, <1>4, DownwardIs
<1> HIDE DEF A, B
<1>6. tried \in Seq(L2Tiles)
  BY <1>3, <1>5, TilesTried
<1> HIDE DEF tried, Better, m, n
<1> DEFINE V == {<<>>} \cup L2Tiles
           N == Len(tried)
           G == [i \in 1..N |-> [so \in V |-> Better(so, tried[i])]]
<1>7. N \in Nat /\ \A i \in 1..N : tried[i] \in L2Tiles
  BY <1>6
<1>8. ASSUME NEW i \in 1..N, NEW so \in V
      PROVE  Better(so, tried[i]) \in V
  <2> HIDE DEF L2Tiles
  <2> QED
    BY <1>7 DEF Better
<1> HIDE DEF N
<1>9. <<>> \in V
  OBVIOUS
<1> HIDE DEF V
<1>10. /\ G \in [1..N -> [V -> V]]
       /\ \A i \in 1..N, so \in V : G[i][so] = Better(so, tried[i])
  BY <1>8
<1> HIDE DEF G
<1>11. \E f \in [0..N -> V] : Stepwise(f, N, <<>>, G)
  BY <1>7, <1>9, <1>10, StepsExist
<1>12. PICK f \in [0..N -> V] : \A i \in 0..N : f[i] = IF i = 0 THEN <<>> ELSE G[i][f[i - 1]]
  BY <1>11 DEF Stepwise
<1>13. ASSUME NEW g, \A i \in 0..N : g[i] \in V,
              \A i \in 0..N : g[i] = IF i = 0 THEN <<>> ELSE G[i][g[i - 1]]
       PROVE  \A i \in 0..N : g[i] = IF i = 0 THEN <<>> ELSE Better(g[i - 1], tried[i])
  <2>1. ASSUME NEW i \in 0..N, i # 0
        PROVE  g[i] = Better(g[i - 1], tried[i])
    BY <1>7, <1>10, <1>13, <2>1
  <2> QED
    BY <1>13, <2>1
<1>14. P(best)
  BY <1>12, <1>13 DEF N
<1> HIDE DEF best
<1>15. \A i \in 0..N : best[i] = IF i = 0 THEN <<>> ELSE Better(best[i - 1], tried[i])
  BY <1>14 DEF N
<1> HIDE DEF P
<1>16. best[N] \in V
  <2> DEFINE T == {i \in 0..N : best[i] \notin V}
  <2> SUFFICES ASSUME T # {}
               PROVE  FALSE
    BY <1>7
  <2>1. PICK i \in T : \A j \in T : i <= j
    <3>1. T \subseteq Nat
      OBVIOUS
    <3> QED
      BY <3>1, Least
  <2>2. i \in 0..N /\ best[i] \notin V /\ i # 0
    BY <1>9, <1>15
  <2>3. i - 1 \in 0..N /\ i \in 1..N
    BY <1>7, <2>2
  <2>4. best[i - 1] \in V
    BY <1>7, <2>1, <2>2, <2>3
  <2> QED
    BY <1>8, <1>15, <2>2, <2>3, <2>4
<1>17. found \in V
  BY <1>16 DEF N
<1> HIDE DEF found
<1> QED
  BY <1>1, <1>2, <1>17 DEF V, L2Tiles, m, n

(* So has the L2 tile that the swizzle chooses, from the tails or for its  *)
(* own sake.                                                               *)
LEMMA L2TileIs ==
    ASSUME NEW s \in AnyProblem
    PROVE  L2Tile(s)[1] \in Nat \ {0} /\ L2Tile(s)[2] \in Nat \ {0}
<1> QED
  BY L2TileTailIs, ProblemFacts DEF L2Tiles, L2Tile

(* MisplacedCoord finds the tile of a task in its L2 tile.                 *)
LEMMA MisplacedCoordIs ==
    ASSUME NEW s \in AnyProblem, NEW taskIdx, NEW i \in 0..(CoreLoops(s) - 1), taskIdx % CoreLoops(s) = i
    PROVE  MisplacedCoord(s, taskIdx) = Misplaced(Loops(s)[2], Loops(s)[3], L2Tile(s), i)
<1> DEFINE m == Loops(s)[2]
           n == Loops(s)[3]
           t == L2Tile(s)
           t1 == t[1]
           t2 == t[2]
           b == i \div (t1 * n)
           j == i % (t1 * n)
           h == RowsAt(m, t1, b)
           rows == IF b = CeilDiv(m, t1) - 1 THEN TailNum(m, t1) ELSE t1
           q1 == j \div (rows * t2)
           q == j \div (t2 * h)
           w == RowsAt(n, t2, q)
           cols == IF q1 = CeilDiv(n, t2) - 1 THEN TailNum(n, t2) ELSE t2
           new == i - (b * t1 * n + q1 * t2 * rows)
           k == j % (t2 * h)
<1>1. MisplacedCoord(s, taskIdx) = <<(new % rows) + b * t1, ((new + new \div Lcm(rows, cols)) % cols) + q1 * t2>>
  BY DEF MisplacedCoord, CoreLoops
<1>2. Misplaced(m, n, t, i) = <<DiagonalAt(h, w, k)[1] + b * t1, DiagonalAt(h, w, k)[2] + q * t2>>
  BY DEF Misplaced
<1>3. m \in Nat \ {0} /\ n \in Nat \ {0}
  BY ProblemFacts
<1>4. t1 \in Nat \ {0} /\ t2 \in Nat \ {0}
  BY L2TileIs
<1> DEFINE N == CoreLoops(s)
<1>5. N = m * n /\ i \in 0..(N - 1)
  BY DEF CoreLoops
<1> HIDE DEF N, m, n, t1, t2
<1>6. BandOf(m, n, t1, i, b, j)
  BY <1>3, <1>4, <1>5, BandIs
<1> HIDE DEF b, j
<1>7. b \in Nat /\ b * t1 < m /\ j \in Nat /\ j < h * n /\ i = b * (t1 * n) + j
  BY <1>6 DEF BandOf
<1>8. rows = h
  BY <1>3, <1>4, <1>7, TailIs
<1>9. h \in Nat \ {0} /\ h * t2 = t2 * h
  <2>1. h \in Nat \ {0}
    BY <1>3, <1>4, <1>7, L2TileInside
  <2> HIDE DEF h
  <2> QED
    BY <1>4, <2>1
<1> HIDE DEF rows, h
<1>10. q1 = q
  BY <1>8, <1>9
<1> DEFINE A == n * h
<1>11. A \in Nat /\ A = n * h /\ A = h * n
  BY <1>3, <1>9
<1>12. j \in 0..(A - 1)
  <2> HIDE DEF A
  <2> QED
    BY <1>7, <1>11
<1> HIDE DEF A
<1>13. BandOf(n, h, t2, j, q, k)
  BY <1>3, <1>4, <1>9, <1>11, <1>12, BandIs
<1> HIDE DEF k, q
<1>14. q \in Nat /\ k \in Nat /\ j = q * (t2 * h) + k
  BY <1>13 DEF BandOf
<1>15. cols = w
  BY <1>3, <1>4, <1>10, <1>14, TailIs
<1> HIDE DEF cols, w, q1
<1>16. new = k
  <2>1. new = i - (b * t1 * n + q * t2 * h)
    BY <1>8, <1>10
  <2> HIDE DEF new
  <2> QED
    BY <1>3, <1>4, <1>7, <1>9, <1>14, <2>1
<1> HIDE DEF new
<1> QED
  BY <1>1, <1>2, <1>8, <1>10, <1>15, <1>16 DEF m, n, DiagonalAt

(* Its order.                                                              *)
MisplacedOrder(s) == [i \in 0..(CoreLoops(s) - 1) |-> Misplaced(Loops(s)[2], Loops(s)[3], L2Tile(s), i)]

(* It passes every row and column of tiles once.                           *)
LEMMA MisplacedOrderPasses ==
    ASSUME NEW s \in AnyProblem
    PROVE  Passes(Loops(s)[2], Loops(s)[3], CoreLoops(s), MisplacedOrder(s))
<1> DEFINE m == Loops(s)[2]
           n == Loops(s)[3]
           t == L2Tile(s)
           N == CoreLoops(s)
<1>1. m \in Nat \ {0} /\ n \in Nat \ {0}
  BY ProblemFacts
<1>2. t[1] \in Nat \ {0} /\ t[2] \in Nat \ {0}
  BY L2TileIs
<1>3. N = m * n
  BY DEF CoreLoops
<1>4. MisplacedOrder(s) = [i \in 0..(N - 1) |-> Misplaced(m, n, t, i)]
  BY DEF MisplacedOrder
<1> HIDE DEF m, n, t, N
<1>5. Passes(m, n, N, [i \in 0..(N - 1) |-> Misplaced(m, n, t, i)])
  BY <1>1, <1>2, <1>3, MisplacedPasses
<1> QED
  BY <1>4, <1>5 DEF m, n, N

(* The L2 diagonal cuts a problem.                                         *)
LEMMA MisplacedCuts ==
    ASSUME NEW s \in AnyProblem
    PROVE  LET n == s.shape[1] * CoreLoops(s)
           IN n \in Nat /\ Cuts(s.shape, 1..n, [t \in 1..n |-> MisplacedBlock(s, t - 1)])
<1> DEFINE a == s.shape[1]
           b == CoreLoops(s)
           n == a * b
           T == 1..n
           D == 0..(s.shape[4] - 1)
           q == [t \in T |-> (t - 1) \div b]
           p == [t \in T |-> (t - 1) % b]
           K == [t \in T |-> D]
           B == [t \in T |-> MisplacedBlock(s, t - 1)]
<1>1. a \in Nat \ {0} /\ b \in Nat \ {0}
  BY ProblemFacts
<1> HIDE DEF a, b
<1>2. /\ n \in Nat \ {0}
      /\ \A t \in 1..n :
           /\ (t - 1) \div b \in 0..(a - 1) /\ (t - 1) % b \in 0..(b - 1)
           /\ t = ((t - 1) \div b) * b + ((t - 1) % b) + 1
      /\ \A x \in 0..(a - 1), m \in 0..(b - 1) :
           /\ x * b + m + 1 \in 1..n
           /\ ((x * b + m + 1) - 1) \div b = x /\ ((x * b + m + 1) - 1) % b = m
  BY <1>1, TaskPair
<1> HIDE DEF n
<1>3. \A t \in T : /\ q[t] = (t - 1) \div b /\ p[t] = (t - 1) % b /\ K[t] = D
                   /\ B[t] = MisplacedBlock(s, t - 1)
  OBVIOUS
<1>4. B = BlocksOf(s, T, MisplacedOrder(s), q, p, K)
  <2>1. ASSUME NEW t \in T
        PROVE  B[t] = BlockOf(s, MisplacedOrder(s), q[t], p[t], K[t])
    <3> DEFINE batch == (t - 1) \div b
               i == (t - 1) % b
               c == MisplacedOrder(s)[i]
    <3>1. i \in 0..(CoreLoops(s) - 1)
      BY <1>2 DEF b
    <3>2. c = Misplaced(Loops(s)[2], Loops(s)[3], L2Tile(s), i)
      BY <3>1 DEF MisplacedOrder
    <3>3. MisplacedCoord(s, t - 1) = c
      <4>1. i = (t - 1) % CoreLoops(s)
        BY DEF b
      <4> HIDE DEF i, c
      <4> QED
        BY <3>1, <3>2, <4>1, MisplacedCoordIs
    <3>4. q[t] = batch /\ p[t] = i /\ K[t] = 0..(s.shape[4] - 1)
      BY <1>3
    <3> HIDE DEF batch, i, c, B, q, p, K, T
    <3> QED
      BY <1>3, <3>3, <3>4 DEF MisplacedBlock, b, Along, BlockOf, c
  <2> QED
    BY <2>1 DEF BlocksOf
<1> HIDE DEF q, p, K, B, D
<1>5. Dealt(s, T, q, p, K)
  <2>1. ASSUME NEW t \in T
        PROVE  q[t] \in 0..(a - 1) /\ p[t] \in 0..(b - 1) /\ K[t] \subseteq D
    BY <1>2, <1>3
  <2>2. ASSUME NEW x \in 0..(a - 1), NEW i \in 0..(b - 1), NEW k \in D
        PROVE  \E t \in T : q[t] = x /\ p[t] = i /\ k \in K[t]
    BY <1>2, <1>3
  <2>3. ASSUME NEW t \in T, NEW u \in T, q[t] = q[u], p[t] = p[u]
        PROVE  t = u
    BY <1>2, <1>3, <2>3
  <2> QED
    BY <2>1, <2>2, <2>3 DEF Dealt, a, b, D
<1> QED
  BY <1>2, <1>4, <1>5, MisplacedOrderPasses, DealtCuts DEF n, B, a, b

-----------------------------------------------------------------------------
(* The swizzle for the full load of L1.                                    *)

(* Dealt out one by one, k get as many as there are in their runs.         *)
LEMMA OneByOne ==
    ASSUME NEW n \in Nat, NEW k \in Nat \ {0}, NEW v \in 0..(k - 1), NEW m \in Nat
    PROVE  m * k + v < n <=> m < RunLength(n, k, v)
<1> DEFINE q == n \div k
           r == n % k
<1>1. q \in Nat /\ r \in 0..(k - 1) /\ n = q * k + r
  BY Division
<1> HIDE DEF q, r
<1> DEFINE M == m * k
           Q == q * k
<1>2. /\ M \in Nat /\ Q \in Nat /\ n = Q + r
      /\ (m + 1 <= q => M + k <= Q) /\ (q + 1 <= m => Q + k <= M) /\ (m = q => M = Q)
  BY <1>1, MultiplyMono
<1> HIDE DEF M, Q
<1>3. M + v < n <=> m < q + (IF v < r THEN 1 ELSE 0)
  <2>1. CASE m + 1 <= q
    BY <1>1, <1>2, <2>1
  <2>2. CASE q + 1 <= m
    BY <1>1, <1>2, <2>2
  <2>3. CASE m = q
    BY <1>1, <1>2, <2>3
  <2> QED
    BY <1>1, <2>1, <2>2, <2>3
<1> QED
  BY <1>3 DEF M, RunLength

(* So the x-th is dealt the place in the run of its core.                  *)
Dealing(n, k, x) == RunStart(n, k, x % k) + x \div k

(* It is in the run of the core that the task is for.                      *)
LEMMA DealingIs ==
    ASSUME NEW n \in Nat, NEW k \in Nat \ {0}, NEW x \in 0..(n - 1)
    PROVE  /\ Dealing(n, k, x) \in 0..(n - 1)
           /\ InRun(n, k, x % k, Dealing(n, k, x))
<1> DEFINE v == x % k
           m == x \div k
<1>1. v \in 0..(k - 1) /\ m \in Nat /\ x = m * k + v
  <2>1. x \in Nat
    OBVIOUS
  <2> QED
    BY <2>1, Division
<1> HIDE DEF v, m
<1>2. m < RunLength(n, k, v)
  BY <1>1, OneByOne
<1>3. RunStart(n, k, v) \in Nat /\ RunLength(n, k, v) \in Nat
  BY <1>1, RunsFollow
<1>4. RunStart(n, k, v) + RunLength(n, k, v) <= n
  BY <1>1, RunEnds
<1> QED
  BY <1>1, <1>2, <1>3, <1>4 DEF InRun, v, Dealing

(* Every place is dealt out.                                               *)
LEMMA DealingFinds ==
    ASSUME NEW n \in Nat, NEW k \in Nat \ {0}, NEW y \in 0..(n - 1)
    PROVE  \E x \in 0..(n - 1) : Dealing(n, k, x) = y
<1>1. PICK v \in 0..(k - 1) : InRun(n, k, v, y)
  BY SomeRun
<1>2. v \in Nat /\ RunStart(n, k, v) \in Nat /\ RunLength(n, k, v) \in Nat
  BY RunsFollow
<1> DEFINE m == y - RunStart(n, k, v)
           x == m * k + v
<1>3. m \in Nat /\ m < RunLength(n, k, v) /\ y = RunStart(n, k, v) + m
  BY <1>1, <1>2 DEF InRun
<1> HIDE DEF m
<1>4. x < n
  BY <1>3, OneByOne
<1>5. x \in Nat /\ x \div k = m /\ x % k = v
  <2>1. m \in Nat /\ v \in Nat /\ m * k \in Nat
    BY <1>2, <1>3
  <2>2. (m * k + v) \div k = m /\ (m * k + v) % k = v
    BY <2>1, Quotient
  <2> QED
    BY <2>1, <2>2
<1> HIDE DEF x
<1>6. x \in 0..(n - 1) /\ Dealing(n, k, x) = y
  BY <1>3, <1>4, <1>5 DEF Dealing
<1> QED
  BY <1>6

(* And none is dealt out twice.                                            *)
LEMMA DealingOnce ==
    ASSUME NEW n \in Nat, NEW k \in Nat \ {0}, NEW x \in 0..(n - 1), NEW u \in 0..(n - 1),
           Dealing(n, k, x) = Dealing(n, k, u)
    PROVE  x = u
<1>1. /\ x \in Nat /\ u \in Nat
      /\ InRun(n, k, x % k, Dealing(n, k, x)) /\ InRun(n, k, u % k, Dealing(n, k, u))
      /\ Dealing(n, k, x) \in 0..(n - 1)
  BY DealingIs
<1>2. /\ x % k \in 0..(k - 1) /\ x \div k \in Nat /\ x = (x \div k) * k + (x % k)
      /\ u % k \in 0..(k - 1) /\ u \div k \in Nat /\ u = (u \div k) * k + (u % k)
  BY <1>1, Division
<1> DEFINE v == x % k
           w == u % k
           d == Dealing(n, k, x)
           a == x \div k
           b == u \div k
<1>3. v \in 0..(k - 1) /\ w \in 0..(k - 1) /\ d \in Int /\ InRun(n, k, v, d) /\ InRun(n, k, w, d)
  BY <1>1, <1>2
<1>4. d = RunStart(n, k, v) + a /\ d = RunStart(n, k, w) + b
  BY DEF Dealing
<1>5. a \in Nat /\ b \in Nat /\ x = a * k + v /\ u = b * k + w
  BY <1>2
<1> HIDE DEF v, w, d, a, b
<1>6. RunStart(n, k, v) \in Nat
  BY <1>3, RunsFollow
<1> QED
  BY <1>3, <1>4, <1>5, <1>6, OneRun

(* Which is what the swizzle does for the block of a task.                 *)
LEMMA InnerIdxIs ==
    ASSUME NEW s \in AnyProblem, NEW i \in 0..(CoreLoops(s) - 1)
    PROVE  /\ InnerIdx(s, i) = Dealing(CoreLoops(s), s.cores, i)
           /\ InnerIdx(s, i) \in 0..(CoreLoops(s) - 1)
<1> DEFINE n == CoreLoops(s)
           k == s.cores
           v == i % k
           Q == n \div k
           R == n % k
           m == i \div k
<1>1. n \in Nat \ {0} /\ k \in Nat \ {0}
  BY ProblemFacts
<1>2. i \in 0..(n - 1)
  OBVIOUS
<1>3. InnerIdx(s, i) = v * Q + m + (IF v < R THEN v ELSE R)
  BY DEF InnerIdx
<1>4. Dealing(n, k, i) = v * Q + (IF v < R THEN v ELSE R) + m
  BY DEF Dealing, RunStart
<1> HIDE DEF n, k
<1>5. v \in Nat /\ m \in Nat /\ Q \in Nat /\ R \in Nat
  <2>1. i \in Nat /\ n \in Nat
    BY <1>1, <1>2
  <2>2. ASSUME NEW a \in Nat, NEW b \in Nat \ {0}
        PROVE  a \div b \in Nat /\ a % b \in Nat
    <3>1. a \div b \in Nat /\ a % b \in 0..(b - 1)
      BY Division
    <3> QED
      BY <3>1
  <2> QED
    BY <1>1, <2>1, <2>2, Zenon
<1> HIDE DEF v, Q, R, m
<1>6. v * Q \in Nat
  BY <1>5
<1>7. InnerIdx(s, i) = Dealing(n, k, i)
  BY <1>3, <1>4, <1>5, <1>6
<1> QED
  BY <1>1, <1>2, <1>7, DealingIs DEF n, k

(* Whole depth, runs of blocks for every core.                             *)
LEMMA L1FullLoadCuts ==
    ASSUME NEW s \in AnyProblem, s.shape[1] = 1
    PROVE  LET n == CoreLoops(s)
           IN n \in Nat /\ Cuts(s.shape, 1..n, [t \in 1..n |-> L1FullLoadBlock(s, t - 1)])
<1> DEFINE n == CoreLoops(s)
           k == s.cores
           T == 1..n
           D == 0..(s.shape[4] - 1)
           q == [t \in T |-> 0]
           p == [t \in T |-> Dealing(n, k, t - 1)]
           K == [t \in T |-> D]
           B == [t \in T |-> L1FullLoadBlock(s, t - 1)]
<1>1. n \in Nat \ {0} /\ k \in Nat \ {0}
  BY ProblemFacts
<1>2. \A t \in T : InnerIdx(s, t - 1) = Dealing(n, k, t - 1)
  BY <1>1, InnerIdxIs
<1>3. \A t \in T : /\ q[t] = 0 /\ p[t] = Dealing(n, k, t - 1) /\ K[t] = D
                   /\ B[t] = L1FullLoadBlock(s, t - 1)
  OBVIOUS
<1> HIDE DEF n, k
<1>4. ASSUME NEW t \in T
      PROVE  t - 1 \in 0..(n - 1) /\ Dealing(n, k, t - 1) \in 0..(n - 1)
  <2>1. t - 1 \in 0..(n - 1)
    BY <1>1
  <2> HIDE DEF q, p, K, B, D, T
  <2> QED
    BY <1>1, <2>1, DealingIs
<1>5. B = BlocksOf(s, T, Order(s), q, p, K)
  <2>1. ASSUME NEW t \in T
        PROVE  B[t] = BlockOf(s, Order(s), q[t], p[t], K[t])
    <3> DEFINE i == Dealing(n, k, t - 1)
    <3>1. i \in 0..(CoreLoops(s) - 1)
      BY <1>4 DEF n
    <3>2. q[t] = 0 /\ p[t] = i /\ K[t] = 0..(s.shape[4] - 1)
      BY <1>3
    <3> HIDE DEF i, B, q, p, K, T
    <3> QED
      BY <1>2, <1>3, <3>1, <3>2, AlongOrder DEF L1FullLoadBlock
  <2> QED
    BY <2>1 DEF BlocksOf
<1> HIDE DEF q, p, K, B, D
<1>6. Dealt(s, T, q, p, K)
  <2>1. ASSUME NEW t \in T
        PROVE  q[t] \in 0..(s.shape[1] - 1) /\ p[t] \in 0..(n - 1) /\ K[t] \subseteq D
    BY <1>3, <1>4
  <2>2. ASSUME NEW x \in 0..(s.shape[1] - 1), NEW i \in 0..(n - 1), NEW d \in D
        PROVE  \E t \in T : q[t] = x /\ p[t] = i /\ d \in K[t]
    <3>1. PICK y \in 0..(n - 1) : Dealing(n, k, y) = i
      BY <1>1, DealingFinds
    <3> QED
      BY <1>1, <1>3, <3>1
  <2>3. ASSUME NEW t \in T, NEW u \in T, p[t] = p[u]
        PROVE  t = u
    <3> DEFINE x == t - 1
               y == u - 1
    <3>1. Dealing(n, k, x) = Dealing(n, k, y) /\ x \in 0..(n - 1) /\ y \in 0..(n - 1)
      BY <1>3, <1>4, <2>3
    <3> HIDE DEF x, y, T
    <3>2. x = y
      BY <1>1, <3>1, DealingOnce
    <3> QED
      BY <1>1, <3>2 DEF x, y, T
  <2> QED
    BY <2>1, <2>2, <2>3 DEF Dealt, n, D
<1> QED
  BY <1>1, <1>5, <1>6, OrderPasses, DealtCuts DEF n, B

-----------------------------------------------------------------------------
(* Splitting K into slices.                                                *)

(* Multiples that are not greater. *)
LEMMA QuotientAtLeast ==
    ASSUME NEW x \in Nat, NEW k \in Nat \ {0}, NEW f \in Nat
    PROVE  f * k <= x <=> f <= x \div k
<1> DEFINE q == x \div k
<1>1. q \in Nat /\ x % k \in 0..(k - 1) /\ x = q * k + (x % k)
  BY Division
<1> DEFINE m == x % k
<1> HIDE DEF m
<1> HIDE DEF q
<1>2. q * k <= x /\ q * k \in Nat /\ f * k \in Nat
  <2> QED
    BY <1>1 DEF m
<1> QED
  BY <1>1, <1>2, DivisionMono, MultiplyMono DEF q

(* With no more runs than things no run is empty.                          *)
LEMMA RunsNotEmpty ==
    ASSUME NEW n \in Nat, NEW k \in Nat \ {0}, k <= n, NEW i \in 0..(k - 1)
    PROVE  /\ RunStart(n, k, i) \in Nat /\ RunLength(n, k, i) \in Nat \ {0}
           /\ RunStart(n, k, i) + RunLength(n, k, i) <= n
           /\ i = k - 1 => RunStart(n, k, i) + RunLength(n, k, i) = n
           /\ i # k - 1 => RunStart(n, k, i) + RunLength(n, k, i) + 1 <= n
<1> DEFINE q == n \div k
           r == n % k
<1>1. q \in Nat /\ r \in 0..(k - 1)
  BY Division
<1>2. 1 <= q
  <2> QED
    BY DivisionMono
<1> HIDE DEF q, r
<1>3. ASSUME NEW j \in 0..(k - 1)
      PROVE  RunStart(n, k, j) \in Nat /\ RunLength(n, k, j) \in Nat \ {0}
  <2>1. RunLength(n, k, j) = q + (IF j < r THEN 1 ELSE 0)
    BY DEF RunLength, q, r
  <2> QED
    BY <1>1, <1>2, <2>1, RunsFollow
<1>4. ASSUME i = k - 1
      PROVE  RunStart(n, k, i) + RunLength(n, k, i) = n
  <2>1. i \in Nat /\ i + 1 = k
    BY <1>4
  <2>2. RunStart(n, k, i) + RunLength(n, k, i) = RunStart(n, k, i + 1)
    BY <2>1, RunsFollow
  <2> QED
    BY <2>1, <2>2, RunsFollow
<1>5. ASSUME i # k - 1
      PROVE  RunStart(n, k, i) + RunLength(n, k, i) + 1 <= n
  <2> DEFINE j == k - 1
  <2>1. j \in Nat /\ j \in 0..(k - 1) /\ i < j
    BY <1>5
  <2> HIDE DEF j
  <2>2. RunStart(n, k, j) + RunLength(n, k, j) <= n
    BY <2>1, RunEnds
  <2> QED
    BY <1>3, <2>1, <2>2, RunEnds
<1> QED
  BY <1>3, <1>4, <1>5, RunEnds

(* What a slice has of the depth: the tiles of its run.                    *)
SplitkDepth(s, slice) ==
    LET first == SliceStart(s, slice) * s.tile[4]
    IN first..(IF slice = s.cores - 1 THEN s.shape[4] - 1 ELSE first + SliceLength(s, slice) - 1)

(* A slice has the elements whose tile of the depth is in its run, and no  *)
(* other: the last slice takes what is left.                               *)
LEMMA SplitkDepthIs ==
    ASSUME NEW s \in AnyProblem, s.cores <= Loops(s)[4], NEW slice \in 0..(s.cores - 1)
    PROVE  /\ SplitkDepth(s, slice) \subseteq 0..(s.shape[4] - 1)
           /\ \A x \in 0..(s.shape[4] - 1) :
                x \in SplitkDepth(s, slice) <=> InRun(Loops(s)[4], s.cores, slice, x \div s.tile[4])
<1> DEFINE N == s.shape[4]
           H == s.tile[4]
           k == s.cores
           n == Loops(s)[4]
           f == RunStart(n, k, slice)
           l == RunLength(n, k, slice)
           last == IF slice = k - 1 THEN N - 1 ELSE f * H + l * H - 1
<1>1. /\ N \in Nat \ {0} /\ H \in Nat \ {0} /\ k \in Nat \ {0} /\ n \in Nat \ {0}
      /\ n = CeilDiv(N, H)
  BY ProblemFacts
<1>2. SliceStart(s, slice) = f /\ SliceLength(s, slice) = l * H
  <2> DEFINE Q == n \div k
             R == n % k
  <2>1. SliceStart(s, slice) = IF slice < R THEN (Q + 1) * slice ELSE slice * Q + R
    BY DEF SliceStart
  <2>2. SliceLength(s, slice) = (Q + (IF slice < R THEN 1 ELSE 0)) * H
    BY DEF SliceLength
  <2>3. f = slice * Q + (IF slice < R THEN slice ELSE R) /\ l = Q + (IF slice < R THEN 1 ELSE 0)
    BY DEF RunStart, RunLength
  <2> HIDE DEF n, k, H
  <2>4. Q \in Nat /\ R \in Nat
    <3>1. n \div k \in Nat /\ n % k \in 0..(k - 1)
      BY <1>1, Division
    <3> QED
      BY <1>1, <3>1
  <2> HIDE DEF Q, R, f, l
  <2> QED
    BY <1>1, <2>1, <2>2, <2>3, <2>4
<1>3. SplitkDepth(s, slice) = (f * H)..last
  <2> HIDE DEF f, l
  <2> QED
    BY <1>2 DEF SplitkDepth
<1>4. s.cores <= n /\ slice \in 0..(k - 1)
  OBVIOUS
<1> HIDE DEF n, k
<1>5. /\ f \in Nat /\ l \in Nat \ {0} /\ f + l <= n
      /\ (slice = k - 1 => f + l = n) /\ (slice # k - 1 => f + l + 1 <= n)
  <2>1. n \in Nat /\ k <= n
    BY <1>4, <1>1 DEF k
  <2> QED
    BY <1>4, <1>1, <2>1, RunsNotEmpty
<1> HIDE DEF f, l, N, H
<1>6. ASSUME NEW x \in 0..(N - 1)
      PROVE  /\ x \in Nat /\ x \div H \in Nat /\ x \div H < n
             /\ (f * H <= x <=> f <= x \div H)
             /\ ((f + l) * H <= x <=> f + l <= x \div H)
  <2>1. x \in Nat
    BY <1>1
  <2>2. f + l \in Nat
    BY <1>5
  <2>3. (f + l) * H <= x <=> f + l <= x \div H
    BY <1>1, <2>1, <2>2, QuotientAtLeast
  <2> QED
    BY <1>1, <1>5, <2>1, <2>3, ExtentIs, QuotientAtLeast DEF N, H, n
<1>7. (f + l) * H = f * H + l * H /\ f * H \in Nat /\ l * H \in Nat
  BY <1>1, <1>5
<1>8. slice # k - 1 => f * H + l * H < N
  <2> SUFFICES ASSUME slice # k - 1
               PROVE  f * H + l * H < N
    OBVIOUS
  <2>1. (f + l + 1) * H <= n * H
    BY <1>1, <1>5, MultiplyMono
  <2> QED
    BY <1>1, <1>5, <1>7, <2>1, CeilDivFacts
<1> DEFINE F == f * H
           E == l * H
<1>9. F \in Nat /\ E \in Nat /\ (slice # k - 1 => F + E < N)
  BY <1>7, <1>8
<1>10. SplitkDepth(s, slice) = F..(IF slice = k - 1 THEN N - 1 ELSE F + E - 1)
  BY <1>3
<1>11. ASSUME NEW x \in 0..(N - 1)
       PROVE  (F <= x <=> f <= x \div H) /\ (F + E <= x <=> f + l <= x \div H)
  BY <1>6, <1>7
<1> HIDE DEF F, E, last
<1>12. ASSUME NEW x \in 0..(N - 1)
       PROVE  x \in SplitkDepth(s, slice) <=> InRun(n, k, slice, x \div H)
  <2>1. x \div H \in Nat /\ x \div H < n /\ x \in Nat
    BY <1>6
  <2>2. x \in SplitkDepth(s, slice) <=> F <= x /\ (slice # k - 1 => x < F + E)
    <3> DEFINE end == IF slice = k - 1 THEN N - 1 ELSE F + E - 1
    <3>1. x <= end <=> (slice # k - 1 => x < F + E)
      <4> QED
        BY <1>1, <1>9, <2>1
    <3> HIDE DEF end
    <3> QED
      BY <1>1, <1>9, <1>10, <2>1, <3>1
  <2> QED
    BY <1>5, <1>9, <1>11, <2>1, <2>2 DEF InRun, f, l
<1> QED
  BY <1>1, <1>9, <1>12, <1>10 DEF N, H, k, n

(* Slice v of the blocks of batch q, block m.                              *)
SplitkIs(S, b, q, v, m, x) == x = (q * S + v) * b + m

(* A number is known by its batch, slice and block.                        *)
LEMMA SplitkDigits ==
    ASSUME NEW b \in Nat \ {0}, NEW S \in Nat \ {0}, NEW w, w = b * S,
           NEW q \in Nat, NEW v \in 0..(S - 1), NEW m \in 0..(b - 1), NEW x \in Nat,
           SplitkIs(S, b, q, v, m, x)
    PROVE  x \div w = q /\ (x % w) \div b = v /\ x % b = m
<1>1. x = (q * S + v) * b + m
  BY DEF SplitkIs
<1> DEFINE y == v * b + m
<1>2. v \in Nat /\ m \in Nat /\ v < S /\ m < b
  OBVIOUS
<1>3. y \in Nat /\ y < S * b
  BY <1>2, Digits
<1>4. y \div b = v
  BY <1>2, Quotient
<1>5. x % b = m
  <2> DEFINE p == q * S + v
  <2>1. p \in Nat
    BY <1>2
  <2> HIDE DEF p
  <2> QED
    BY <1>1, <2>1, Quotient DEF p
<1> HIDE DEF y
<1>6. y \in 0..(w - 1) /\ w \in Nat \ {0}
  BY <1>3
<1>7. (q * w + y) \div w = q /\ (q * w + y) % w = y
  BY <1>6, Quotient, ZenonT(30)
<1> QED
  BY <1>1, <1>2, <1>4, <1>5, <1>7

(* The tasks have the batches, slices and blocks.                          *)
SplitkTasks(a, b, S) ==
    /\ a * b * S \in Nat \ {0}
    /\ \A x \in 0..(a * b * S - 1) :
         /\ x \div (b * S) \in 0..(a - 1) /\ (x % (b * S)) \div b \in 0..(S - 1) /\ x % b \in 0..(b - 1)
         /\ x = ((x \div (b * S)) * S + ((x % (b * S)) \div b)) * b + (x % b)
    /\ \A q \in 0..(a - 1), v \in 0..(S - 1), m \in 0..(b - 1) :
         \E x \in 0..(a * b * S - 1) :
           x \div (b * S) = q /\ (x % (b * S)) \div b = v /\ x % b = m

(* The division and the remainders of the split-K swizzle tell them apart. *)
LEMMA SplitkTask ==
    ASSUME NEW a \in Nat \ {0}, NEW b \in Nat \ {0}, NEW S \in Nat \ {0}
    PROVE  SplitkTasks(a, b, S)
<1> DEFINE w == b * S
           n == a * b * S
<1>1. w \in Nat \ {0} /\ w = b * S /\ w = S * b /\ n \in Nat \ {0} /\ n = a * w
  OBVIOUS
<1> HIDE DEF w, n
<1>2. ASSUME NEW x \in 0..(n - 1)
      PROVE  \E q \in 0..(a - 1), v \in 0..(S - 1), m \in 0..(b - 1) : SplitkIs(S, b, q, v, m, x)
  <2> DEFINE q == x \div w
             y == x % w
             v == y \div b
             m == y % b
  <2>1. x \in Nat /\ x < a * w
    BY <1>1
  <2>2. q \in Nat /\ y \in 0..(w - 1) /\ x = q * w + y
    BY <1>1, <2>1, Division
  <2> HIDE DEF q, y
  <2>3. y \in Nat /\ y < S * b
    BY <1>1, <2>2
  <2>4. v \in Nat /\ m \in 0..(b - 1) /\ y = v * b + m
    BY <2>3, Division
  <2> HIDE DEF v, m
  <2>5. x = (q * S + v) * b + m
    BY <1>1, <2>2, <2>4
  <2>6. q \in 0..(a - 1) /\ v \in 0..(S - 1)
    BY <1>1, <2>1, <2>2, <2>3, <2>4, MultiplyLess
  <2> QED
    BY <2>4, <2>5, <2>6 DEF SplitkIs
<1>3. ASSUME NEW x \in 0..(n - 1)
      PROVE  /\ x \div w \in 0..(a - 1) /\ (x % w) \div b \in 0..(S - 1) /\ x % b \in 0..(b - 1)
             /\ x = ((x \div w) * S + ((x % w) \div b)) * b + (x % b)
  <2>1. PICK q \in 0..(a - 1), v \in 0..(S - 1), m \in 0..(b - 1) : SplitkIs(S, b, q, v, m, x)
    BY <1>2
  <2>2. x \div w = q /\ (x % w) \div b = v /\ x % b = m
    BY <1>1, <2>1, SplitkDigits
  <2> QED
    BY <2>1, <2>2 DEF SplitkIs
<1>4. ASSUME NEW q \in 0..(a - 1), NEW v \in 0..(S - 1), NEW m \in 0..(b - 1)
      PROVE  \E x \in 0..(n - 1) : x \div w = q /\ (x % w) \div b = v /\ x % b = m
  <2> DEFINE y == v * b + m
             x == q * w + y
  <2>1. q \in Nat /\ q < a /\ v \in Nat /\ v < S /\ m \in Nat /\ m < b
    OBVIOUS
  <2>2. y \in Nat /\ y < w
    BY <1>1, <2>1, Digits
  <2>3. x = (q * S + v) * b + m
    BY <1>1, <2>1
  <2> HIDE DEF y
  <2>4. x \in Nat /\ x < a * w
    BY <1>1, <2>1, <2>2, Digits
  <2> HIDE DEF x
  <2>5. x \div w = q /\ (x % w) \div b = v /\ x % b = m
    <3>1. SplitkIs(S, b, q, v, m, x)
      BY <2>3 DEF SplitkIs
    <3> QED
      BY <1>1, <2>1, <2>4, <3>1, SplitkDigits
  <2>6. x \in 0..(n - 1)
    BY <1>1, <2>4
  <2> QED
    BY <2>5, <2>6
<1> QED
  BY <1>1, <1>3, <1>4 DEF SplitkTasks, w, n

(* Every block of every batch in slices of the depth.                      *)
LEMMA SplitkCuts ==
    ASSUME NEW s \in AnyProblem, s.cores <= Loops(s)[4]
    PROVE  LET n == s.shape[1] * CoreLoops(s) * s.cores
           IN n \in Nat /\ Cuts(s.shape, 1..n, [t \in 1..n |-> SplitkBlock(s, t - 1)])
<1> DEFINE a == s.shape[1]
           b == CoreLoops(s)
           S == s.cores
           n == a * b * S
           T == 1..n
           D == 0..(s.shape[4] - 1)
           Slice(x) == (x % (b * S)) \div b
           q == [t \in T |-> (t - 1) \div (b * S)]
           p == [t \in T |-> (t - 1) % b]
           K == [t \in T |-> SplitkDepth(s, Slice(t - 1))]
           B == [t \in T |-> SplitkBlock(s, t - 1)]
<1>1. a \in Nat \ {0} /\ b \in Nat \ {0} /\ S \in Nat \ {0}
  BY ProblemFacts
<1>2. ASSUME NEW t \in T
      PROVE  /\ q[t] = (t - 1) \div (b * S) /\ p[t] = (t - 1) % b
             /\ K[t] = SplitkDepth(s, Slice(t - 1)) /\ B[t] = SplitkBlock(s, t - 1)
  OBVIOUS
<1>3. /\ n \in Nat \ {0}
      /\ \A x \in 0..(n - 1) :
           /\ x \div (b * S) \in 0..(a - 1) /\ Slice(x) \in 0..(S - 1) /\ x % b \in 0..(b - 1)
           /\ x = ((x \div (b * S)) * S + Slice(x)) * b + (x % b)
      /\ \A c \in 0..(a - 1), v \in 0..(S - 1), m \in 0..(b - 1) :
           \E x \in 0..(n - 1) : x \div (b * S) = c /\ Slice(x) = v /\ x % b = m
  <2> HIDE DEF a, b, S
  <2>1. SplitkTasks(a, b, S)
    BY <1>1, SplitkTask
  <2> QED
    BY <2>1 DEF SplitkTasks
<1>4. \A t \in T : t - 1 \in 0..(n - 1)
  BY <1>3
<1>5. B = BlocksOf(s, T, Order(s), q, p, K)
  <2>1. ASSUME NEW t \in T
        PROVE  B[t] = BlockOf(s, Order(s), q[t], p[t], K[t])
    <3> DEFINE x == t - 1
               batch == x \div (b * S)
               i == x % b
               depths == SplitkDepth(s, Slice(x))
               mn == Swizzled(Loops(s)[2], Loops(s)[3], s, i)
    <3>1. i \in 0..(CoreLoops(s) - 1)
      <4> HIDE DEF n, q, p, K, B
      <4> QED
        BY <1>3, <1>4
    <3>2. SplitkSlice(s, x) = Slice(x)
      BY DEF SplitkSlice
    <3>3. SplitkBlock(s, x) = [Along(s, batch, mn) EXCEPT ![4] = depths]
      BY <3>2 DEF SplitkBlock, SplitkDepth
    <3>4. q[t] = batch /\ p[t] = i /\ K[t] = depths /\ B[t] = SplitkBlock(s, x)
      BY <1>2
    <3> HIDE DEF q, p, K, B, T, batch, i, depths, mn
    <3>5. [Along(s, batch, mn) EXCEPT ![4] = depths] = BlockOf(s, Order(s), batch, i, depths)
      BY <3>1, AlongOrder DEF mn
    <3> QED
      BY <3>3, <3>4, <3>5
  <2> QED
    BY <2>1 DEF BlocksOf
<1> HIDE DEF q, p, K, B, D, a, b, S, n, Slice
<1>6. ASSUME NEW v \in 0..(S - 1)
      PROVE  /\ SplitkDepth(s, v) \subseteq D
             /\ \A x \in D : x \in SplitkDepth(s, v) <=> InRun(Loops(s)[4], S, v, x \div s.tile[4])
  BY SplitkDepthIs DEF S, D
<1>7. ASSUME NEW x \in D
      PROVE  /\ x \div s.tile[4] \in 0..(Loops(s)[4] - 1) /\ x \div s.tile[4] \in Int
             /\ Loops(s)[4] \in Nat
  <2>1. x \div s.tile[4] \in 0..(Loops(s)[4] - 1)
    BY ExtentIs DEF D
  <2>2. Loops(s)[4] \in Nat
    BY ProblemFacts
  <2> QED
    BY <2>1, <2>2
<1>8. Dealt(s, T, q, p, K)
  <2>1. ASSUME NEW t \in T
        PROVE  q[t] \in 0..(a - 1) /\ p[t] \in 0..(b - 1) /\ K[t] \subseteq D
    <3>1. t - 1 \in 0..(n - 1)
      BY <1>4
    <3>2. Slice(t - 1) \in 0..(S - 1)
      BY <1>3, <3>1
    <3> QED
      BY <1>2, <1>3, <1>6, <3>1, <3>2
  <2>2. ASSUME NEW c \in 0..(a - 1), NEW i \in 0..(b - 1), NEW d \in D
        PROVE  \E t \in T : q[t] = c /\ p[t] = i /\ d \in K[t]
    <3> DEFINE y == d \div s.tile[4]
               k == Loops(s)[4]
    <3>1. y \in 0..(k - 1) /\ k \in Nat
      BY <1>7
    <3> HIDE DEF y, k
    <3>2. PICK v \in 0..(S - 1) : InRun(k, S, v, y)
      BY <1>1, <3>1, SomeRun
    <3>3. PICK x \in 0..(n - 1) : x \div (b * S) = c /\ Slice(x) = v /\ x % b = i
      BY <1>3
    <3>4. x + 1 \in T /\ (x + 1) - 1 = x
      BY <1>3
    <3>5. d \in SplitkDepth(s, v)
      BY <1>6, <3>2 DEF y, k
    <3> DEFINE t == x + 1
    <3>6. t \in T /\ t - 1 = x
      BY <3>4
    <3> HIDE DEF t, T
    <3>7. q[t] = c /\ p[t] = i /\ K[t] = SplitkDepth(s, v)
      BY <1>2, <3>3, <3>6
    <3> QED
      BY <3>5, <3>6, <3>7
  <2>3. ASSUME NEW t \in T, NEW u \in T, NEW d \in K[t], q[t] = q[u], p[t] = p[u], d \in K[u]
        PROVE  t = u
    <3> DEFINE x == t - 1
               z == u - 1
               v == Slice(x)
               w == Slice(z)
               y == d \div s.tile[4]
               k == Loops(s)[4]
    <3>1. x \in 0..(n - 1) /\ z \in 0..(n - 1)
      BY <1>4
    <3>2. v \in 0..(S - 1) /\ w \in 0..(S - 1)
      BY <1>3, <3>1
    <3>3. K[t] = SplitkDepth(s, v) /\ K[u] = SplitkDepth(s, w)
      BY <1>2
    <3>4. d \in D /\ InRun(k, S, v, y) /\ InRun(k, S, w, y)
      BY <1>6, <2>3, <3>2, <3>3
    <3>5. y \in Int /\ k \in Nat
      BY <1>7, <3>4
    <3> HIDE DEF v, w, y, k
    <3>6. v = w
      BY <1>1, <3>2, <3>4, <3>5, OneRun
    <3>7. x \div (b * S) = z \div (b * S) /\ x % b = z % b
      BY <1>2, <2>3
    <3>8. /\ x = ((x \div (b * S)) * S + v) * b + (x % b)
          /\ z = ((z \div (b * S)) * S + w) * b + (z % b)
      BY <1>3, <3>1 DEF v, w
    <3>9. x = z
      <4> HIDE DEF x, z
      <4> QED
        BY <3>6, <3>7, <3>8
    <3> QED
      BY <1>3, <3>9
  <2> QED
    BY <2>1, <2>2, <2>3 DEF Dealt, a, b, D
<1>9. Cuts(s.shape, T, B)
  BY <1>5, <1>8, OrderPasses, DealtCuts
<1> QED
  BY <1>3, <1>9 DEF n, B, a, b, S

-----------------------------------------------------------------------------
(* The snake, and splitting K on a single core.                            *)

(* A block of h rows, passed column by column, from the last one when b is *)
(* odd, and up and down in turn.                                           *)
SnakeCell(h, cols, b, m) ==
    LET along == m \div h
        nIdx == IF b % 2 = 1 THEN cols - along - 1 ELSE along
        down == m % h
    IN <<IF nIdx % 2 = 1 THEN h - down - 1 ELSE down, nIdx>>

(* The number at which it is at row d and column c.                        *)
CellIndex(h, cols, b, d, c) ==
    (IF b % 2 = 1 THEN cols - c - 1 ELSE c) * h + (IF c % 2 = 1 THEN h - d - 1 ELSE d)

(* It stays in the block, and its place has its number.                    *)
LEMMA SnakeCellIs ==
    ASSUME NEW h \in Nat \ {0}, NEW cols \in Nat \ {0}, NEW b \in Nat, NEW m \in Nat, m < cols * h
    PROVE  /\ SnakeCell(h, cols, b, m)[1] \in 0..(h - 1)
           /\ SnakeCell(h, cols, b, m)[2] \in 0..(cols - 1)
           /\ m = CellIndex(h, cols, b, SnakeCell(h, cols, b, m)[1], SnakeCell(h, cols, b, m)[2])
<1> DEFINE a == m \div h
           c == IF b % 2 = 1 THEN cols - a - 1 ELSE a
           d == m % h
           r == IF c % 2 = 1 THEN h - d - 1 ELSE d
<1>1. a \in Nat /\ d \in 0..(h - 1) /\ m = a * h + d
  BY Division
<1>2. SnakeCell(h, cols, b, m) = <<r, c>>
  BY DEF SnakeCell
<1> HIDE DEF a, d
<1>3. a < cols
  <2>1. a * h \in Nat /\ a * h < cols * h
    BY <1>1
  <2> QED
    BY <1>1, <2>1, MultiplyLess
<1>4. c \in 0..(cols - 1) /\ (IF b % 2 = 1 THEN cols - c - 1 ELSE c) = a
  BY <1>1, <1>3
<1> HIDE DEF c
<1>5. r \in 0..(h - 1) /\ (IF c % 2 = 1 THEN h - r - 1 ELSE r) = d
  BY <1>1
<1> HIDE DEF r
<1>6. CellIndex(h, cols, b, r, c) = a * h + d
  BY <1>4, <1>5 DEF CellIndex
<1> QED
  BY <1>1, <1>2, <1>4, <1>5, <1>6

(* It is at every place of the block.                                      *)
LEMMA SnakeCellFinds ==
    ASSUME NEW h \in Nat \ {0}, NEW cols \in Nat \ {0}, NEW b \in Nat,
           NEW r \in 0..(h - 1), NEW c \in 0..(cols - 1)
    PROVE  /\ CellIndex(h, cols, b, r, c) \in Nat
           /\ CellIndex(h, cols, b, r, c) < cols * h
           /\ SnakeCell(h, cols, b, CellIndex(h, cols, b, r, c)) = <<r, c>>
<1> DEFINE a == IF b % 2 = 1 THEN cols - c - 1 ELSE c
           d == IF c % 2 = 1 THEN h - r - 1 ELSE r
           m == a * h + d
<1>1. CellIndex(h, cols, b, r, c) = m
  BY DEF CellIndex
<1>2. a \in Nat /\ a < cols /\ d \in Nat /\ d < h
  OBVIOUS
<1>3. (IF b % 2 = 1 THEN cols - a - 1 ELSE a) = c /\ (IF c % 2 = 1 THEN h - d - 1 ELSE d) = r
  OBVIOUS
<1> HIDE DEF a, d
<1>4. m \in Nat /\ m < cols * h
  BY <1>2, Digits
<1>5. m \div h = a /\ m % h = d
  <2>1. d \in 0..(h - 1)
    BY <1>2
  <2> QED
    BY <1>2, <2>1, Quotient
<1> HIDE DEF m
<1>6. SnakeCell(h, cols, b, m) = <<r, c>>
  BY <1>3, <1>5 DEF SnakeCell
<1> QED
  BY <1>1, <1>4, <1>6

(* n blocks of offset rows, the last one with the rows that are left.      *)
SnakeRows(rows, offset, n, b) == IF b = n - 1 THEN rows - b * offset ELSE offset

(* The smaller of two numbers.                                             *)
AtMost(x, n) == IF x < n THEN x ELSE n

(* The snake through such blocks, one after the other.                     *)
SnakeOf(rows, cols, offset, n, i) ==
    LET b == AtMost(i \div (offset * cols), n - 1)
        cell == SnakeCell(SnakeRows(rows, offset, n, b), cols, b, i - b * (offset * cols))
    IN <<b * offset + cell[1], cell[2]>>

(* The number at which it is at row r and column c.                        *)
SnakeIndex(rows, cols, offset, n, r, c) ==
    LET b == AtMost(r \div offset, n - 1)
    IN b * (offset * cols) + CellIndex(SnakeRows(rows, offset, n, b), cols, b, r - b * offset, c)

(* Every block has rows. *)
HasRows(rows, offset, n) == (n - 1) * offset < rows

(* Of the rows and of the numbers a block has as many.                     *)
SnakeFits(rows, cols, offset, n, b, h) ==
    /\ h \in Nat \ {0} /\ b * offset \in Nat /\ b * offset + h <= rows
    /\ b = n - 1 => b * offset + h = rows
    /\ b # n - 1 => h = offset
    /\ b * (offset * cols) \in Nat
    /\ b * (offset * cols) + cols * h <= rows * cols
    /\ b = n - 1 => b * (offset * cols) + cols * h = rows * cols

(* A block of the snake has rows, and ends within the problem; the last    *)
(* one ends with it.                                                       *)
LEMMA SnakeBlock ==
    ASSUME NEW rows \in Nat \ {0}, NEW cols \in Nat \ {0}, NEW offset \in Nat \ {0},
           NEW n \in Nat \ {0}, HasRows(rows, offset, n), NEW b \in 0..(n - 1),
           NEW h, h = SnakeRows(rows, offset, n, b)
    PROVE  SnakeFits(rows, cols, offset, n, b, h)
<1>1. (n - 1) * offset < rows
  BY DEF HasRows
<1>2. b \in Nat /\ b * offset \in Nat /\ (n - 1) * offset \in Nat
  OBVIOUS
<1>3. b # n - 1 => b * offset + offset <= (n - 1) * offset
  <2> SUFFICES ASSUME b # n - 1
               PROVE  b * offset + offset <= (n - 1) * offset
    OBVIOUS
  <2>1. b + 1 \in Nat /\ n - 1 \in Nat /\ b + 1 <= n - 1
    OBVIOUS
  <2>2. (b + 1) * offset <= (n - 1) * offset
    BY <2>1, MultiplyMono
  <2>3. (b + 1) * offset = b * offset + offset
    BY <1>2
  <2> QED
    BY <2>2, <2>3
<1>4. h \in Nat \ {0} /\ b * offset + h <= rows /\ (b = n - 1 => b * offset + h = rows)
      /\ (b # n - 1 => h = offset)
  <2>1. h = IF b = n - 1 THEN rows - b * offset ELSE offset
    BY DEF SnakeRows
  <2>2. CASE b = n - 1
    BY <1>1, <1>2, <2>1, <2>2
  <2>3. CASE b # n - 1
    BY <1>1, <1>2, <1>3, <2>1, <2>3
  <2> QED
    BY <2>2, <2>3
<1>5. (b * offset + h) * cols = b * (offset * cols) + cols * h /\ b * (offset * cols) \in Nat
  BY <1>2, <1>4
<1> DEFINE x == b * offset + h
<1>6. x \in Nat /\ x <= rows
  BY <1>2, <1>4
<1> HIDE DEF x
<1>7. x * cols <= rows * cols /\ (x = rows => x * cols = rows * cols)
  BY <1>6, MultiplyMono
<1> QED
  BY <1>2, <1>4, <1>5, <1>7 DEF SnakeFits, x

(* The snake stays within the rows and columns, and its place has its      *)
(* number.                                                                 *)
LEMMA SnakeIs ==
    ASSUME NEW rows \in Nat \ {0}, NEW cols \in Nat \ {0}, NEW offset \in Nat \ {0},
           NEW n \in Nat \ {0}, HasRows(rows, offset, n),
           NEW i \in Nat, i < rows * cols
    PROVE  /\ SnakeOf(rows, cols, offset, n, i)[1] \in 0..(rows - 1)
           /\ SnakeOf(rows, cols, offset, n, i)[2] \in 0..(cols - 1)
           /\ i = SnakeIndex(rows, cols, offset, n, SnakeOf(rows, cols, offset, n, i)[1],
                             SnakeOf(rows, cols, offset, n, i)[2])
<1> DEFINE W == offset * cols
           Q == i \div W
           b == AtMost(Q, n - 1)
           h == SnakeRows(rows, offset, n, b)
           m == i - b * W
           cell == SnakeCell(h, cols, b, m)
           d == cell[1]
           c == cell[2]
           r == b * offset + d
<1>1. W \in Nat \ {0}
  OBVIOUS
<1>2. Q \in Nat /\ i % W \in 0..(W - 1) /\ i = Q * W + (i % W)
  <2> HIDE DEF W
  <2> QED
    BY <1>1, Division
<1>3. SnakeOf(rows, cols, offset, n, i) = <<r, c>>
  BY DEF SnakeOf
<1> HIDE DEF Q
<1>4. b \in 0..(n - 1) /\ (b # n - 1 => b = Q) /\ (b = n - 1 => n - 1 <= Q)
  BY <1>2 DEF AtMost
<1> HIDE DEF b
<1>5. h = SnakeRows(rows, offset, n, b)
  OBVIOUS
<1> HIDE DEF h
<1>6. /\ h \in Nat \ {0} /\ b * offset \in Nat /\ b * offset + h <= rows
      /\ (b = n - 1 => b * offset + h = rows)
      /\ (b # n - 1 => h = offset)
      /\ b * W \in Nat
      /\ (b = n - 1 => b * W + cols * h = rows * cols)
  <2>1. SnakeFits(rows, cols, offset, n, b, h)
    BY <1>4, <1>5, SnakeBlock
  <2> QED
    BY <2>1 DEF SnakeFits
<1>7. m \in Nat /\ m < cols * h
  <2>1. CASE b = n - 1
    <3>1. b \in Nat /\ b <= Q
      BY <1>4, <2>1
    <3> HIDE DEF W
    <3>2. b * W <= Q * W /\ Q * W \in Nat /\ b * W \in Nat
      <4>1. Q \in Nat /\ W \in Nat
        BY <1>1, <1>2
      <4> QED
        BY <3>1, <4>1, MultiplyMono
    <3>3. b * W <= i
      <4>1. i % W \in Nat /\ i = Q * W + (i % W)
        BY <1>1, <1>2
      <4> QED
        BY <3>2, <4>1
    <3>4. cols * h \in Nat /\ rows * cols \in Nat
      BY <1>6
    <3> QED
      BY <1>6, <2>1, <3>3, <3>4
  <2>2. CASE b # n - 1
    <3>1. b = Q /\ h = offset /\ cols * h = W
      BY <1>4, <1>6, <2>2
    <3> HIDE DEF W
    <3>2. m = i % W
      BY <1>1, <1>2, <1>6, <3>1
    <3> QED
      BY <1>1, <1>2, <3>1, <3>2
  <2> QED
    BY <2>1, <2>2
<1>8. i = b * W + m
  BY <1>1, <1>6
<1> HIDE DEF m, W
<1>9. b \in Nat
  BY <1>4
<1>10. d \in 0..(h - 1) /\ c \in 0..(cols - 1) /\ m = CellIndex(h, cols, b, d, c)
  <2>1. h \in Nat \ {0}
    BY <1>6
  <2> QED
    BY <1>7, <1>9, <2>1, SnakeCellIs
<1> HIDE DEF d, c, cell
<1>11. r \in 0..(rows - 1) /\ r - b * offset = d
  BY <1>6, <1>10
<1>12. AtMost(r \div offset, n - 1) = b
  <2>1. CASE b = n - 1
    <3>1. r \in Nat /\ b * offset <= r
      BY <1>6, <1>10
    <3> HIDE DEF r
    <3>2. b <= r \div offset
      BY <1>9, <3>1, QuotientAtLeast
    <3>3. r \div offset \in Nat
      BY <3>1, Division
    <3> QED
      BY <1>9, <2>1, <3>2, <3>3 DEF AtMost
  <2>2. CASE b # n - 1
    <3>1. d \in 0..(offset - 1) /\ b < n - 1
      BY <1>4, <1>6, <1>10, <2>2
    <3>2. r \div offset = b
      BY <1>9, <3>1, Quotient
    <3> QED
      BY <3>1, <3>2 DEF AtMost
  <2> QED
    BY <2>1, <2>2
<1>13. SnakeIndex(rows, cols, offset, n, r, c) = b * W + CellIndex(h, cols, b, d, c)
  <2> HIDE DEF r
  <2> QED
    BY <1>5, <1>11, <1>12 DEF SnakeIndex, W
<1> HIDE DEF r
<1> QED
  BY <1>3, <1>8, <1>10, <1>11, <1>13

(* It passes every row and column.                                         *)
LEMMA SnakeFinds ==
    ASSUME NEW rows \in Nat \ {0}, NEW cols \in Nat \ {0}, NEW offset \in Nat \ {0},
           NEW n \in Nat \ {0}, HasRows(rows, offset, n),
           NEW r \in 0..(rows - 1), NEW c \in 0..(cols - 1)
    PROVE  /\ SnakeIndex(rows, cols, offset, n, r, c) \in Nat
           /\ SnakeIndex(rows, cols, offset, n, r, c) < rows * cols
           /\ SnakeOf(rows, cols, offset, n, SnakeIndex(rows, cols, offset, n, r, c)) = <<r, c>>
<1> DEFINE W == offset * cols
           Q == r \div offset
           b == AtMost(Q, n - 1)
           h == SnakeRows(rows, offset, n, b)
           d == r - b * offset
           m == CellIndex(h, cols, b, d, c)
           i == b * W + m
<1>1. W \in Nat \ {0} /\ r \in Nat /\ r < rows
  OBVIOUS
<1>2. Q \in Nat /\ r % offset \in 0..(offset - 1) /\ r = Q * offset + (r % offset)
  BY <1>1, Division
<1>3. SnakeIndex(rows, cols, offset, n, r, c) = i
  BY DEF SnakeIndex
<1> HIDE DEF Q
<1>4. b \in 0..(n - 1) /\ (b # n - 1 => b = Q) /\ (b = n - 1 => n - 1 <= Q)
  BY <1>2 DEF AtMost
<1> HIDE DEF b
<1>5. h = SnakeRows(rows, offset, n, b)
  OBVIOUS
<1> HIDE DEF h
<1>6. /\ h \in Nat \ {0} /\ b * offset \in Nat /\ b * offset + h <= rows
      /\ (b = n - 1 => b * offset + h = rows)
      /\ (b # n - 1 => h = offset)
      /\ b * W \in Nat
      /\ b * W + cols * h <= rows * cols
  <2>1. SnakeFits(rows, cols, offset, n, b, h)
    BY <1>4, <1>5, SnakeBlock
  <2> QED
    BY <2>1 DEF SnakeFits
<1>7. b \in Nat
  BY <1>4
<1>8. d \in 0..(h - 1)
  <2>1. CASE b = n - 1
    <3>1. b * offset <= Q * offset /\ Q * offset \in Nat
      BY <1>2, <1>4, <1>7, <2>1, MultiplyMono
    <3> QED
      BY <1>1, <1>2, <1>6, <2>1, <3>1
  <2>2. CASE b # n - 1
    <3>1. b = Q /\ h = offset
      BY <1>4, <1>6, <2>2
    <3> QED
      BY <1>1, <1>2, <1>6, <3>1
  <2> QED
    BY <2>1, <2>2
<1>9. r = b * offset + d
  BY <1>1, <1>6
<1> HIDE DEF d
<1>10. m \in Nat /\ m < cols * h /\ SnakeCell(h, cols, b, m) = <<d, c>>
  <2>1. h \in Nat \ {0}
    BY <1>6
  <2> QED
    BY <1>7, <1>8, <2>1, SnakeCellFinds
<1> HIDE DEF m
<1>11. i \in Nat /\ i < rows * cols /\ b * W <= i /\ i - b * W = m
  <2>1. cols * h \in Nat /\ rows * cols \in Nat
    BY <1>6
  <2> HIDE DEF W
  <2> QED
    BY <1>6, <1>10, <2>1
<1>12. AtMost(i \div W, n - 1) = b
  <2>1. CASE b = n - 1
    <3> HIDE DEF i, W
    <3>1. b <= i \div W
      BY <1>1, <1>7, <1>11, QuotientAtLeast
    <3>2. i \div W \in Nat
      BY <1>1, <1>11, Division
    <3> QED
      BY <1>7, <2>1, <3>1, <3>2 DEF AtMost
  <2>2. CASE b # n - 1
    <3>1. b < n - 1 /\ cols * h = W
      BY <1>4, <1>6, <2>2
    <3> HIDE DEF W
    <3>2. m \in 0..(W - 1)
      BY <1>1, <1>10, <3>1
    <3>3. i \div W = b
      BY <1>1, <1>7, <3>2, Quotient
    <3> QED
      BY <3>1, <3>3 DEF AtMost
  <2> QED
    BY <2>1, <2>2
<1>13. SnakeOf(rows, cols, offset, n, i)
         = <<b * offset + SnakeCell(h, cols, b, i - b * W)[1], SnakeCell(h, cols, b, i - b * W)[2]>>
  <2> HIDE DEF i
  <2> QED
    BY <1>5, <1>12 DEF SnakeOf, W
<1> HIDE DEF i, W
<1>14. SnakeOf(rows, cols, offset, n, i) = <<r, c>>
  BY <1>9, <1>10, <1>11, <1>13
<1> QED
  BY <1>3, <1>11, <1>14

(* Snake, when n is the number of blocks that the rows are joined to.      *)
SnakeWith(rows, cols, offset, n, i) ==
    LET tileBlockLoop == CeilDiv(rows, offset)
        tileBlockIdx == i \div (offset * cols)
        tailOffset == rows - (tileBlockLoop - 1) * offset
        joined == n # tileBlockLoop /\ tileBlockIdx >= tileBlockLoop - 2
        block == IF joined THEN ((rows - tailOffset) \div offset) - 1 ELSE tileBlockIdx
        inTileBlockIdx == IF joined THEN i - offset * cols * block ELSE i % (offset * cols)
        nRow == IF joined THEN offset + tailOffset
                ELSE IF tileBlockIdx = tileBlockLoop - 1 THEN rows - offset * tileBlockIdx
                ELSE offset
        along == inTileBlockIdx \div nRow
        nIdx == IF block % 2 = 1 THEN cols - along - 1 ELSE along
        down == inTileBlockIdx % nRow
    IN <<block * offset + (IF nIdx % 2 = 1 THEN nRow - down - 1 ELSE down), nIdx>>

(* The last block may be joined to the one before it. *)
JoinedTo(rows, offset, n) ==
    \/ n = CeilDiv(rows, offset)
    \/ n = CeilDiv(rows, offset) - 1 /\ CeilDiv(rows, offset) >= 2

(* Joined or not, every block has rows.                                    *)
LEMMA JoinedFacts ==
    ASSUME NEW rows \in Nat \ {0}, NEW offset \in Nat \ {0}, NEW n, JoinedTo(rows, offset, n)
    PROVE  n \in Nat \ {0} /\ HasRows(rows, offset, n)
<1> DEFINE B == CeilDiv(rows, offset)
<1>1. B \in Nat \ {0} /\ B * offset \in Nat /\ B * offset < rows + offset
  BY CeilDivPositive, CeilDivFacts
<1>2. n = B \/ (n = B - 1 /\ B >= 2)
  BY DEF JoinedTo
<1> HIDE DEF B
<1> QED
  BY <1>1, <1>2, MultiplyMono DEF HasRows

(* The code's arithmetic, joined or not, follows this snake.               *)
LEMMA SnakeWithIs ==
    ASSUME NEW rows \in Nat \ {0}, NEW cols \in Nat \ {0}, NEW offset \in Nat \ {0},
           NEW n, JoinedTo(rows, offset, n), NEW i \in Nat, i < rows * cols
    PROVE  SnakeWith(rows, cols, offset, n, i) = SnakeOf(rows, cols, offset, n, i)
<1> DEFINE B == CeilDiv(rows, offset)
           W == offset * cols
           Q == i \div W
           tail == rows - (B - 1) * offset
           joined == n # B /\ Q >= B - 2
           block == IF joined THEN ((rows - tail) \div offset) - 1 ELSE Q
           in == IF joined THEN i - W * block ELSE i % W
           nRow == IF joined THEN offset + tail ELSE IF Q = B - 1 THEN rows - offset * Q ELSE offset
           b == AtMost(Q, n - 1)
           h == SnakeRows(rows, offset, n, b)
<1>1. /\ B \in Nat \ {0} /\ B * offset \in Nat /\ rows <= B * offset /\ B * offset < rows + offset
      /\ (n = B \/ (n = B - 1 /\ B >= 2))
  BY CeilDivPositive, CeilDivFacts DEF JoinedTo
<1>2. SnakeWith(rows, cols, offset, n, i)
        = <<block * offset + SnakeCell(nRow, cols, block, in)[1], SnakeCell(nRow, cols, block, in)[2]>>
  BY DEF SnakeWith, SnakeCell
<1>3. SnakeOf(rows, cols, offset, n, i)
        = <<b * offset + SnakeCell(h, cols, b, i - b * W)[1], SnakeCell(h, cols, b, i - b * W)[2]>>
  BY DEF SnakeOf
<1>4. W \in Nat \ {0}
  OBVIOUS
<1>5. Q \in Nat /\ i % W \in Nat /\ i = Q * W + (i % W)
  <2> HIDE DEF W
  <2>1. Q \in Nat /\ i % W \in 0..(W - 1) /\ i = Q * W + (i % W)
    BY <1>4, Division
  <2> QED
    BY <1>4, <2>1
<1> HIDE DEF B
<1>6. Q < B
  <2> HIDE DEF Q
  <2>1. Q * W <= i
    <3> HIDE DEF W
    <3> QED
      BY <1>4, <1>5
  <2>2. i < (B * offset) * cols /\ (B * offset) * cols = B * W
    BY <1>1, MultiplyMono
  <2> HIDE DEF W
  <2> QED
    BY <1>1, <1>4, <1>5, <2>1, <2>2, MultiplyLess
<1>7. /\ (B - 1) * offset = B * offset - offset /\ (B - 1) * offset \in Nat
      /\ tail \in 1..offset
  BY <1>1
<1> HIDE DEF Q
<1>8. CASE joined
  <2>1. n = B - 1 /\ B >= 2 /\ Q >= n - 1 /\ b = n - 1
    BY <1>1, <1>5, <1>6, <1>8 DEF AtMost
  <2>2. block = n - 1
    BY <1>1, <1>7, <1>8, <2>1, Quotient
  <2>3. in = i - b * W
    <3> HIDE DEF W, block
    <3> QED
      BY <1>1, <1>4, <1>8, <2>1, <2>2
  <2>4. nRow = h
    <3>1. b * offset = (B - 1) * offset - offset
      <4> HIDE DEF b
      <4> QED
        BY <1>1, <2>1
    <3> QED
      BY <1>7, <1>8, <2>1, <3>1 DEF SnakeRows
  <2> HIDE DEF block, in, nRow, b, h, W
  <2> QED
    BY <1>2, <1>3, <2>1, <2>2, <2>3, <2>4
<1>9. CASE ~joined
  <2>1. b = Q /\ Q <= n - 1
    BY <1>1, <1>5, <1>6, <1>9 DEF AtMost
  <2>2. block = b /\ in = i % W
    BY <1>9, <2>1
  <2>3. i % W = i - b * W
    <3> HIDE DEF b, W
    <3> QED
      BY <1>4, <1>5, <2>1
  <2>4. nRow = h
    <3>1. Q = n - 1 <=> Q = B - 1
      BY <1>1, <1>5, <1>6, <1>9
    <3> QED
      BY <1>5, <1>9, <2>1, <3>1 DEF SnakeRows
  <2> HIDE DEF block, in, nRow, b, h, W
  <2> QED
    BY <1>2, <1>3, <2>2, <2>3, <2>4
<1> QED
  BY <1>8, <1>9

(* So the order of Snake passes all blocks.                                *)
LEMMA SnakePasses ==
    ASSUME NEW rows \in Nat \ {0}, NEW cols \in Nat \ {0}, NEW offset \in Nat \ {0},
           NEW n, JoinedTo(rows, offset, n), NEW l, l = rows * cols
    PROVE  Passes(rows, cols, l, [i \in 0..(l - 1) |-> SnakeWith(rows, cols, offset, n, i)])
<1> DEFINE z == [i \in 0..(l - 1) |-> SnakeWith(rows, cols, offset, n, i)]
<1>1. n \in Nat \ {0} /\ HasRows(rows, offset, n) /\ l \in Nat
  BY JoinedFacts
<1>2. ASSUME NEW i \in 0..(l - 1)
      PROVE  z[i] = SnakeOf(rows, cols, offset, n, i)
  BY <1>1, SnakeWithIs
<1>3. ASSUME NEW i \in 0..(l - 1)
      PROVE  /\ SnakeOf(rows, cols, offset, n, i)[1] \in 0..(rows - 1)
             /\ SnakeOf(rows, cols, offset, n, i)[2] \in 0..(cols - 1)
             /\ i = SnakeIndex(rows, cols, offset, n, SnakeOf(rows, cols, offset, n, i)[1],
                               SnakeOf(rows, cols, offset, n, i)[2])
  BY <1>1, SnakeIs
<1>4. ASSUME NEW r \in 0..(rows - 1), NEW c \in 0..(cols - 1)
      PROVE  \E i \in 0..(l - 1) : SnakeOf(rows, cols, offset, n, i) = <<r, c>>
  BY <1>1, SnakeFinds
<1> HIDE DEF z
<1>5. \A r \in 0..(rows - 1), c \in 0..(cols - 1) :
        \E i \in 0..(l - 1) : z[i][1] = r /\ z[i][2] = c
  <2> SUFFICES ASSUME NEW r \in 0..(rows - 1), NEW c \in 0..(cols - 1)
               PROVE  \E i \in 0..(l - 1) : z[i][1] = r /\ z[i][2] = c
    OBVIOUS
  <2>1. PICK i \in 0..(l - 1) : SnakeOf(rows, cols, offset, n, i) = <<r, c>>
    BY <1>4
  <2> QED
    BY <1>2, <2>1
<1> QED
  BY <1>2, <1>3, <1>5 DEF z, Passes

(* The blocks in the order of the snake, or of its transpose.              *)
SnakeOrder(rows, cols, s) == [i \in 0..(rows * cols - 1) |-> SnakeSwizzled(rows, cols, s, i)]

(* Whatever the direction and the offset, the snake passes every block     *)
(* once.                                                                   *)
LEMMA SnakeSwizzledPasses ==
    ASSUME NEW s \in AnyProblem, NEW rows \in Nat \ {0}, NEW cols \in Nat \ {0}
    PROVE  Passes(rows, cols, rows * cols, SnakeOrder(rows, cols, s))
<1> DEFINE o == s.offset
           l == rows * cols
           TailOf(m) == m - (CeilDiv(m, o) - 1) * o
           n == IF CeilDiv(rows, o) >= 2 /\ TailOf(rows) <= o \div 2 THEN CeilDiv(rows, o) - 1 ELSE CeilDiv(rows, o)
           k == IF CeilDiv(cols, o) >= 2 /\ TailOf(cols) < o \div 2 THEN CeilDiv(cols, o) - 1 ELSE CeilDiv(cols, o)
           y == [i \in 0..(l - 1) |-> SnakeWith(rows, cols, o, n, i)]
           f == [i \in 0..(l - 1) |-> SnakeWith(cols, rows, o, k, i)]
           x == [i \in 0..(l - 1) |-> <<f[i][2], f[i][1]>>]
           z == SnakeOrder(rows, cols, s)
<1>1. o \in Nat \ {0}
  BY DEF AnyProblem
<1>2. z = [i \in 0..(l - 1) |-> SnakeSwizzled(rows, cols, s, i)]
  BY DEF SnakeOrder
<1>3. l = rows * cols /\ l = cols * rows
  OBVIOUS
<1>4. JoinedTo(rows, o, n) /\ JoinedTo(cols, o, k)
  <2> HIDE DEF l, y, f, x, z, o, TailOf
  <2> QED
    BY DEF JoinedTo
<1>5. CeilDiv(rows, o) \in Int /\ CeilDiv(cols, o) \in Int
  <2> HIDE DEF o
  <2> QED
    BY <1>1, CeilDivFacts
<1> HIDE DEF l, z
<1>6. ASSUME s.direction = 0
      PROVE  z = y
  <2>1. ASSUME NEW i \in 0..(l - 1)
        PROVE  SnakeSwizzled(rows, cols, s, i) = SnakeWith(rows, cols, o, n, i)
    <3>1. n # CeilDiv(rows, o) <=> CeilDiv(rows, o) >= 2 /\ TailOf(rows) <= o \div 2
      BY <1>5
    <3> HIDE DEF n
    <3> QED
      BY <1>6, <3>1 DEF Snake, SnakeWith, SnakeSwizzled
  <2> QED
    BY <1>2, <2>1
<1>7. ASSUME s.direction # 0
      PROVE  z = x
  <2>1. ASSUME NEW i \in 0..(l - 1)
        PROVE  SnakeSwizzled(rows, cols, s, i) = <<f[i][2], f[i][1]>>
    <3>1. k # CeilDiv(cols, o) <=> CeilDiv(cols, o) >= 2 /\ TailOf(cols) < o \div 2
      BY <1>5
    <3> HIDE DEF k
    <3> QED
      BY <1>7, <3>1 DEF Flip, SnakeSwizzled, Snake, SnakeWith
  <2> QED
    BY <1>2, <2>1
<1> HIDE DEF o, n, k
<1>8. Passes(rows, cols, l, y)
  BY <1>1, <1>3, <1>4, SnakePasses
<1>9. Passes(cols, rows, l, f)
  BY <1>1, <1>3, <1>4, SnakePasses
<1> HIDE DEF y, f
<1>10. Passes(rows, cols, l, x)
  BY <1>9, FlippedPasses
<1> HIDE DEF x
<1> QED
  BY <1>6, <1>7, <1>8, <1>10 DEF l, z

(* The range of a core is its run of blocks.                               *)
LEMMA MNLoopRangeIs ==
    ASSUME NEW s \in AnyProblem, NEW core \in 0..(s.cores - 1)
    PROVE  /\ MNLoopRange(s, core).start = RunStart(CoreLoops(s), s.cores, core)
           /\ MNLoopRange(s, core).len = RunLength(CoreLoops(s), s.cores, core)
<1> DEFINE n == CoreLoops(s)
           k == s.cores
           q == n \div k
           r == n % k
           b == CeilDiv(n, k)
           full == n - k * (b - 1)
<1>1. n \in Nat \ {0} /\ k \in Nat \ {0} /\ core \in 0..(k - 1)
  BY ProblemFacts
<1>2. /\ MNLoopRange(s, core).start =
           IF core < full THEN core * b ELSE full * b + (core - full) * (b - 1)
      /\ MNLoopRange(s, core).len = IF core < full THEN b ELSE b - 1
  BY DEF MNLoopRange
<1>3. b = (n + k - 1) \div k
  BY DEF CeilDiv
<1> HIDE DEF n, k
<1>4. q \in Nat /\ r \in 0..(k - 1) /\ n = q * k + r
  BY <1>1, Division
<1>5. /\ RunStart(n, k, core) = core * q + (IF core < r THEN core ELSE r)
      /\ RunLength(n, k, core) = q + (IF core < r THEN 1 ELSE 0)
  BY DEF RunStart, RunLength
<1> HIDE DEF q, r, full, b
<1>6. ASSUME r = 0
      PROVE  b = q /\ full = k
  <2>1. b = q
    BY <1>1, <1>3, <1>4, <1>6, Quotient
  <2> QED
    BY <1>1, <1>4, <1>6, <2>1 DEF full
<1>7. ASSUME r # 0
      PROVE  b = q + 1 /\ full = r
  <2> DEFINE m == r - 1
             p == q + 1
  <2>1. m \in 0..(k - 1) /\ p \in Nat
    BY <1>1, <1>4, <1>7
  <2>2. n + k - 1 = p * k + m
    BY <1>1, <1>4
  <2> HIDE DEF m, p
  <2>3. (p * k + m) \div k = p
    BY <1>1, <2>1, Quotient
  <2> QED
    BY <1>1, <1>3, <1>4, <2>2, <2>3 DEF full, p
<1>8. CASE r = 0
  BY <1>1, <1>2, <1>4, <1>5, <1>6, <1>8 DEF n, k
<1>9. CASE r # 0
  BY <1>1, <1>2, <1>4, <1>5, <1>7, <1>9 DEF n, k
<1> QED
  BY <1>8, <1>9

(* The tasks of n cores, of which the c-th has L[c].                       *)
CoreTasks(n, L) == {x \in (1..n) \X Nat : 1 <= x[2] /\ x[2] <= L[x[1]]}

(* What the tasks of all cores cut, the cores cut.                         *)
LEMMA CoreTasksCut ==
    ASSUME NEW shape, NEW n \in Nat, NEW L \in [1..n -> Nat], NEW B,
           Cuts(shape, CoreTasks(n, L), [x \in CoreTasks(n, L) |-> B[x[1]][x[2]]])
    PROVE  CutsByCore(shape, n, L, B)
<1> DEFINE T == CoreTasks(n, L)
           P == [x \in T |-> B[x[1]][x[2]]]
<1>1. Cuts(shape, T, P)
  OBVIOUS
<1>2. ASSUME NEW c \in 1..n, NEW t \in 1..L[c]
      PROVE  <<c, t>> \in T /\ P[<<c, t>>] = B[c][t]
  <2>1. <<c, t>> \in T
    BY DEF CoreTasks
  <2> HIDE DEF T
  <2> QED
    BY <2>1
<1>3. ASSUME NEW x \in T
      PROVE  x[1] \in 1..n /\ x[2] \in 1..L[x[1]] /\ P[x] = B[x[1]][x[2]] /\ x = <<x[1], x[2]>>
  BY DEF CoreTasks
<1> HIDE DEF T, P
<1>4. \A c \in 1..n : \A t \in 1..L[c] : Inside(shape, B[c][t])
  <2> SUFFICES ASSUME NEW c \in 1..n, NEW t \in 1..L[c]
               PROVE  Inside(shape, B[c][t])
    OBVIOUS
  <2>1. <<c, t>> \in T /\ P[<<c, t>>] = B[c][t]
    BY <1>2
  <2> QED
    BY <1>1, <2>1 DEF Cuts
<1>5. ASSUME NEW e \in Elements(shape)
      PROVE  \E c \in 1..n : \E t \in 1..L[c] : Has(B[c][t], e)
  <2>1. PICK x \in T : Has(P[x], e)
    BY <1>1 DEF Cuts
  <2> QED
    BY <1>3, <2>1
<1>6. ASSUME NEW e \in Elements(shape), NEW c \in 1..n, NEW d \in 1..n,
             NEW t \in 1..L[c], NEW u \in 1..L[d], Has(B[c][t], e), Has(B[d][u], e)
      PROVE  c = d /\ t = u
  <2>1. /\ <<c, t>> \in T /\ P[<<c, t>>] = B[c][t]
        /\ <<d, u>> \in T /\ P[<<d, u>>] = B[d][u]
    BY <1>2
  <2> QED
    BY <1>1, <1>6, <2>1 DEF Cuts
<1> QED
  BY <1>4, <1>5, <1>6 DEF CutsByCore

(* The order of the snake through the tiles of a problem.                  *)
SnakeAlong(s) == SnakeOrder(Loops(s)[2], Loops(s)[3], s)

(* It passes every row and column of tiles once.                           *)
LEMMA SnakeAlongPasses ==
    ASSUME NEW s \in AnyProblem
    PROVE  Passes(Loops(s)[2], Loops(s)[3], CoreLoops(s), SnakeAlong(s))
<1> DEFINE rows == Loops(s)[2]
           cols == Loops(s)[3]
<1>1. rows \in Nat \ {0} /\ cols \in Nat \ {0}
  BY ProblemFacts
<1> HIDE DEF rows, cols
<1> QED
  BY <1>1, SnakeSwizzledPasses DEF SnakeAlong, CoreLoops, rows, cols

(* A tile in that order, with some of the depth.                           *)
LEMMA AlongSnake ==
    ASSUME NEW s \in AnyProblem, NEW batch, NEW i \in 0..(CoreLoops(s) - 1), NEW K
    PROVE  [Along(s, batch, SnakeSwizzled(Loops(s)[2], Loops(s)[3], s, i)) EXCEPT ![4] = K]
             = BlockOf(s, SnakeAlong(s), batch, i, K)
<1> QED
  BY DEF BlockOf, Along, SnakeAlong, SnakeOrder, CoreLoops

(* How many tasks every core has.                                          *)
SingleCoreTasks(s) == [c \in 1..s.cores |-> SingleCoreLoops(s, c - 1)]

(* And their blocks.                                                       *)
SingleCoreBlocks(s) ==
    [c \in 1..s.cores |-> [t \in 1..SingleCoreLoops(s, c - 1) |-> SingleCoreSplitkBlock(s, c - 1, t - 1)]]

(* The blocks of a core, for every tile of the depth in turn.              *)
SingleCorePlace(s, c, t) == RunStart(CoreLoops(s), s.cores, c - 1) + ((t - 1) % RunLength(CoreLoops(s), s.cores, c - 1))

(* And the tile of the depth.                                              *)
SingleCoreSlice(s, c, t) == (t - 1) \div RunLength(CoreLoops(s), s.cores, c - 1)

(* A task of a core is about a place of its run and a tile of the depth,   *)
(* which have its number.                                                  *)
LEMMA SingleCoreTask ==
    ASSUME NEW s \in AnyProblem, NEW c \in 1..s.cores, NEW t \in 1..SingleCoreLoops(s, c - 1)
    PROVE  /\ SingleCorePlace(s, c, t) \in 0..(CoreLoops(s) - 1)
           /\ InRun(CoreLoops(s), s.cores, c - 1, SingleCorePlace(s, c, t))
           /\ SingleCoreSlice(s, c, t) \in 0..(Loops(s)[4] - 1)
           /\ RunLength(CoreLoops(s), s.cores, c - 1) \in Nat \ {0}
           /\ t = SingleCoreSlice(s, c, t) * RunLength(CoreLoops(s), s.cores, c - 1)
                  + (SingleCorePlace(s, c, t) - RunStart(CoreLoops(s), s.cores, c - 1)) + 1
           /\ SingleCoreSplitkBlock(s, c - 1, t - 1)
                = BlockOf(s, SnakeAlong(s), 0, SingleCorePlace(s, c, t), Extent(s, 4, SingleCoreSlice(s, c, t)))
<1> DEFINE n == CoreLoops(s)
           k == s.cores
           H == Loops(s)[4]
           core == c - 1
           f == RunStart(n, k, core)
           l == RunLength(n, k, core)
           m == (t - 1) % l
           y == (t - 1) \div l
           p == f + m
<1>1. n \in Nat \ {0} /\ k \in Nat \ {0} /\ H \in Nat \ {0}
  BY ProblemFacts
<1>2. core \in 0..(k - 1) /\ core \in Nat
  BY <1>1
<1>3. MNLoopRange(s, core).start = f /\ MNLoopRange(s, core).len = l
  <2> HIDE DEF core
  <2> QED
    BY <1>2, MNLoopRangeIs
<1>4. SingleCoreLoops(s, c - 1) = H * l
  BY <1>3 DEF SingleCoreLoops
<1>5. SingleCoreSplitkBlock(s, c - 1, t - 1)
        = [Along(s, 0, SnakeSwizzled(Loops(s)[2], Loops(s)[3], s, p)) EXCEPT ![4] = Extent(s, 4, y)]
  BY <1>3 DEF SingleCoreSplitkBlock
<1>6. p = SingleCorePlace(s, c, t) /\ y = SingleCoreSlice(s, c, t)
  BY DEF SingleCorePlace, SingleCoreSlice
<1> HIDE DEF n, k, H, core, p, y, m
<1>7. f \in Nat /\ l \in Nat /\ f + l <= n
  BY <1>1, <1>2, RunsFollow, RunEnds
<1> HIDE DEF f, l
<1>8. t \in 1..(H * l)
  BY <1>4
<1>9. l # 0
  <2>1. ASSUME l = 0
        PROVE  FALSE
    BY <1>1, <1>8, <2>1
  <2> QED
    BY <2>1
<1>10. y \in 0..(H - 1) /\ m \in 0..(l - 1) /\ t = y * l + m + 1
  BY <1>1, <1>7, <1>8, <1>9, TaskPair DEF y, m
<1>11. p \in 0..(n - 1) /\ InRun(n, k, core, p) /\ p - f = m
  BY <1>1, <1>7, <1>10 DEF p, InRun, f, l
<1>12. SingleCoreSplitkBlock(s, c - 1, t - 1) = BlockOf(s, SnakeAlong(s), 0, p, Extent(s, 4, y))
  BY <1>5, <1>11, AlongSnake DEF n
<1> QED
  BY <1>6, <1>7, <1>9, <1>10, <1>11, <1>12 DEF n, k, H, core, f, l

(* Every block, once for every tile of the depth.                          *)
LEMMA SingleCoreSplitkCuts ==
    ASSUME NEW s \in AnyProblem, s.shape[1] = 1
    PROVE  /\ SingleCoreTasks(s) \in [1..s.cores -> Nat]
           /\ CutsByCore(s.shape, s.cores, SingleCoreTasks(s), SingleCoreBlocks(s))
<1> DEFINE n == CoreLoops(s)
           k == s.cores
           H == Loops(s)[4]
           L == SingleCoreTasks(s)
           B == SingleCoreBlocks(s)
           T == CoreTasks(k, L)
           D == 0..(s.shape[4] - 1)
           Slice(x) == SingleCoreSlice(s, x[1], x[2])
           q == [x \in T |-> 0]
           p == [x \in T |-> SingleCorePlace(s, x[1], x[2])]
           K == [x \in T |-> Extent(s, 4, Slice(x))]
           P == [x \in T |-> B[x[1]][x[2]]]
<1>1. n \in Nat \ {0} /\ k \in Nat \ {0} /\ H \in Nat \ {0}
  BY ProblemFacts
<1>2. ASSUME NEW c \in 1..k
      PROVE  /\ L[c] = SingleCoreLoops(s, c - 1)
             /\ RunStart(n, k, c - 1) \in Nat /\ RunLength(n, k, c - 1) \in Nat
             /\ c - 1 \in 0..(k - 1)
             /\ L[c] = H * RunLength(n, k, c - 1) /\ L[c] \in Nat
  <2> DEFINE core == c - 1
             l == RunLength(n, k, core)
  <2>1. core \in 0..(k - 1) /\ core \in Nat
    BY <1>1
  <2>2. L[c] = SingleCoreLoops(s, core)
    BY DEF SingleCoreTasks
  <2> HIDE DEF core, n, H, L
  <2>3. SingleCoreLoops(s, core) = H * l
    BY <2>1, MNLoopRangeIs DEF SingleCoreLoops, H, n
  <2> HIDE DEF k, l
  <2>4. RunStart(n, k, core) \in Nat /\ l \in Nat
    BY <1>1, <2>1, RunsFollow DEF l
  <2> QED
    BY <1>1, <2>1, <2>2, <2>3, <2>4 DEF core, l
<1>3. L \in [1..k -> Nat]
  BY <1>2 DEF SingleCoreTasks
<1>4. ASSUME NEW x \in T
      PROVE  /\ q[x] = 0 /\ p[x] = SingleCorePlace(s, x[1], x[2]) /\ K[x] = Extent(s, 4, Slice(x))
             /\ P[x] = B[x[1]][x[2]]
  OBVIOUS
<1>5. ASSUME NEW x \in T
      PROVE  x = <<x[1], x[2]>> /\ x[1] \in 1..k /\ x[2] \in 1..L[x[1]] /\ x[2] \in Nat
  BY <1>2 DEF CoreTasks
<1>6. ASSUME NEW c \in 1..k, NEW t \in Nat, 1 <= t, t <= L[c]
      PROVE  <<c, t>> \in T
  BY <1>6 DEF CoreTasks
<1> HIDE DEF T
<1>7. ASSUME NEW x \in T
      PROVE  /\ x[1] - 1 \in 0..(k - 1)
             /\ p[x] \in 0..(n - 1) /\ InRun(n, k, x[1] - 1, p[x]) /\ Slice(x) \in 0..(H - 1)
             /\ RunLength(n, k, x[1] - 1) \in Nat \ {0}
             /\ x[2] = Slice(x) * RunLength(n, k, x[1] - 1) + (p[x] - RunStart(n, k, x[1] - 1)) + 1
             /\ P[x] = BlockOf(s, SnakeAlong(s), q[x], p[x], K[x])
  <2> DEFINE c == x[1]
             t == x[2]
  <2>1. c \in 1..s.cores /\ L[c] = SingleCoreLoops(s, c - 1) /\ t \in 1..SingleCoreLoops(s, c - 1)
        /\ c - 1 \in 0..(k - 1)
    BY <1>2, <1>5
  <2>2. P[x] = SingleCoreSplitkBlock(s, c - 1, t - 1)
    BY <1>4, <2>1 DEF SingleCoreBlocks
  <2> HIDE DEF c, t, P, p, q, K, B, L
  <2> QED
    BY <1>4, <2>1, <2>2, SingleCoreTask DEF c, t
<1>8. P = BlocksOf(s, T, SnakeAlong(s), q, p, K)
  BY <1>7 DEF BlocksOf
<1> HIDE DEF q, p, K, P, B, Slice, L, n, k, H, D
<1>9. ASSUME NEW v \in 0..(H - 1)
      PROVE  /\ Extent(s, 4, v) \subseteq D
             /\ \A d \in D : d \in Extent(s, 4, v) <=> v = d \div s.tile[4]
  BY ExtentIs DEF H, D
<1>10. Dealt(s, T, q, p, K)
  <2>1. ASSUME NEW x \in T
        PROVE  q[x] \in 0..(s.shape[1] - 1) /\ p[x] \in 0..(n - 1) /\ K[x] \subseteq D
    BY <1>4, <1>7, <1>9
  <2>2. ASSUME NEW b \in 0..(s.shape[1] - 1), NEW i \in 0..(n - 1), NEW d \in D
        PROVE  \E x \in T : q[x] = b /\ p[x] = i /\ d \in K[x]
    <3>1. PICK v \in 0..(k - 1) : InRun(n, k, v, i)
      BY <1>1, SomeRun
    <3> DEFINE c == v + 1
               f == RunStart(n, k, v)
               l == RunLength(n, k, v)
               y == d \div s.tile[4]
               m == i - f
               t == y * l + m + 1
    <3>2. c \in 1..k /\ c - 1 = v
      BY <1>1
    <3> HIDE DEF c
    <3>3. f \in Nat /\ l \in Nat /\ L[c] = H * l
      BY <1>2, <3>2
    <3>4. m \in 0..(l - 1) /\ l \in Nat \ {0} /\ i = f + m
      BY <1>1, <3>1, <3>3 DEF InRun
    <3>5. y \in 0..(H - 1)
      BY ExtentIs DEF D, H
    <3> HIDE DEF f, l, y, m
    <3>6. t \in 1..(H * l) /\ (t - 1) \div l = y /\ (t - 1) % l = m
      <4> HIDE DEF t
      <4>1. \A u \in 0..(H - 1), o \in 0..(l - 1) :
              /\ u * l + o + 1 \in 1..(H * l)
              /\ ((u * l + o + 1) - 1) \div l = u /\ ((u * l + o + 1) - 1) % l = o
        BY <1>1, <3>4, TaskPair
      <4> QED
        BY <3>4, <3>5, <4>1 DEF t
    <3> HIDE DEF t
    <3> DEFINE x == <<c, t>>
    <3>7. x \in T /\ x[1] = c /\ x[2] = t
      BY <1>1, <1>6, <3>2, <3>3, <3>4, <3>6
    <3> HIDE DEF x
    <3>8. Slice(x) = y /\ p[x] = i /\ q[x] = 0
      <4>1. SingleCorePlace(s, c, t) = f + ((t - 1) % l) /\ SingleCoreSlice(s, c, t) = (t - 1) \div l
        BY <3>2 DEF SingleCorePlace, SingleCoreSlice, f, l, n, k
      <4> QED
        BY <1>4, <3>4, <3>6, <3>7, <4>1 DEF Slice
    <3> QED
      BY <1>4, <1>9, <3>5, <3>7, <3>8 DEF y
  <2>3. ASSUME NEW x \in T, NEW z \in T, NEW d \in K[x], p[x] = p[z], d \in K[z]
        PROVE  x = z
    <3>1. x[1] = z[1]
      BY <1>1, <1>5, <1>7, <2>3, OneRun
    <3> QED
      BY <1>4, <1>5, <1>7, <1>9, <2>3, <3>1
  <2> QED
    BY <2>1, <2>2, <2>3 DEF Dealt, n, D
<1>11. CutsByCore(s.shape, k, L, B)
  <2>1. Cuts(s.shape, CoreTasks(k, L), [x \in CoreTasks(k, L) |-> B[x[1]][x[2]]])
    BY <1>8, <1>10, SnakeAlongPasses, DealtCuts DEF T, P
  <2> QED
    BY <1>1, <1>3, <2>1, CoreTasksCut
<1> QED
  BY <1>3, <1>11 DEF L, B, k

-----------------------------------------------------------------------------
(* Stream-k.                                                               *)

(* Numbers of two digits. *)
LEMMA PlacePair ==
    ASSUME NEW a \in Nat \ {0}, NEW b \in Nat \ {0}
    PROVE  /\ a * b \in Nat \ {0}
           /\ \A x \in 0..(a * b - 1) : /\ x \div b \in 0..(a - 1) /\ x % b \in 0..(b - 1)
                                        /\ x = (x \div b) * b + (x % b)
           /\ \A q \in 0..(a - 1), m \in 0..(b - 1) :
                /\ q * b + m \in 0..(a * b - 1)
                /\ (q * b + m) \div b = q /\ (q * b + m) % b = m
<1> DEFINE n == a * b
<1>1. /\ n \in Nat \ {0}
      /\ \A t \in 1..n :
           /\ (t - 1) \div b \in 0..(a - 1) /\ (t - 1) % b \in 0..(b - 1)
           /\ t = ((t - 1) \div b) * b + ((t - 1) % b) + 1
      /\ \A q \in 0..(a - 1), m \in 0..(b - 1) :
           /\ q * b + m + 1 \in 1..n
           /\ ((q * b + m + 1) - 1) \div b = q /\ ((q * b + m + 1) - 1) % b = m
  BY TaskPair
<1> HIDE DEF n
<1>2. ASSUME NEW x \in 0..(n - 1)
      PROVE  x \div b \in 0..(a - 1) /\ x % b \in 0..(b - 1) /\ x = (x \div b) * b + (x % b)
  <2> DEFINE t == x + 1
  <2>1. t \in 1..n /\ t - 1 = x
    BY <1>1
  <2> HIDE DEF t
  <2>2. x \div b \in 0..(a - 1) /\ x % b \in 0..(b - 1) /\ t = (x \div b) * b + (x % b) + 1
    BY <1>1, <2>1
  <2> QED
    BY <1>1, <2>1, <2>2
<1>3. ASSUME NEW q \in 0..(a - 1), NEW m \in 0..(b - 1)
      PROVE  q * b + m \in 0..(n - 1) /\ (q * b + m) \div b = q /\ (q * b + m) % b = m
  <2> DEFINE i == q * b + m
  <2>1. i + 1 \in 1..n /\ ((i + 1) - 1) \div b = q /\ ((i + 1) - 1) % b = m
    BY <1>1
  <2> HIDE DEF i
  <2> QED
    BY <1>1, <2>1 DEF i
<1> QED
  BY <1>1, <1>2, <1>3 DEF n

(* A tile along all axes. *)
Tile(s, batch, r, c, d) == <<{batch}, Extent(s, 2, r), Extent(s, 3, c), Extent(s, 4, d)>>

(* It lies within the problem, and has the elements whose tile it is along *)
(* every axis.                                                             *)
LEMMA TileIs ==
    ASSUME NEW s \in AnyProblem, NEW batch \in 0..(s.shape[1] - 1), NEW r \in 0..(Loops(s)[2] - 1),
           NEW c \in 0..(Loops(s)[3] - 1), NEW d \in 0..(Loops(s)[4] - 1)
    PROVE  /\ Inside(s.shape, Tile(s, batch, r, c, d))
           /\ \A e \in Elements(s.shape) :
                Has(Tile(s, batch, r, c, d), e)
                  <=> e[1] = batch /\ RowOf(s, e) = r /\ ColOf(s, e) = c /\ DepthOf(s, e) = d
<1> DEFINE K == Extent(s, 4, d)
<1>1. /\ K \subseteq 0..(s.shape[4] - 1)
      /\ \A x \in 0..(s.shape[4] - 1) : x \in K <=> d = x \div s.tile[4]
  BY ExtentIs
<1>2. Tile(s, batch, r, c, d) = <<{batch}, Extent(s, 2, r), Extent(s, 3, c), K>>
  BY DEF Tile
<1> HIDE DEF K
<1>3. ASSUME NEW e \in Elements(s.shape)
      PROVE  Has(<<{batch}, Extent(s, 2, r), Extent(s, 3, c), K>>, e)
               <=> e[1] = batch /\ RowOf(s, e) = r /\ ColOf(s, e) = c /\ DepthOf(s, e) = d
  <2>1. Has(<<{batch}, Extent(s, 2, r), Extent(s, 3, c), K>>, e)
          <=> e[1] = batch /\ RowOf(s, e) = r /\ ColOf(s, e) = c /\ e[4] \in K
    BY AlongHas
  <2> QED
    BY <1>1, <2>1, ElementFacts DEF DepthOf
<1> QED
  BY <1>1, <1>2, <1>3, AlongInside

(* Rows and columns of an image are the rows of the swizzle, and channels  *)
(* its columns.                                                            *)
LEMMA Conv2dCuts ==
    ASSUME NEW s \in AnyProblem
    PROVE  LET n == s.shape[1] * Conv2dCoreLoops(s)
           IN n \in Nat /\ Cuts(s.shape, 1..n, [t \in 1..n |-> Conv2dBlock(s, t - 1)])
<1> DEFINE a == s.shape[1]
           l2 == Loops(s)[2]
           l3 == Loops(s)[3]
           l4 == Loops(s)[4]
           w == l2 * l3
           b == w * l4
           n == a * b
           T == 1..n
           z == SwizzledOrder(w, l4, s)
           Q(t) == (t - 1) \div b
           M(t) == (t - 1) % b
           B == [t \in T |-> Conv2dBlock(s, t - 1)]
<1>1. a \in Nat \ {0} /\ l2 \in Nat \ {0} /\ l3 \in Nat \ {0} /\ l4 \in Nat \ {0}
  BY ProblemFacts
<1>2. b = Conv2dCoreLoops(s)
  BY DEF Conv2dCoreLoops
<1> HIDE DEF a, l2, l3, l4
<1>3. /\ w \in Nat \ {0}
      /\ \A x \in 0..(w - 1) : /\ x \div l3 \in 0..(l2 - 1) /\ x % l3 \in 0..(l3 - 1)
                               /\ x = (x \div l3) * l3 + (x % l3)
      /\ \A r \in 0..(l2 - 1), c \in 0..(l3 - 1) :
           /\ r * l3 + c \in 0..(w - 1)
           /\ (r * l3 + c) \div l3 = r /\ (r * l3 + c) % l3 = c
  BY <1>1, PlacePair
<1> HIDE DEF w
<1>4. Passes(w, l4, b, z)
  BY <1>1, <1>3, SwizzledPasses
<1>5. b \in Nat \ {0}
  BY <1>1, <1>3
<1>6. \A i \in 0..(b - 1) : z[i] = Swizzled(w, l4, s, i)
  BY DEF SwizzledOrder
<1> HIDE DEF b, z
<1>7. /\ n \in Nat \ {0}
      /\ \A t \in 1..n : /\ Q(t) \in 0..(a - 1) /\ M(t) \in 0..(b - 1)
                         /\ t = Q(t) * b + M(t) + 1
      /\ \A x \in 0..(a - 1), m \in 0..(b - 1) :
           x * b + m + 1 \in 1..n /\ Q(x * b + m + 1) = x /\ M(x * b + m + 1) = m
  <2> HIDE DEF B, T
  <2>1. /\ n \in Nat \ {0}
        /\ \A t \in 1..n :
             /\ (t - 1) \div b \in 0..(a - 1) /\ (t - 1) % b \in 0..(b - 1)
             /\ t = ((t - 1) \div b) * b + ((t - 1) % b) + 1
        /\ \A x \in 0..(a - 1), m \in 0..(b - 1) :
             /\ x * b + m + 1 \in 1..n
             /\ ((x * b + m + 1) - 1) \div b = x /\ ((x * b + m + 1) - 1) % b = m
    BY <1>1, <1>5, TaskPair
  <2> HIDE DEF n
  <2> QED
    BY <2>1
<1>8. \A t \in T : B[t] = Conv2dBlock(s, t - 1)
  OBVIOUS
<1> HIDE DEF n, B, Q, M
<1>9. ASSUME NEW t \in T
      PROVE  /\ z[M(t)][1] \in 0..(w - 1) /\ z[M(t)][2] \in 0..(l4 - 1)
             /\ B[t] = Tile(s, Q(t), z[M(t)][1] \div l3, z[M(t)][1] % l3, z[M(t)][2])
  <2>1. M(t) \in 0..(b - 1)
    BY <1>7
  <2>2. z[M(t)][1] \in 0..(w - 1) /\ z[M(t)][2] \in 0..(l4 - 1)
    BY <1>4, <2>1 DEF Passes
  <2>3. z[M(t)] = Swizzled(Loops(s)[2] * Loops(s)[3], Loops(s)[4], s, (t - 1) % Conv2dCoreLoops(s))
    BY <1>2, <1>6, <2>1 DEF M, w, l2, l3, l4
  <2>4. Q(t) = (t - 1) \div Conv2dCoreLoops(s)
    BY <1>2 DEF Q
  <2>5. B[t] = Tile(s, Q(t), z[M(t)][1] \div l3, z[M(t)][1] % l3, z[M(t)][2])
    BY <1>8, <2>3, <2>4 DEF Conv2dBlock, Tile, l3
  <2> QED
    BY <2>2, <2>5
<1>10. ASSUME NEW t \in T
       PROVE  /\ Inside(s.shape, B[t])
              /\ \A e \in Elements(s.shape) :
                   Has(B[t], e) <=> /\ e[1] = Q(t) /\ RowOf(s, e) = z[M(t)][1] \div l3
                                    /\ ColOf(s, e) = z[M(t)][1] % l3 /\ DepthOf(s, e) = z[M(t)][2]
  <2> DEFINE r == z[M(t)][1] \div l3
             c == z[M(t)][1] % l3
             d == z[M(t)][2]
             batch == Q(t)
  <2>1. r \in 0..(l2 - 1) /\ c \in 0..(l3 - 1) /\ d \in 0..(l4 - 1) /\ batch \in 0..(a - 1)
    BY <1>3, <1>7, <1>9
  <2>2. B[t] = Tile(s, batch, r, c, d)
    BY <1>9
  <2> HIDE DEF r, c, d, batch
  <2>3. /\ Inside(s.shape, Tile(s, batch, r, c, d))
        /\ \A e \in Elements(s.shape) :
             Has(Tile(s, batch, r, c, d), e)
               <=> e[1] = batch /\ RowOf(s, e) = r /\ ColOf(s, e) = c /\ DepthOf(s, e) = d
    BY <2>1, TileIs DEF a, l2, l3, l4
  <2> QED
    BY <2>2, <2>3 DEF r, c, d, batch
<1>11. ASSUME NEW e \in Elements(s.shape)
       PROVE  \E t \in T : Has(B[t], e)
  <2> DEFINE r == RowOf(s, e)
             c == ColOf(s, e)
             d == DepthOf(s, e)
             x == e[1]
  <2>1. r \in 0..(l2 - 1) /\ c \in 0..(l3 - 1) /\ d \in 0..(l4 - 1) /\ x \in 0..(a - 1)
    BY ElementFacts DEF a, l2, l3, l4
  <2> HIDE DEF r, c, d, x
  <2>2. r * l3 + c \in 0..(w - 1) /\ (r * l3 + c) \div l3 = r /\ (r * l3 + c) % l3 = c
    BY <1>3, <2>1
  <2>3. PICK m \in 0..(b - 1) : z[m][1] = r * l3 + c /\ z[m][2] = d
    BY <1>4, <2>1, <2>2 DEF Passes
  <2>4. PICK t \in T : Q(t) = x /\ M(t) = m
    BY <1>7, <2>1
  <2>5. Has(B[t], e) <=> /\ e[1] = Q(t) /\ RowOf(s, e) = z[M(t)][1] \div l3
                         /\ ColOf(s, e) = z[M(t)][1] % l3 /\ DepthOf(s, e) = z[M(t)][2]
    BY <1>10
  <2>6. z[M(t)][1] \div l3 = r /\ z[M(t)][1] % l3 = c
    BY <2>2, <2>3, <2>4
  <2>7. z[M(t)][2] = d
    BY <2>3, <2>4
  <2>8. Has(B[t], e)
    BY <2>4, <2>5, <2>6, <2>7 DEF r, c, d, x
  <2> QED
    BY <2>8
<1>12. ASSUME NEW e \in Elements(s.shape), NEW t \in T, NEW u \in T, Has(B[t], e), Has(B[u], e)
       PROVE  t = u
  <2> DEFINE y == z[M(t)][1]
             v == z[M(u)][1]
  <2>1. /\ Q(t) = Q(u) /\ y \div l3 = v \div l3 /\ y % l3 = v % l3
        /\ z[M(t)][2] = z[M(u)][2]
    BY <1>10, <1>12
  <2>2. y \in 0..(w - 1) /\ v \in 0..(w - 1)
    BY <1>9
  <2> HIDE DEF y, v
  <2>3. y = (y \div l3) * l3 + (y % l3) /\ v = (v \div l3) * l3 + (v % l3)
    BY <1>3, <2>2
  <2>4. y = v
    BY <2>1, <2>3
  <2>5. M(t) \in 0..(b - 1) /\ M(u) \in 0..(b - 1)
    BY <1>7
  <2>6. M(t) = M(u)
    BY <1>4, <2>1, <2>4, <2>5 DEF Passes, y, v
  <2>7. t = Q(t) * b + M(t) + 1 /\ u = Q(u) * b + M(u) + 1
    BY <1>7
  <2> QED
    BY <2>1, <2>6, <2>7
<1>13. Cuts(s.shape, T, B)
  BY <1>10, <1>11, <1>12 DEF Cuts
<1> QED
  BY <1>2, <1>7, <1>13 DEF n, B, a

(* Some tiles of the depth. *)
LEMMA DepthIs ==
    ASSUME NEW s \in AnyProblem, NEW from \in Nat, NEW to \in Nat
    PROVE  LET first == from * s.tile[4]
               beyond == to * s.tile[4]
               K == first..(IF beyond > s.shape[4] THEN s.shape[4] - 1 ELSE beyond - 1)
           IN /\ K \subseteq 0..(s.shape[4] - 1)
              /\ \A x \in 0..(s.shape[4] - 1) :
                   x \in K <=> from <= x \div s.tile[4] /\ x \div s.tile[4] < to
<1> DEFINE N == s.shape[4]
           H == s.tile[4]
           first == from * H
           beyond == to * H
           last == IF beyond > N THEN N - 1 ELSE beyond - 1
<1>1. N \in Nat \ {0} /\ H \in Nat \ {0}
  BY ProblemFacts
<1> HIDE DEF N, H
<1>2. first \in Nat /\ beyond \in Nat
  BY <1>1
<1>3. ASSUME NEW x \in 0..(N - 1)
      PROVE  /\ (first <= x <=> from <= x \div H) /\ (beyond <= x <=> to <= x \div H)
             /\ x \div H \in Nat /\ x \in Nat
  <2> QED
    BY <1>1, QuotientAtLeast, Division
<1> HIDE DEF first, beyond
<1>4. ASSUME NEW x \in 0..(N - 1)
      PROVE  x \in first..last <=> from <= x \div H /\ x \div H < to
  <2> DEFINE y == x \div H
  <2>1. (first <= x <=> from <= y) /\ (beyond <= x <=> to <= y) /\ y \in Nat /\ x \in Nat
    BY <1>3
  <2> HIDE DEF y
  <2> QED
    BY <1>1, <1>2, <2>1 DEF y
<1> QED
  BY <1>1, <1>2, <1>4 DEF first, beyond, N, H

(* Less than all tiles end before the end of the depth.                    *)
LEMMA DepthEnds ==
    ASSUME NEW s \in AnyProblem, NEW to \in Nat, to < Loops(s)[4]
    PROVE  to * s.tile[4] < s.shape[4] /\ to * s.tile[4] \in Nat
<1> DEFINE N == s.shape[4]
           H == s.tile[4]
           L == Loops(s)[4]
<1>1. N \in Nat \ {0} /\ H \in Nat \ {0} /\ L \in Nat \ {0} /\ L = CeilDiv(N, H)
  BY ProblemFacts
<1>2. to + 1 <= L
  BY <1>1
<1> HIDE DEF N, H, L
<1>3. (to + 1) * H <= L * H
  BY <1>1, <1>2, MultiplyMono
<1>4. (to + 1) * H = to * H + H /\ to * H \in Nat
  BY <1>1
<1>5. to * H < N
  BY <1>1, <1>3, <1>4, CeilDivFacts
<1> QED
  BY <1>4, <1>5 DEF N, H

(* A run of no more tiles than a block has is in that of its first tile,   *)
(* and the next one.                                                       *)
InTiles(H, a, m, cur, b, y) ==
    a * H + m <= b * H + y /\ b * H + y < a * H + m + cur

(* Such a run has the tiles from its first one, and of the next block      *)
(* those up to its end.                                                    *)
LEMMA TwoBlocks ==
    ASSUME NEW H \in Nat \ {0}, NEW a \in Nat, NEW m \in 0..(H - 1), NEW cur \in 1..H,
           NEW b \in Nat, NEW y \in 0..(H - 1)
    PROVE  InTiles(H, a, m, cur, b, y)
             <=> (b = a /\ m <= y /\ y < m + cur) \/ (b = a + 1 /\ y < m + cur - H)
<1> DEFINE A == a * H
           B == b * H
<1>1. A \in Nat /\ B \in Nat
  OBVIOUS
<1>2. b = a => B = A
  OBVIOUS
<1>3. b = a + 1 => B = A + H
  <2> QED
    OBVIOUS
<1>4. b + 1 <= a => B + H <= A
  <2> QED
    BY MultiplyMono
<1>5. a + 2 <= b => A + H + H <= B
  <2> QED
    BY MultiplyMono
<1>6. InTiles(H, a, m, cur, b, y) <=> A + m <= B + y /\ B + y < A + m + cur
  BY DEF InTiles
<1> HIDE DEF A, B
<1>7. CASE b = a
  BY <1>1, <1>2, <1>6, <1>7
<1>8. CASE b = a + 1
  BY <1>1, <1>3, <1>6, <1>8
<1>9. CASE b + 1 <= a
  BY <1>1, <1>4, <1>6, <1>9
<1>10. CASE a + 2 <= b
  BY <1>1, <1>5, <1>6, <1>10
<1> QED
  BY <1>7, <1>8, <1>9, <1>10

(* The runs that are not empty are the first ones.                         *)
LEMMA RunsInUse ==
    ASSUME NEW n \in Nat, NEW k \in Nat \ {0}, NEW v \in 0..(k - 1)
    PROVE  v < AtMost(n, k) <=> RunLength(n, k, v) # 0
<1> DEFINE q == n \div k
           r == n % k
<1>1. q \in Nat /\ r \in 0..(k - 1) /\ n = q * k + r
  BY Division
<1>2. RunLength(n, k, v) = q + (IF v < r THEN 1 ELSE 0)
  BY DEF RunLength
<1>3. n < k => q = 0 /\ r = n
  <2> SUFFICES ASSUME n < k
               PROVE  q = 0 /\ r = n
    OBVIOUS
  <2> QED
    BY Quotient
<1>4. k <= n => 1 <= q
  <2> QED
    BY DivisionMono
<1> HIDE DEF q, r
<1>5. CASE n < k
  BY <1>1, <1>2, <1>3, <1>5 DEF AtMost
<1>6. CASE k <= n
  <2> QED
    BY <1>1, <1>2, <1>4, <1>6 DEF AtMost
<1> QED
  BY <1>5, <1>6

(* The tiles of the blocks that are cut.                                   *)
StreamkTiles(s) == StreamkBlockNum(s) * Loops(s)[4]

(* Every core that is in use has a run of them, of at least one.           *)
StreamkCores(s) == AtMost(StreamkTiles(s), s.cores)

(* The first of them.                                                      *)
StreamkFirst(s, v) == RunStart(StreamkTiles(s), s.cores, v)

(* And how many.                                                           *)
StreamkLength(s, v) == RunLength(StreamkTiles(s), s.cores, v)

(* Fewer blocks are cut than there are cores, and the others are whole;    *)
(* the cores in use are no more than the cores.                            *)
LEMMA StreamkFacts ==
    ASSUME NEW s \in AnyProblem
    PROVE  /\ StreamkBlockNum(s) \in 0..(s.cores - 1)
           /\ NormalBlockNum(s) \in Nat
           /\ CoreLoops(s) = NormalBlockNum(s) + StreamkBlockNum(s)
           /\ StreamkTiles(s) \in Nat
           /\ StreamkTiles(s) = StreamkBlockNum(s) * Loops(s)[4]
           /\ StreamkCores(s) \in Nat /\ StreamkCores(s) <= s.cores
           /\ StreamkCoreLoops(s) = NormalBlockNum(s) + StreamkCores(s)
           /\ CoreLoops(s) <= StreamkCoreLoops(s)
           /\ StreamkTiles(s) <= (s.cores - 1) * Loops(s)[4]
<1> DEFINE n == CoreLoops(s)
           k == s.cores
           H == Loops(s)[4]
           q == n \div k
           R == n % k
           W == R * H
<1>1. n \in Nat \ {0} /\ k \in Nat \ {0} /\ H \in Nat \ {0}
  BY ProblemFacts
<1>2. StreamkBlockNum(s) = R /\ NormalBlockNum(s) = n - R
  BY DEF StreamkBlockNum, NormalBlockNum
<1>3. StreamkCoreLoops(s) = q * k + (IF W < k THEN W ELSE k)
  BY <1>2 DEF StreamkCoreLoops
<1>4. StreamkTiles(s) = W /\ StreamkCores(s) = AtMost(W, k)
  BY <1>2 DEF StreamkTiles, StreamkCores
<1> HIDE DEF n, k, H
<1>5. q \in Nat /\ R \in 0..(k - 1) /\ n = q * k + R
  BY <1>1, Division
<1> HIDE DEF q, R
<1>6. W \in Nat /\ R <= W
  BY <1>1, <1>5, MultiplyMono
<1>7. W <= (k - 1) * H
  BY <1>1, <1>5, MultiplyMono
<1>8. q * k \in Nat
  BY <1>1, <1>5
<1> DEFINE N0 == q * k
<1> HIDE DEF W, N0
<1>9. N0 \in Nat /\ n = N0 + R /\ n - R = N0
  BY <1>5, <1>8 DEF N0
<1>10. AtMost(W, k) = IF W < k THEN W ELSE k
  BY DEF AtMost
<1>11. AtMost(W, k) \in Nat /\ AtMost(W, k) <= k /\ R <= AtMost(W, k)
  BY <1>1, <1>5, <1>6, <1>10
<1>12. StreamkCoreLoops(s) = N0 + AtMost(W, k)
  BY <1>3, <1>10 DEF N0
<1>13. n <= N0 + AtMost(W, k)
  BY <1>5, <1>9, <1>11
<1>14. StreamkBlockNum(s) * Loops(s)[4] = W
  BY <1>2 DEF W, H
<1> QED
  BY <1>2, <1>4, <1>5, <1>6, <1>7, <1>9, <1>11, <1>12, <1>13, <1>14 DEF n, k, H

(* The place of a block is not changed by the remainder that is taken.     *)
LEMMA StreamkCoordIs ==
    ASSUME NEW s \in AnyProblem, NEW i \in 0..(CoreLoops(s) - 1)
    PROVE  StreamkCoord(s, i) = Swizzled(Loops(s)[2], Loops(s)[3], s, i)
<1> DEFINE G == StreamkCoreLoops(s)
<1>1. CoreLoops(s) \in Nat \ {0} /\ CoreLoops(s) <= G /\ G \in Nat
  BY ProblemFacts, StreamkFacts
<1>2. StreamkCoord(s, i) = Swizzled(Loops(s)[2], Loops(s)[3], s, i % G)
  BY DEF StreamkCoord
<1> HIDE DEF G
<1> QED
  BY <1>1, <1>2, Quotient

(* A task before those that are cut is about one whole block.              *)
LEMMA StreamkNormal ==
    ASSUME NEW s \in AnyProblem, NEW t \in 0..(NormalBlockNum(s) - 1)
    PROVE  /\ t \in 0..(CoreLoops(s) - 1)
           /\ StreamkBlocks(s, t) = <<BlockOf(s, Order(s), 0, t, 0..(s.shape[4] - 1))>>
<1>1. t \in 0..(CoreLoops(s) - 1) /\ t < NormalBlockNum(s)
  BY StreamkFacts
<1> QED
  BY <1>1, StreamkCoordIs, AlongOrder DEF StreamkBlocks

(* What a core has of the block of its first tile, and of the next one.    *)
StreamkFirstBlock(s, v) == StreamkFirst(s, v) \div Loops(s)[4]

(* The first tile that it has of the block.                                *)
StreamkFirstTile(s, v) == StreamkFirst(s, v) % Loops(s)[4]

(* Where its run ends, counted from the beginning of the block.            *)
StreamkEnd(s, v) == StreamkFirstTile(s, v) + StreamkLength(s, v)

(* A run begins in a block that is cut, is not longer than the depth, and  *)
(* ends in that block or in the next one, which is cut too.                *)
StreamkRuns(s, v) ==
    /\ StreamkFirst(s, v) = StreamkFirstBlock(s, v) * Loops(s)[4] + StreamkFirstTile(s, v)
    /\ StreamkFirstBlock(s, v) \in 0..(StreamkBlockNum(s) - 1)
    /\ StreamkFirstTile(s, v) \in 0..(Loops(s)[4] - 1)
    /\ StreamkLength(s, v) \in 1..Loops(s)[4]
    /\ StreamkEnd(s, v) > Loops(s)[4] =>
         /\ StreamkFirstBlock(s, v) + 1 \in 0..(StreamkBlockNum(s) - 1)
         /\ (StreamkFirst(s, v) + StreamkLength(s, v)) \div Loops(s)[4] = StreamkFirstBlock(s, v) + 1
         /\ (StreamkFirst(s, v) + StreamkLength(s, v)) % Loops(s)[4] = StreamkEnd(s, v) - Loops(s)[4]

(* The runs of the cores in use are like that.                             *)
LEMMA StreamkRun ==
    ASSUME NEW s \in AnyProblem, NEW v \in 0..(StreamkCores(s) - 1)
    PROVE  StreamkRuns(s, v)
<1> DEFINE k == s.cores
           H == Loops(s)[4]
           R == StreamkBlockNum(s)
           W == StreamkTiles(s)
           f == StreamkFirst(s, v)
           l == StreamkLength(s, v)
           a == StreamkFirstBlock(s, v)
           m == StreamkFirstTile(s, v)
<1>1. /\ k \in Nat \ {0} /\ H \in Nat \ {0} /\ R \in 0..(k - 1) /\ W \in Nat /\ W = R * H
      /\ W <= (k - 1) * H /\ v \in 0..(k - 1) /\ v < AtMost(W, k)
  BY ProblemFacts, StreamkFacts DEF StreamkCores
<1>2. f = RunStart(W, k, v) /\ l = RunLength(W, k, v)
  BY DEF StreamkFirst, StreamkLength
<1>3. a = f \div H /\ m = f % H
  BY DEF StreamkFirstBlock, StreamkFirstTile
<1> HIDE DEF k, H, R, W, f, l, a, m
<1>4. f \in Nat /\ l \in Nat /\ f + l <= W
  BY <1>1, <1>2, RunsFollow, RunEnds
<1>5. l # 0
  BY <1>1, <1>2, RunsInUse
<1>6. l <= H
  <2> DEFINE q == W \div k
             r == W % k
  <2>1. q \in Nat /\ r \in 0..(k - 1) /\ W = q * k + r
    BY <1>1, Division
  <2> HIDE DEF q, r
  <2>2. q < H
    <3> SUFFICES ASSUME H <= q
                 PROVE  FALSE
      BY <1>1, <2>1
    <3>1. H * k <= q * k
      BY <1>1, <2>1, MultiplyMono
    <3> QED
      BY <1>1, <2>1, <3>1
  <2> QED
    BY <1>1, <1>2, <2>1, <2>2 DEF RunLength
<1>7. a \in Nat /\ m \in 0..(H - 1) /\ f = a * H + m
  BY <1>1, <1>3, <1>4, Division
<1>8. a < R
  BY <1>1, <1>4, <1>5, <1>7, MultiplyLess
<1>9. ASSUME m + l > H
      PROVE  /\ a + 1 < R
             /\ (f + l) \div H = a + 1
             /\ (f + l) % H = m + l - H
  <2> DEFINE d == m + l - H
             c == a + 1
  <2>1. d \in 0..(H - 1) /\ c \in Nat /\ d # 0
    BY <1>1, <1>4, <1>6, <1>7, <1>9
  <2>2. c * H = a * H + H /\ a * H \in Nat
    BY <1>1, <1>7
  <2>3. f + l = c * H + d
    BY <1>1, <1>4, <1>7, <2>2
  <2> HIDE DEF d, c
  <2>4. (c * H + d) \div H = c /\ (c * H + d) % H = d
    BY <1>1, <2>1, Quotient
  <2>5. c * H < R * H
    <3>1. c * H \in Nat
      BY <1>1, <2>1
    <3> QED
      BY <1>1, <1>4, <2>1, <2>3, <3>1
  <2> QED
    BY <1>1, <2>1, <2>3, <2>4, <2>5, MultiplyLess DEF c, d
<1>10. a \in 0..(R - 1) /\ l \in 1..H /\ (m + l > H => a + 1 \in 0..(R - 1))
  BY <1>1, <1>4, <1>5, <1>6, <1>7, <1>8, <1>9
<1>11. /\ f = a * H + m /\ a \in 0..(R - 1) /\ m \in 0..(H - 1) /\ l \in 1..H
       /\ (m + l > H => /\ a + 1 \in 0..(R - 1) /\ (f + l) \div H = a + 1
                        /\ (f + l) % H = m + l - H)
  BY <1>7, <1>9, <1>10
<1> DEFINE E == StreamkEnd(s, v)
<1>12. E = m + l
  BY DEF StreamkEnd, m, l
<1> HIDE DEF E
<1>13. E > H => a + 1 \in 0..(R - 1)
  BY <1>11, <1>12
<1>14. E > H => (f + l) \div H = a + 1
  BY <1>11, <1>12
<1>15. E > H => (f + l) % H = E - H
  BY <1>1, <1>11, <1>12
<1>16. f = a * H + m /\ a \in 0..(R - 1) /\ m \in 0..(H - 1) /\ l \in 1..H
  BY <1>11
<1> QED
  BY <1>13, <1>14, <1>15, <1>16, Zenon DEF StreamkRuns, E, H, R, f, l, a, m

(* Two sequences of one element. *)
LEMMA PairOf ==
    ASSUME NEW x, NEW y
    PROVE  <<x>> \o <<y>> = <<x, y>>
<1>1. ASSUME NEW S, NEW p \in Seq(S), NEW q \in Seq(S), Len(p) = 1, Len(q) = 1
      PROVE  p \o q = <<p[1], q[1]>>
  <2> DEFINE c == p \o q
  <2>1. c \in Seq(S)
    OBVIOUS
  <2>2. Len(c) = 2
    BY <1>1
  <2>3. c[1] = p[1] /\ c[2] = q[1]
    BY <1>1
  <2>4. p[1] \in S /\ q[1] \in S
    <3>1. 1 \in 1..Len(p) /\ 1 \in 1..Len(q)
      BY <1>1
    <3>2. \A i \in 1..Len(p) : p[i] \in S
      OBVIOUS
    <3>3. \A i \in 1..Len(q) : q[i] \in S
      OBVIOUS
    <3> QED
      BY <3>1, <3>2, <3>3
  <2> HIDE DEF c
  <2>5. c = <<p[1], q[1]>>
    BY <2>1, <2>2, <2>3, <2>4
  <2> QED
    BY <2>5 DEF c
<1> DEFINE S == {x, y}
           p == <<x>>
           q == <<y>>
<1>2. p \in Seq(S) /\ q \in Seq(S) /\ Len(p) = 1 /\ Len(q) = 1 /\ p[1] = x /\ q[1] = y
  OBVIOUS
<1> HIDE DEF S, p, q
<1>3. p \o q = <<x, y>>
  BY <1>1, <1>2
<1> QED
  BY <1>3 DEF p, q

(* Of the block of its first tile, and of the one after it.                *)
StreamkDepth(s, v) ==
    LET first == StreamkFirstTile(s, v) * s.tile[4]
        beyond == StreamkEnd(s, v) * s.tile[4]
    IN first..(IF beyond > s.shape[4] THEN s.shape[4] - 1 ELSE beyond - 1)

(* What it has of the depth of the next block.                             *)
StreamkRest(s, v) == 0..((StreamkEnd(s, v) - Loops(s)[4]) * s.tile[4] - 1)

(* These are the elements of the depth whose tiles are in the run.         *)
LEMMA StreamkDepths ==
    ASSUME NEW s \in AnyProblem, NEW v \in 0..(StreamkCores(s) - 1)
    PROVE  /\ StreamkDepth(s, v) \subseteq 0..(s.shape[4] - 1)
           /\ \A x \in 0..(s.shape[4] - 1) :
                x \in StreamkDepth(s, v)
                  <=> StreamkFirstTile(s, v) <= x \div s.tile[4] /\ x \div s.tile[4] < StreamkEnd(s, v)
           /\ StreamkEnd(s, v) > Loops(s)[4] =>
                /\ StreamkRest(s, v) \subseteq 0..(s.shape[4] - 1)
                /\ \A x \in 0..(s.shape[4] - 1) :
                     x \in StreamkRest(s, v) <=> x \div s.tile[4] < StreamkEnd(s, v) - Loops(s)[4]
<1> DEFINE m == StreamkFirstTile(s, v)
           l == StreamkLength(s, v)
           E == StreamkEnd(s, v)
           H == Loops(s)[4]
           D == 0..(s.shape[4] - 1)
           d == E - H
<1>1. H \in Nat \ {0} /\ s.tile[4] \in Nat \ {0} /\ s.shape[4] \in Nat \ {0}
  BY ProblemFacts
<1>2. m \in 0..(H - 1) /\ l \in 1..H
  BY StreamkRun DEF StreamkRuns
<1>3. E = m + l
  BY DEF StreamkEnd
<1> HIDE DEF m, l, E, H
<1>4. m \in Nat /\ E \in Nat /\ E < H + H
  BY <1>1, <1>2, <1>3
<1>5. ASSUME E > H
      PROVE  /\ StreamkRest(s, v) \subseteq D
             /\ \A x \in D : x \in StreamkRest(s, v) <=> x \div s.tile[4] < d
  <2>1. d \in Nat /\ d < H
    BY <1>1, <1>4, <1>5
  <2>2. StreamkRest(s, v) = 0..(d * s.tile[4] - 1)
    BY DEF StreamkRest, E, H
  <2> HIDE DEF d, D
  <2> DEFINE K == (0 * s.tile[4])..(IF d * s.tile[4] > s.shape[4] THEN s.shape[4] - 1 ELSE d * s.tile[4] - 1)
  <2>3. K \subseteq D /\ \A x \in D : x \in K <=> 0 <= x \div s.tile[4] /\ x \div s.tile[4] < d
    <3> QED
      BY <2>1, DepthIs DEF D
  <2>4. K = StreamkRest(s, v)
    <3> QED
      BY <1>1, <2>1, <2>2, DepthEnds DEF H
  <2> HIDE DEF K
  <2>5. ASSUME NEW x \in D
        PROVE  0 <= x \div s.tile[4]
    <3>1. x \in Nat
      BY <1>1 DEF D
    <3>2. x \div s.tile[4] \in Nat
      BY <1>1, <3>1, Division
    <3> QED
      BY <3>2
  <2> QED
    BY <2>3, <2>4, <2>5
<1> QED
  BY <1>4, <1>5, DepthIs DEF m, E, H, StreamkDepth

(* Block b of those that are cut, with some of the depth.                  *)
StreamkBlock(s, b, K) == BlockOf(s, Order(s), 0, NormalBlockNum(s) + b, K)

(* What a core gets of them: a part of one block, or of two.               *)
StreamkPieces(s, v) ==
    IF StreamkEnd(s, v) > Loops(s)[4]
    THEN <<StreamkBlock(s, StreamkFirstBlock(s, v), StreamkDepth(s, v)),
           StreamkBlock(s, StreamkFirstBlock(s, v) + 1, StreamkRest(s, v))>>
    ELSE <<StreamkBlock(s, StreamkFirstBlock(s, v), StreamkDepth(s, v))>>

(* StreamkCoord says where the block is.                                   *)
LEMMA StreamkBlockIs ==
    ASSUME NEW s \in AnyProblem, NEW b \in 0..(StreamkBlockNum(s) - 1), NEW K
    PROVE  [Along(s, 0, StreamkCoord(s, NormalBlockNum(s) + b)) EXCEPT ![4] = K] = StreamkBlock(s, b, K)
<1> DEFINE i == NormalBlockNum(s) + b
<1>1. i \in 0..(CoreLoops(s) - 1)
  BY StreamkFacts
<1> HIDE DEF i
<1> QED
  BY <1>1, StreamkCoordIs, AlongOrder DEF StreamkBlock, i

(* The blocks of a core that has part of the blocks that are cut.          *)
LEMMA StreamkPiecesAre ==
    ASSUME NEW s \in AnyProblem, NEW v \in 0..(StreamkCores(s) - 1)
    PROVE  StreamkBlocks(s, NormalBlockNum(s) + v) = StreamkPieces(s, v)
<1> DEFINE k == s.cores
           H == Loops(s)[4]
           W == StreamkTiles(s)
           N0 == NormalBlockNum(s)
           f == StreamkFirst(s, v)
           l == StreamkLength(s, v)
           a == StreamkFirstBlock(s, v)
           m == StreamkFirstTile(s, v)
           E == StreamkEnd(s, v)
           loopIdx == N0 + v
           n == loopIdx - N0
           cur == KTileNumPerCore(s) + (IF n < KTileRemain(s) THEN 1 ELSE 0)
           idx == IF n < KTileRemain(s) THEN n * cur ELSE n * KTileNumPerCore(s) + KTileRemain(s)
           first == (idx % H) * s.tile[4]
           beyond == ((idx % H) + cur) * s.tile[4]
           last == IF beyond > s.shape[4] THEN s.shape[4] - 1 ELSE beyond - 1
           Block(b, K) == [Along(s, 0, StreamkCoord(s, N0 + b)) EXCEPT ![4] = K]
<1>1. /\ N0 \in Nat /\ W \in Nat /\ k \in Nat \ {0} /\ W = StreamkBlockNum(s) * H
      /\ v \in Nat /\ v < k
  BY ProblemFacts, StreamkFacts
<1>2. StreamkBlocks(s, loopIdx) =
        IF loopIdx < N0 THEN <<Along(s, 0, StreamkCoord(s, loopIdx))>>
        ELSE <<Block(idx \div H, first..last)>>
             \o (IF (idx % H) + cur > H
                 THEN <<Block((idx + cur) \div H, 0..(((idx + cur) % H) * s.tile[4] - 1))>>
                 ELSE <<>>)
  <2> HIDE DEF Block
  <2> QED
    BY DEF StreamkBlocks, Block
<1>3. n = v /\ ~(loopIdx < N0)
  <2> HIDE DEF N0
  <2> QED
    BY <1>1
<1>4. cur = l /\ idx = f
  <2> DEFINE q == W \div k
             r == W % k
  <2>1. f = v * q + (IF v < r THEN v ELSE r) /\ l = q + (IF v < r THEN 1 ELSE 0)
    BY DEF StreamkFirst, StreamkLength, RunStart, RunLength
  <2>2. cur = q + (IF v < r THEN 1 ELSE 0) /\ idx = IF v < r THEN v * (q + (IF v < r THEN 1 ELSE 0)) ELSE v * q + r
    BY <1>3 DEF KTileNumPerCore, KTileRemain, StreamkTiles
  <2> HIDE DEF f, l, cur, idx, W, k
  <2>3. q \in Nat /\ r \in Nat
    <3>1. W \in Nat /\ k \in Nat \ {0}
      BY <1>1
    <3>2. q \in Nat /\ r \in 0..(k - 1)
      BY <3>1, Division
    <3> QED
      BY <3>1, <3>2
  <2> HIDE DEF q, r
  <2>4. CASE v < r
    BY <1>1, <2>1, <2>2, <2>3, <2>4
  <2>5. CASE ~(v < r)
    BY <2>1, <2>2, <2>3, <2>5
  <2> QED
    BY <2>4, <2>5
<1>5. f \div H = a /\ f % H = m /\ m + l = E
  BY DEF StreamkFirstBlock, StreamkFirstTile, StreamkEnd
<1>6. first..last = StreamkDepth(s, v)
  BY <1>4, <1>5 DEF StreamkDepth
<1> HIDE DEF loopIdx, n, cur, idx, first, last, beyond, Block, f, l, a, m, E, H, N0
<1>7. StreamkRuns(s, v)
  BY StreamkRun
<1>8. Block(a, StreamkDepth(s, v)) = StreamkBlock(s, a, StreamkDepth(s, v))
  BY <1>7, StreamkBlockIs DEF Block, N0, StreamkRuns, a
<1>9. CASE E > H
  <2>1. a + 1 \in 0..(StreamkBlockNum(s) - 1) /\ (f + l) \div H = a + 1 /\ (f + l) % H = E - H
    BY <1>7, <1>9 DEF StreamkRuns, a, f, l, E, H
  <2>2. Block(a + 1, StreamkRest(s, v)) = StreamkBlock(s, a + 1, StreamkRest(s, v))
    BY <2>1, StreamkBlockIs DEF Block, N0
  <2>3. StreamkBlocks(s, loopIdx) =
          <<Block(a, StreamkDepth(s, v))>> \o <<Block(a + 1, StreamkRest(s, v))>>
    <3>1. (idx % H) + cur > H
      BY <1>4, <1>5, <1>9
    <3>2. Block(idx \div H, first..last) = Block(a, StreamkDepth(s, v))
      BY <1>4, <1>5, <1>6
    <3>3. Block((idx + cur) \div H, 0..(((idx + cur) % H) * s.tile[4] - 1)) = Block(a + 1, StreamkRest(s, v))
      <4> QED
        BY <1>4, <2>1, Zenon DEF StreamkRest, E, H
    <3> QED
      BY <1>2, <1>3, <3>1, <3>2, <3>3, Zenon
  <2>4. StreamkBlocks(s, loopIdx) = <<Block(a, StreamkDepth(s, v)), Block(a + 1, StreamkRest(s, v))>>
    <3> QED
      BY <2>3, PairOf
  <2> QED
    BY <1>8, <1>9, <2>2, <2>4 DEF StreamkPieces, E, H, a, loopIdx, N0
<1>10. CASE ~(E > H)
  <2>1. StreamkBlocks(s, loopIdx) = <<Block(a, StreamkDepth(s, v))>> \o << >>
    BY <1>2, <1>3, <1>4, <1>5, <1>6, <1>10
  <2> QED
    BY <1>8, <1>10, <2>1 DEF StreamkPieces, E, H, a, loopIdx, N0
<1> QED
  BY <1>9, <1>10

(* The i-th block of a task, of the blocks that are not cut or of a run.   *)
StreamkRunOf(s, t) == t - 1 - NormalBlockNum(s)

(* Its place in the order of the swizzle.                                  *)
StreamkPlace(s, t, i) ==
    IF t <= NormalBlockNum(s) THEN t - 1
    ELSE NormalBlockNum(s) + (StreamkFirstBlock(s, StreamkRunOf(s, t)) + (i - 1))

(* And what it has of the depth.                                           *)
StreamkPart(s, t, i) ==
    IF t <= NormalBlockNum(s) THEN 0..(s.shape[4] - 1)
    ELSE IF i = 1 THEN StreamkDepth(s, StreamkRunOf(s, t)) ELSE StreamkRest(s, StreamkRunOf(s, t))

(* Tile y of block b is in a run. *)
StreamkHas(s, v, b, y) == InRun(StreamkTiles(s), s.cores, v, b * Loops(s)[4] + y)

(* A tile is in a run as that of its first block or of the next one.       *)
LEMMA StreamkHasIs ==
    ASSUME NEW s \in AnyProblem, NEW v \in 0..(StreamkCores(s) - 1),
           NEW b \in Nat, NEW y \in 0..(Loops(s)[4] - 1)
    PROVE  StreamkHas(s, v, b, y) <=>
             \/ /\ b = StreamkFirstBlock(s, v)
                /\ StreamkFirstTile(s, v) <= y /\ y < StreamkEnd(s, v)
             \/ b = StreamkFirstBlock(s, v) + 1 /\ y < StreamkEnd(s, v) - Loops(s)[4]
<1> DEFINE H == Loops(s)[4]
           f == StreamkFirst(s, v)
           l == StreamkLength(s, v)
           a == StreamkFirstBlock(s, v)
           m == StreamkFirstTile(s, v)
           E == StreamkEnd(s, v)
<1>1. H \in Nat \ {0}
  BY ProblemFacts
<1>2. f = a * H + m /\ a \in Nat /\ m \in 0..(H - 1) /\ l \in 1..H
  BY StreamkRun DEF StreamkRuns
<1>3. E = m + l
  BY DEF StreamkEnd
<1>4. StreamkHas(s, v, b, y) <=> f <= b * H + y /\ b * H + y < f + l
  BY DEF StreamkHas, InRun, StreamkFirst, StreamkLength
<1> HIDE DEF H, f, l, a, m, E
<1>5. StreamkHas(s, v, b, y) <=> (b = a /\ m <= y /\ y < E) \/ (b = a + 1 /\ y < E - H)
  <2>1. m + l - H = E - H
    BY <1>1, <1>2, <1>3
  <2> QED
    BY <1>1, <1>2, <1>3, <1>4, <2>1, TwoBlocks DEF InTiles, H
<1> QED
  BY <1>5 DEF H, a, m, E

(* A tile of a block that is cut is in a run that is in use.               *)
LEMMA StreamkSome ==
    ASSUME NEW s \in AnyProblem, NEW b \in 0..(StreamkBlockNum(s) - 1),
           NEW y \in 0..(Loops(s)[4] - 1)
    PROVE  \E v \in 0..(StreamkCores(s) - 1) : StreamkHas(s, v, b, y)
<1> DEFINE k == s.cores
           H == Loops(s)[4]
           R == StreamkBlockNum(s)
           W == StreamkTiles(s)
           g == b * H + y
<1>1. k \in Nat \ {0} /\ H \in Nat \ {0} /\ R \in Nat /\ W \in Nat /\ W = R * H
  BY ProblemFacts, StreamkFacts
<1>2. b \in Nat /\ b < R /\ y \in Nat /\ y < H
  BY <1>1
<1> HIDE DEF k, H, R, W
<1>3. g \in Nat /\ g < R * H
  BY <1>1, <1>2, Digits
<1> HIDE DEF g
<1>4. PICK v \in 0..(k - 1) : InRun(W, k, v, g)
  BY <1>1, <1>3, SomeRun
<1>5. RunLength(W, k, v) # 0
  <2>1. RunStart(W, k, v) \in Nat /\ RunLength(W, k, v) \in Nat
    <3>1. v \in Nat /\ W \in Nat /\ k \in Nat \ {0}
      BY <1>1
    <3> QED
      BY <3>1, RunsFollow
  <2> QED
    BY <1>3, <1>4, <2>1 DEF InRun
<1> QED
  BY <1>1, <1>4, <1>5, RunsInUse, StreamkFacts DEF StreamkHas, W, k, g, H, StreamkCores

(* And in no other. *)
LEMMA StreamkOne ==
    ASSUME NEW s \in AnyProblem, NEW b \in Nat, NEW y \in Nat,
           NEW v \in 0..(StreamkCores(s) - 1), NEW w \in 0..(StreamkCores(s) - 1),
           StreamkHas(s, v, b, y), StreamkHas(s, w, b, y)
    PROVE  v = w
<1> DEFINE k == s.cores
           W == StreamkTiles(s)
           g == b * Loops(s)[4] + y
<1>1. k \in Nat \ {0} /\ W \in Nat /\ v \in 0..(k - 1) /\ w \in 0..(k - 1)
  BY ProblemFacts, StreamkFacts
<1>2. g \in Int
  BY ProblemFacts
<1>3. InRun(W, k, v, g) /\ InRun(W, k, w, g)
  BY DEF StreamkHas
<1> HIDE DEF k, W, g
<1> QED
  BY <1>1, <1>2, <1>3, OneRun

(* What every task has of the problem. *)
StreamkTaskIs(s, t, i) ==
    /\ StreamkBlocks(s, t - 1)[i] = BlockOf(s, Order(s), 0, StreamkPlace(s, t, i), StreamkPart(s, t, i))
    /\ StreamkPlace(s, t, i) \in 0..(CoreLoops(s) - 1)
    /\ StreamkPart(s, t, i) \subseteq 0..(s.shape[4] - 1)
    /\ t <= NormalBlockNum(s) => i = 1
    /\ t > NormalBlockNum(s) =>
         /\ StreamkRunOf(s, t) \in 0..(StreamkCores(s) - 1)
         /\ StreamkPlace(s, t, i) - NormalBlockNum(s) \in Nat
         /\ StreamkPlace(s, t, i)
              = NormalBlockNum(s) + (StreamkFirstBlock(s, StreamkRunOf(s, t)) + (i - 1))
         /\ \A d \in 0..(s.shape[4] - 1) :
              d \in StreamkPart(s, t, i) =>
                StreamkHas(s, StreamkRunOf(s, t), StreamkPlace(s, t, i) - NormalBlockNum(s), d \div s.tile[4])

(* Every block of a task is like that.                                     *)
LEMMA StreamkTask ==
    ASSUME NEW s \in AnyProblem, NEW t \in 1..StreamkCoreLoops(s),
           NEW i \in 1..Len(StreamkBlocks(s, t - 1))
    PROVE  StreamkTaskIs(s, t, i)
<1> DEFINE N0 == NormalBlockNum(s)
           R == StreamkBlockNum(s)
           C == StreamkCores(s)
           H == Loops(s)[4]
           D == 0..(s.shape[4] - 1)
           v == StreamkRunOf(s, t)
           a == StreamkFirstBlock(s, v)
           E == StreamkEnd(s, v)
           p == StreamkPlace(s, t, i)
           K == StreamkPart(s, t, i)
           blocks == StreamkBlocks(s, t - 1)
<1>1. i \in 1..Len(blocks)
  OBVIOUS
<1>2. /\ N0 \in Nat /\ R \in Nat /\ CoreLoops(s) = N0 + R /\ C \in Nat
      /\ StreamkCoreLoops(s) = N0 + C /\ H \in Nat \ {0}
  BY StreamkFacts, ProblemFacts
<1>3. t \in Nat /\ t >= 1 /\ t <= N0 + C
  BY <1>2
<1>4. p = IF t <= N0 THEN t - 1 ELSE N0 + (a + (i - 1))
  BY DEF StreamkPlace
<1>5. K = IF t <= N0 THEN D ELSE IF i = 1 THEN StreamkDepth(s, v) ELSE StreamkRest(s, v)
  BY DEF StreamkPart
<1>6. v = t - 1 - N0
  BY DEF StreamkRunOf
<1> HIDE DEF N0, R, C, H, v, a, E, p, K
<1>7. ASSUME t <= N0
      PROVE  i = 1 /\ blocks[i] = BlockOf(s, Order(s), 0, p, K) /\ p \in 0..(CoreLoops(s) - 1) /\ K \subseteq D
  <2>1. t - 1 \in 0..(N0 - 1) /\ p = t - 1 /\ K = D
    BY <1>2, <1>3, <1>4, <1>5, <1>7
  <2>2. t - 1 \in 0..(CoreLoops(s) - 1) /\ blocks = <<BlockOf(s, Order(s), 0, t - 1, D)>>
    BY <2>1, StreamkNormal DEF N0
  <2>3. i = 1
    <3> HIDE DEF blocks
    <3> QED
      BY <1>1, <2>2
  <2> QED
    BY <2>1, <2>2, <2>3
<1>8. ASSUME t > N0
      PROVE  /\ v \in 0..(C - 1)
             /\ blocks = StreamkPieces(s, v)
             /\ a \in 0..(R - 1)
             /\ E > H => a + 1 \in 0..(R - 1)
  <2>1. v \in 0..(C - 1) /\ t - 1 = N0 + v
    BY <1>2, <1>3, <1>6, <1>8
  <2>2. StreamkBlocks(s, N0 + v) = StreamkPieces(s, v)
    BY <2>1, StreamkPiecesAre DEF N0, C
  <2> QED
    BY <2>1, <2>2, StreamkRun DEF StreamkRuns, a, E, H, R, C
<1>9. ASSUME t > N0
      PROVE  (i = 1 \/ (i = 2 /\ E > H)) /\ blocks[i] = StreamkBlock(s, a + (i - 1), K)
             /\ a + (i - 1) \in 0..(R - 1)
  <2>1. a \in Nat /\ blocks = StreamkPieces(s, v) /\ K = IF i = 1 THEN StreamkDepth(s, v) ELSE StreamkRest(s, v)
    BY <1>2, <1>3, <1>5, <1>8, <1>9
  <2>2. CASE E > H
    <3> DEFINE x == StreamkBlock(s, a, StreamkDepth(s, v))
               y == StreamkBlock(s, a + 1, StreamkRest(s, v))
    <3>1. blocks = <<x, y>>
      BY <2>1, <2>2 DEF StreamkPieces, E, H, a
    <3> HIDE DEF x, y, blocks
    <3>2. Len(blocks) = 2 /\ blocks[1] = x /\ blocks[2] = y
      BY <3>1
    <3>3. i = 1 \/ i = 2
      BY <1>1, <3>2
    <3>4. a + (1 - 1) = a /\ a + (2 - 1) = a + 1
      BY <2>1
    <3>5. CASE i = 1
      BY <1>8, <1>9, <2>1, <3>2, <3>4, <3>5 DEF x
    <3>6. CASE i = 2
      BY <1>8, <1>9, <2>1, <2>2, <3>2, <3>4, <3>6 DEF y
    <3> QED
      BY <3>3, <3>5, <3>6 DEF blocks
  <2>3. CASE ~(E > H)
    <3> DEFINE x == StreamkBlock(s, a, StreamkDepth(s, v))
    <3>1. blocks = <<x>>
      BY <2>1, <2>3 DEF StreamkPieces, E, H, a
    <3> HIDE DEF x, blocks
    <3>2. Len(blocks) = 1 /\ blocks[1] = x
      BY <3>1
    <3>3. i = 1
      BY <1>1, <3>2
    <3> QED
      BY <1>8, <1>9, <2>1, <3>2, <3>3 DEF x, blocks
  <2> QED
    BY <2>2, <2>3
<1> HIDE DEF blocks
<1>10. ASSUME t > N0
      PROVE  /\ blocks[i] = BlockOf(s, Order(s), 0, p, K) /\ p \in 0..(CoreLoops(s) - 1)
             /\ p - N0 \in Nat /\ p - N0 = a + (i - 1) /\ p = N0 + (a + (i - 1))
  <2> DEFINE b == a + (i - 1)
  <2>1. b \in 0..(R - 1) /\ blocks[i] = StreamkBlock(s, b, K)
    BY <1>9, <1>10
  <2> HIDE DEF b
  <2> QED
    BY <1>2, <1>3, <1>4, <1>10, <2>1 DEF b, StreamkBlock, N0
<1>11. ASSUME t > N0
       PROVE  /\ K \subseteq D
              /\ \A d \in D : d \in K => StreamkHas(s, v, p - N0, d \div s.tile[4])
  <2> DEFINE m == StreamkFirstTile(s, v)
  <2>1. /\ StreamkDepth(s, v) \subseteq D
        /\ \A x \in D : x \in StreamkDepth(s, v) <=> m <= x \div s.tile[4] /\ x \div s.tile[4] < E
        /\ E > H => /\ StreamkRest(s, v) \subseteq D
                    /\ \A x \in D : x \in StreamkRest(s, v) <=> x \div s.tile[4] < E - H
    BY <1>8, <1>11, StreamkDepths DEF C, E, H
  <2>2. ASSUME NEW d \in D, d \in K
        PROVE  StreamkHas(s, v, p - N0, d \div s.tile[4])
    <3> DEFINE y == d \div s.tile[4]
               b == p - N0
    <3>1. b \in Nat /\ b = a + (i - 1) /\ a \in Nat
      BY <1>2, <1>8, <1>10, <1>11
    <3>2. (b = a /\ m <= y /\ y < E) \/ (b = a + 1 /\ y < E - H)
      <4>1. CASE i = 1
        BY <1>2, <1>3, <1>5, <1>11, <2>1, <2>2, <3>1, <4>1
      <4>2. CASE i = 2 /\ E > H
        BY <1>2, <1>3, <1>5, <1>11, <2>1, <2>2, <3>1, <4>2
      <4> QED
        BY <1>9, <1>11, <4>1, <4>2
    <3> HIDE DEF y, b
    <3> QED
      BY <1>8, <1>11, <3>1, <3>2, StreamkHasIs, ExtentIs DEF y, b, a, E, H, C
  <2>3. K \subseteq D
    BY <1>2, <1>3, <1>5, <1>9, <1>11, <2>1
  <2> QED
    BY <2>2, <2>3
<1>12. CASE t <= N0
  BY <1>2, <1>3, <1>7, <1>12 DEF StreamkTaskIs, blocks, N0, p, K
<1>13. CASE t > N0
  <2>1. ~(t <= N0)
    BY <1>2, <1>3, <1>13
  <2> QED
    BY <1>8, <1>10, <1>11, <1>13, <2>1 DEF StreamkTaskIs, blocks, N0, C, p, K, v, a
<1> QED
  BY <1>2, <1>3, <1>12, <1>13

(* The tasks of every core of a stream-k launch. *)
StreamkTasks(s) == [t \in 1..StreamkCoreLoops(s) |-> Len(StreamkBlocks(s, t - 1))]

(* And their blocks.                                                       *)
StreamkCoreBlocks(s) == [t \in 1..StreamkCoreLoops(s) |-> StreamkBlocks(s, t - 1)]

(* A core has one block, or two when its run goes beyond the first.        *)
LEMMA StreamkLen ==
    ASSUME NEW s \in AnyProblem, NEW t \in 1..StreamkCoreLoops(s)
    PROVE  /\ Len(StreamkBlocks(s, t - 1)) \in Nat
           /\ Len(StreamkBlocks(s, t - 1)) >= 1
           /\ (t > NormalBlockNum(s) /\ StreamkEnd(s, StreamkRunOf(s, t)) > Loops(s)[4])
                => Len(StreamkBlocks(s, t - 1)) >= 2
<1> DEFINE N0 == NormalBlockNum(s)
           C == StreamkCores(s)
           v == StreamkRunOf(s, t)
           blocks == StreamkBlocks(s, t - 1)
<1>1. N0 \in Nat /\ C \in Nat /\ t \in Nat /\ t >= 1 /\ t <= N0 + C
  BY StreamkFacts, ProblemFacts
<1>2. v = t - 1 - N0
  BY DEF StreamkRunOf
<1>3. CASE t <= N0
  <2> DEFINE u == t - 1
             x == BlockOf(s, Order(s), 0, u, 0..(s.shape[4] - 1))
  <2>1. u \in 0..(N0 - 1)
    BY <1>1, <1>3
  <2>2. StreamkBlocks(s, u) = <<x>>
    <3> HIDE DEF u
    <3> QED
      BY <2>1, StreamkNormal DEF N0
  <2>3. ~(t > N0)
    <3> HIDE DEF N0
    <3> QED
      BY <1>1, <1>3
  <2> HIDE DEF x, N0
  <2>4. Len(blocks) = 1
    BY <2>2
  <2> HIDE DEF blocks
  <2>5. Len(blocks) \in Nat /\ Len(blocks) >= 1
    BY <2>4
  <2> QED
    BY <2>3, <2>5 DEF N0, blocks
<1>4. CASE t > N0
  <2>1. v \in 0..(C - 1) /\ t - 1 = N0 + v
    <3> HIDE DEF N0, C, v
    <3> QED
      BY <1>1, <1>2, <1>4
  <2> HIDE DEF v
  <2>2. blocks = StreamkPieces(s, v)
    BY <2>1, StreamkPiecesAre
  <2> HIDE DEF blocks
  <2>3. Len(blocks) = IF StreamkEnd(s, v) > Loops(s)[4] THEN 2 ELSE 1
    BY <2>2 DEF StreamkPieces
  <2> QED
    BY <2>3 DEF blocks, v
<1> QED
  BY <1>1, <1>3, <1>4

(* Every block, its depth dealt to the cores that share it.                *)
LEMMA StreamkCuts ==
    ASSUME NEW s \in AnyProblem, s.shape[1] = 1
    PROVE  /\ StreamkCoreLoops(s) \in Nat
           /\ StreamkTasks(s) \in [1..StreamkCoreLoops(s) -> Nat]
           /\ CutsByCore(s.shape, StreamkCoreLoops(s), StreamkTasks(s), StreamkCoreBlocks(s))
<1> DEFINE n == CoreLoops(s)
           G == StreamkCoreLoops(s)
           N0 == NormalBlockNum(s)
           C == StreamkCores(s)
           R == StreamkBlockNum(s)
           H == Loops(s)[4]
           L == StreamkTasks(s)
           B == StreamkCoreBlocks(s)
           T == CoreTasks(G, L)
           D == 0..(s.shape[4] - 1)
           q == [x \in T |-> 0]
           p == [x \in T |-> StreamkPlace(s, x[1], x[2])]
           K == [x \in T |-> StreamkPart(s, x[1], x[2])]
           P == [x \in T |-> B[x[1]][x[2]]]
<1>1. /\ n \in Nat \ {0} /\ G \in Nat /\ N0 \in Nat /\ C \in Nat /\ R \in Nat /\ H \in Nat \ {0}
      /\ n = N0 + R /\ G = N0 + C
  BY ProblemFacts, StreamkFacts
<1>2. ASSUME NEW t \in 1..G
      PROVE  /\ L[t] = Len(StreamkBlocks(s, t - 1)) /\ L[t] \in Nat /\ L[t] >= 1
             /\ (t > N0 /\ StreamkEnd(s, StreamkRunOf(s, t)) > H) => L[t] >= 2
             /\ B[t] = StreamkBlocks(s, t - 1)
  <2>1. L[t] = Len(StreamkBlocks(s, t - 1)) /\ B[t] = StreamkBlocks(s, t - 1)
    BY DEF StreamkTasks, StreamkCoreBlocks
  <2> HIDE DEF L, B
  <2> QED
    BY <2>1, StreamkLen
<1>3. L \in [1..G -> Nat]
  <2>1. L = [t \in 1..G |-> Len(StreamkBlocks(s, t - 1))]
    BY DEF StreamkTasks
  <2> HIDE DEF L, G
  <2> QED
    BY <2>1, StreamkLen
<1>4. ASSUME NEW x \in T
      PROVE  /\ q[x] = 0 /\ p[x] = StreamkPlace(s, x[1], x[2]) /\ K[x] = StreamkPart(s, x[1], x[2])
             /\ P[x] = B[x[1]][x[2]]
  OBVIOUS
<1> HIDE DEF L, B, G, n, N0, C, R, H
<1>5. ASSUME NEW x \in T
      PROVE  x = <<x[1], x[2]>> /\ x[1] \in 1..G /\ x[2] \in 1..L[x[1]] /\ x[2] \in Nat
  BY <1>2 DEF CoreTasks
<1>6. ASSUME NEW c \in 1..G, NEW t \in Nat, 1 <= t, t <= L[c]
      PROVE  <<c, t>> \in T
  BY <1>6 DEF CoreTasks
<1> HIDE DEF T
<1>7. ASSUME NEW x \in T
      PROVE  StreamkTaskIs(s, x[1], x[2])
  BY <1>2, <1>5, StreamkTask DEF G
<1> HIDE DEF q, p, K, P, D
<1>8. ASSUME NEW x \in T
      PROVE  P[x] = BlockOf(s, Order(s), q[x], p[x], K[x])
             /\ p[x] \in 0..(n - 1) /\ K[x] \subseteq D
  BY <1>2, <1>4, <1>5, <1>7 DEF StreamkTaskIs, n, D
<1>9. P = BlocksOf(s, T, Order(s), q, p, K)
  BY <1>8 DEF BlocksOf, P
<1>10. ASSUME NEW i \in 0..(n - 1), NEW d \in D
       PROVE  \E x \in T : p[x] = i /\ d \in K[x]
  <2>1. CASE i < N0
    <3> DEFINE t == i + 1
               one == 1
    <3>1. t \in 1..G /\ t <= N0 /\ t - 1 = i
      BY <1>1, <2>1
    <3> HIDE DEF t
    <3>2. one \in Nat /\ 1 <= one /\ one <= L[t]
      BY <1>2, <3>1
    <3> HIDE DEF one
    <3> QED
      BY <1>4, <1>6, <3>1, <3>2 DEF StreamkPlace, StreamkPart, N0, D
  <2>2. CASE ~(i < N0)
    <3> DEFINE b == i - N0
               y == d \div s.tile[4]
    <3>1. b \in 0..(R - 1) /\ i = N0 + b /\ b \in Nat
      BY <1>1, <2>2
    <3>2. y \in 0..(H - 1)
      BY ExtentIs DEF H, D
    <3> HIDE DEF b, y
    <3>3. PICK v \in 0..(C - 1) : StreamkHas(s, v, b, y)
      BY <3>1, <3>2, StreamkSome DEF C, R, H
    <3> DEFINE a == StreamkFirstBlock(s, v)
               m == StreamkFirstTile(s, v)
               E == StreamkEnd(s, v)
               t == N0 + v + 1
               one == 1
               two == 2
    <3>4. (b = a /\ m <= y /\ y < E) \/ (b = a + 1 /\ y < E - H)
      BY <3>1, <3>2, <3>3, StreamkHasIs DEF C, H
    <3>5. /\ \A x \in D : x \in StreamkDepth(s, v) <=> m <= x \div s.tile[4] /\ x \div s.tile[4] < E
          /\ E > H => \A x \in D : x \in StreamkRest(s, v) <=> x \div s.tile[4] < E - H
      BY StreamkDepths DEF C, H, D
    <3>6. a \in Nat /\ E \in Int
      <4>1. a \in 0..(R - 1) /\ m \in 0..(H - 1) /\ StreamkLength(s, v) \in 1..H
        BY StreamkRun DEF StreamkRuns, R, H, C
      <4>2. E = m + StreamkLength(s, v)
        BY DEF StreamkEnd
      <4> HIDE DEF a, m, E
      <4> QED
        BY <1>1, <4>1, <4>2
    <3>7. t \in 1..G /\ t > N0 /\ ~(t <= N0) /\ StreamkRunOf(s, t) = v
      BY <1>1 DEF StreamkRunOf, N0
    <3> HIDE DEF a, m, E, t, one, two
    <3>8. L[t] \in Nat /\ L[t] >= 1 /\ (E > H => L[t] >= 2)
      BY <1>2, <3>7 DEF E
    <3>9. CASE b = a /\ m <= y /\ y < E
      <4>1. one \in Nat /\ 1 <= one /\ one <= L[t] /\ one = 1
        BY <3>8 DEF one
      <4>2. StreamkPlace(s, t, one) = i
        BY <1>1, <3>1, <3>6, <3>7, <3>9, <4>1 DEF StreamkPlace, N0, a
      <4>3. d \in StreamkDepth(s, v)
        BY <3>5, <3>9 DEF y
      <4> QED
        BY <1>4, <1>6, <3>7, <4>1, <4>2, <4>3 DEF StreamkPart, N0
    <3>10. CASE b = a + 1 /\ y < E - H
      <4>1. E > H
        BY <1>1, <3>2, <3>6, <3>10
      <4>2. two \in Nat /\ 1 <= two /\ two <= L[t] /\ two = 2
        BY <3>8, <4>1 DEF two
      <4>3. <<t, two>> \in T
        BY <1>6, <3>7, <4>2
      <4>4. StreamkPlace(s, t, two) = i
        BY <1>1, <3>1, <3>6, <3>7, <3>10, <4>2 DEF StreamkPlace, N0, a
      <4>5. d \in StreamkRest(s, v)
        BY <3>5, <3>10, <4>1 DEF y
      <4> QED
        BY <1>4, <3>7, <4>2, <4>3, <4>4, <4>5 DEF StreamkPart, N0
    <3> QED
      BY <3>4, <3>9, <3>10
  <2> QED
    BY <2>1, <2>2
<1>11. ASSUME NEW x \in T, NEW z \in T, NEW d \in K[x], p[x] = p[z], d \in K[z]
       PROVE  x = z
  <2> DEFINE t == x[1]
             i == x[2]
             u == z[1]
             j == z[2]
             y == d \div s.tile[4]
             b == p[x] - N0
  <2>1. /\ t \in 1..G /\ u \in 1..G /\ i \in Nat /\ j \in Nat /\ x = <<t, i>> /\ z = <<u, j>>
    BY <1>5
  <2>2. StreamkTaskIs(s, t, i) /\ StreamkTaskIs(s, u, j)
    BY <1>7
  <2>3. /\ p[x] = StreamkPlace(s, t, i) /\ p[z] = StreamkPlace(s, u, j)
        /\ K[x] = StreamkPart(s, t, i) /\ K[z] = StreamkPart(s, u, j)
    BY <1>4
  <2>4. d \in D
    BY <1>8
  <2> HIDE DEF t, i, u, j
  <2>5. /\ t <= N0 => p[x] = t - 1 /\ i = 1
        /\ u <= N0 => p[z] = u - 1 /\ j = 1
    BY <2>2, <2>3 DEF StreamkTaskIs, StreamkPlace, N0
  <2>6. /\ t > N0 => /\ StreamkRunOf(s, t) \in 0..(C - 1) /\ b \in Nat
                     /\ p[x] = N0 + (StreamkFirstBlock(s, StreamkRunOf(s, t)) + (i - 1))
                     /\ StreamkHas(s, StreamkRunOf(s, t), b, y)
        /\ u > N0 => /\ StreamkRunOf(s, u) \in 0..(C - 1) /\ p[z] - N0 \in Nat
                     /\ p[z] = N0 + (StreamkFirstBlock(s, StreamkRunOf(s, u)) + (j - 1))
                     /\ StreamkHas(s, StreamkRunOf(s, u), p[z] - N0, y)
    BY <1>11, <2>2, <2>3, <2>4 DEF StreamkTaskIs, N0, C, D
  <2>7. p[x] \in Nat /\ p[z] \in Nat /\ p[x] = p[z]
    BY <1>1, <1>8, <1>11
  <2> HIDE DEF b, y
  <2>8. CASE t <= N0
    <3>1. ~(u > N0)
      <4> SUFFICES ASSUME u > N0
                   PROVE  FALSE
        OBVIOUS
      <4> QED
        BY <1>1, <2>1, <2>5, <2>6, <2>7, <2>8
    <3> QED
      BY <1>1, <2>1, <2>5, <2>7, <2>8, <3>1
  <2>9. CASE t > N0
    <3>1. u > N0
      <4> SUFFICES ASSUME u <= N0
                   PROVE  FALSE
        BY <1>1, <2>1
      <4> QED
        BY <1>1, <2>1, <2>5, <2>6, <2>7, <2>9 DEF b
    <3> DEFINE v == StreamkRunOf(s, t)
               w == StreamkRunOf(s, u)
    <3>2. v \in 0..(C - 1) /\ w \in 0..(C - 1) /\ StreamkHas(s, v, b, y) /\ StreamkHas(s, w, b, y) /\ b \in Nat
      BY <2>6, <2>7, <2>9, <3>1 DEF b
    <3>3. v = t - 1 - N0 /\ w = u - 1 - N0
      BY DEF StreamkRunOf, N0
    <3>4. /\ p[x] = N0 + (StreamkFirstBlock(s, v) + (i - 1))
          /\ p[z] = N0 + (StreamkFirstBlock(s, w) + (j - 1))
      BY <2>6, <2>9, <3>1
    <3> HIDE DEF v, w
    <3>5. v = w
      BY <1>1, <2>4, <3>2, StreamkOne, ExtentIs DEF C, D, H, y
    <3>6. i = j
      <4> DEFINE a == StreamkFirstBlock(s, v)
      <4>1. a \in Nat
        BY <1>1, <3>2, StreamkRun DEF StreamkRuns, R, C
      <4>2. N0 + (a + (i - 1)) = N0 + (a + (j - 1))
        BY <2>7, <3>4, <3>5
      <4> HIDE DEF a
      <4> QED
        BY <1>1, <2>1, <4>1, <4>2
    <3> QED
      BY <1>1, <2>1, <3>3, <3>5, <3>6
  <2> QED
    BY <1>1, <2>1, <2>8, <2>9
<1>12. Dealt(s, T, q, p, K)
  BY <1>4, <1>8, <1>10, <1>11 DEF Dealt, n, D
<1>13. Cuts(s.shape, T, P)
  BY <1>9, <1>12, OrderPasses, DealtCuts
<1> QED
  BY <1>1, <1>3, <1>13, CoreTasksCut DEF L, B, G, T, P

-----------------------------------------------------------------------------
(* The convolutions.                                                       *)

(* Every number below n is a pair of digits, and every pair a number.      *)
TwoDigits(a, b, n) ==
    /\ n \in Nat \ {0}
    /\ \A x \in 0..(n - 1) : /\ x \div b \in 0..(a - 1) /\ x % b \in 0..(b - 1)
                             /\ x = (x \div b) * b + (x % b)
    /\ \A q \in 0..(a - 1), m \in 0..(b - 1) :
         /\ q * b + m \in 0..(n - 1)
         /\ (q * b + m) \div b = q /\ (q * b + m) % b = m

(* So for every product of two.                                            *)
LEMMA TwoDigitsIs ==
    ASSUME NEW a \in Nat \ {0}, NEW b \in Nat \ {0}, NEW n, n = a * b
    PROVE  TwoDigits(a, b, n)
<1>1. ASSUME NEW x \in 0..(n - 1)
      PROVE  x \div b \in 0..(a - 1) /\ x % b \in 0..(b - 1) /\ x = (x \div b) * b + (x % b)
  BY PlacePair
<1>2. ASSUME NEW q \in 0..(a - 1), NEW m \in 0..(b - 1)
      PROVE  /\ q * b + m \in 0..(n - 1)
             /\ (q * b + m) \div b = q /\ (q * b + m) % b = m
  BY PlacePair
<1> QED
  BY <1>1, <1>2 DEF TwoDigits

(* The same of three digits. *)
ThreeDigits(a, b, c, n) ==
    /\ n \in Nat \ {0}
    /\ \A x \in 0..(n - 1) :
         /\ x \div (b * c) \in 0..(a - 1)
         /\ (x \div c) % b \in 0..(b - 1)
         /\ x % c \in 0..(c - 1)
         /\ x = ((x \div (b * c)) * b + ((x \div c) % b)) * c + (x % c)
    /\ \A i \in 0..(a - 1), j \in 0..(b - 1), k \in 0..(c - 1) :
         /\ (i * b + j) * c + k \in 0..(n - 1)
         /\ ((i * b + j) * c + k) \div (b * c) = i
         /\ (((i * b + j) * c + k) \div c) % b = j
         /\ ((i * b + j) * c + k) % c = k

(* So for every product of three.                                          *)
LEMMA ThreeDigitsIs ==
    ASSUME NEW a \in Nat \ {0}, NEW b \in Nat \ {0}, NEW c \in Nat \ {0}
    PROVE  ThreeDigits(a, b, c, (a * b) * c)
<1> DEFINE m == a * b
           n == m * c
           w == b * c
<1>1. m = a * b /\ n = m * c
  OBVIOUS
<1> HIDE DEF m, n, w
<1>2. TwoDigits(a, b, m)
  BY <1>1, TwoDigitsIs
<1>3. m \in Nat \ {0}
  BY <1>2 DEF TwoDigits
<1>4. TwoDigits(m, c, n)
  BY <1>1, <1>3, TwoDigitsIs
<1>5. ASSUME NEW i \in 0..(a - 1), NEW j \in 0..(b - 1), NEW k \in 0..(c - 1)
      PROVE  /\ (i * b + j) * c + k \in 0..(n - 1)
             /\ ((i * b + j) * c + k) \div w = i
             /\ (((i * b + j) * c + k) \div c) % b = j
             /\ ((i * b + j) * c + k) % c = k
  <2> DEFINE y == i * b + j
             x == y * c + k
             r == j * c + k
  <2>1. y \in 0..(m - 1) /\ y \div b = i /\ y % b = j
    BY <1>2 DEF TwoDigits
  <2>2. y * c = i * w + j * c /\ i * w \in Nat /\ j * c \in Nat
    BY DEF w
  <2>3. r \in Nat /\ r < w
    BY Digits DEF w
  <2> HIDE DEF y
  <2>4. x = i * w + r
    BY <2>2
  <2> HIDE DEF x, r
  <2>5. (i * w + r) \div w = i
    BY <2>3, Quotient DEF w
  <2> QED
    BY <1>4, <2>1, <2>4, <2>5 DEF x, y, TwoDigits
<1>6. ASSUME NEW x \in 0..(n - 1)
      PROVE  /\ x \div w \in 0..(a - 1) /\ (x \div c) % b \in 0..(b - 1) /\ x % c \in 0..(c - 1)
             /\ x = ((x \div w) * b + ((x \div c) % b)) * c + (x % c)
  <2> DEFINE y == x \div c
             k == x % c
             i == y \div b
             j == y % b
  <2>1. y \in 0..(m - 1) /\ k \in 0..(c - 1) /\ x = y * c + k
    BY <1>4 DEF TwoDigits
  <2> HIDE DEF y, k
  <2>2. i \in 0..(a - 1) /\ j \in 0..(b - 1) /\ y = i * b + j
    BY <1>2, <2>1 DEF TwoDigits
  <2> HIDE DEF i, j
  <2>3. x = (i * b + j) * c + k
    BY <2>1, <2>2, Zenon
  <2>4. ((i * b + j) * c + k) \div w = i
    BY <1>5, <2>1, <2>2
  <2> QED
    BY <2>1, <2>2, <2>3, <2>4 DEF y, k, j
<1> QED
  BY <1>4, <1>5, <1>6 DEF ThreeDigits, n, m, w, TwoDigits

(* A tile along all four axes, by its number along each.                   *)
Cube(s, c) == [axis \in 1..4 |-> Extent(s, axis, c[axis])]

(* The number of an element's tile along an axis.                          *)
TileAlong(s, e, axis) == e[axis] \div s.tile[axis]

(* It lies within the problem, and has the elements of those numbers.      *)
LEMMA CubeIs ==
    ASSUME NEW s \in AnyProblem, NEW c, \A axis \in 1..4 : c[axis] \in 0..(Loops(s)[axis] - 1)
    PROVE  /\ Inside(s.shape, Cube(s, c))
           /\ \A e \in Elements(s.shape) :
                Has(Cube(s, c), e) <=> \A axis \in 1..4 : TileAlong(s, e, axis) = c[axis]
<1>1. ASSUME NEW axis \in 1..4
      PROVE  /\ Cube(s, c)[axis] \subseteq 0..(s.shape[axis] - 1)
             /\ \A x \in 0..(s.shape[axis] - 1) : x \in Cube(s, c)[axis] <=> c[axis] = x \div s.tile[axis]
  BY ExtentIs DEF Cube
<1>2. ASSUME NEW e \in Elements(s.shape)
      PROVE  Has(Cube(s, c), e) <=> \A axis \in 1..4 : TileAlong(s, e, axis) = c[axis]
  BY <1>1, ElementFacts DEF Has, TileAlong
<1> QED
  BY <1>1, <1>2 DEF Inside

(* There are as many blocks as were asked for. *)
Conv3dEven(s) ==
    \A axis \in 1..4 : Conv3dLoops(s)[axis] = CeilDiv(s.shape[axis], Conv3dTile(s)[axis])

(* The problem with the tiles of the convolution. *)
Conv3dProblem(s) == [s EXCEPT !.tile = Conv3dTile(s)]

(* It has the blocks that the convolution goes through.                    *)
LEMMA Conv3dProblemIs ==
    ASSUME NEW s \in AnyProblem, Conv3dEven(s)
    PROVE  /\ Conv3dProblem(s) \in AnyProblem
           /\ Conv3dProblem(s).shape = s.shape
           /\ Conv3dProblem(s).tile = Conv3dTile(s)
           /\ \A axis \in 1..4 : /\ Loops(Conv3dProblem(s))[axis] = Conv3dLoops(s)[axis]
                                 /\ Conv3dLoops(s)[axis] \in Nat \ {0}
<1> DEFINE u == Conv3dProblem(s)
<1>1. ASSUME NEW axis \in 1..4
      PROVE  /\ Conv3dLoops(s)[axis] \in Nat \ {0} /\ Conv3dTile(s)[axis] \in Nat \ {0}
  BY CeilDivPositive, ProblemFacts DEF Conv3dLoops, Conv3dTile
<1>2. u \in AnyProblem /\ u.shape = s.shape /\ u.tile = Conv3dTile(s)
  BY <1>1 DEF AnyProblem, Conv3dProblem, Shapes, Conv3dTile
<1> HIDE DEF u
<1>3. ASSUME NEW axis \in 1..4
      PROVE  Loops(u)[axis] = Conv3dLoops(s)[axis]
  BY <1>2, ProblemFacts DEF Conv3dEven
<1> QED
  BY <1>1, <1>2, <1>3 DEF u

(* A block of a convolution is a tile of that problem. *)
LEMMA Conv3dBlockIs ==
    ASSUME NEW s \in AnyProblem, Conv3dEven(s), NEW i,
           \A axis \in 1..4 : Conv3dCoord(s, i)[axis] \in 0..(Conv3dLoops(s)[axis] - 1)
    PROVE  Conv3dBlock(s, i) = Cube(Conv3dProblem(s), Conv3dCoord(s, i))
<1> DEFINE u == Conv3dProblem(s)
           B == Conv3dBlock(s, i)
           C == Cube(u, Conv3dCoord(s, i))
<1>1. u.shape = s.shape /\ u.tile = Conv3dTile(s)
      /\ \A axis \in 1..4 : Loops(u)[axis] = Conv3dLoops(s)[axis]
  BY Conv3dProblemIs
<1>2. ASSUME NEW axis \in 1..4
      PROVE  B[axis] = C[axis]
  <2> DEFINE c == Conv3dCoord(s, i)[axis]
             t == Conv3dTile(s)[axis]
             N == s.shape[axis]
             L == Conv3dLoops(s)[axis]
             first == c * t
  <2>1. c \in Int /\ t \in Int /\ N \in Int /\ L \in Int
    <3>1. L \in Nat \ {0} /\ u.tile[axis] \in Nat \ {0} /\ N \in Nat \ {0}
      BY Conv3dProblemIs, ProblemFacts
    <3>2. c \in 0..(L - 1)
      OBVIOUS
    <3> HIDE DEF c, L, u
    <3> QED
      BY <1>1, <3>1, <3>2
  <2>2. B[axis] = first..(first + (IF c = L - 1 THEN N - first ELSE t) - 1)
    BY DEF Conv3dBlock
  <2>3. C[axis] = first..(IF c = L - 1 THEN N - 1 ELSE first + t - 1)
    BY <1>1 DEF Extent, Cube
  <2> HIDE DEF c, t, N, L, B, C
  <2>4. first \in Int
    BY <2>1
  <2> HIDE DEF first
  <2> QED
    BY <2>1, <2>2, <2>3, <2>4
<1> HIDE DEF B, C
<1> QED
  BY <1>2 DEF B, C, u, Conv3dBlock, Cube

(* Every block of the image, by the order of the swizzle.                  *)
LEMMA Conv3dCuts ==
    ASSUME NEW s \in AnyProblem, Conv3dEven(s)
    PROVE  LET n == Conv3dCoreLoops(s)
           IN n \in Nat /\ Cuts(s.shape, 1..n, [t \in 1..n |-> Conv3dBlock(s, t - 1)])
<1> DEFINE u == Conv3dProblem(s)
           l == Conv3dLoops(s)
           a == l[1]
           b == l[2]
           c == l[3]
           h == l[4]
           w == (a * b) * c
           n == Conv3dCoreLoops(s)
           T == 1..n
           z == SwizzledOrder(h, w, s)
           P(t) == Conv3dCoord(s, t - 1)
           B == [t \in T |-> Conv3dBlock(s, t - 1)]
<1>1. /\ a \in Nat \ {0} /\ b \in Nat \ {0} /\ c \in Nat \ {0} /\ h \in Nat \ {0}
      /\ u \in AnyProblem /\ u.shape = s.shape
      /\ \A axis \in 1..4 : Loops(u)[axis] = l[axis]
  BY Conv3dProblemIs
<1>2. n = w * h
  BY DEF Conv3dCoreLoops
<1>3. \A i : Conv3dCoord(s, i) =
               LET mn == Swizzled(h, w, s, i % n)
               IN <<mn[2] \div (b * c), (mn[2] \div c) % b, mn[2] % c, mn[1]>>
  BY DEF Conv3dCoord
<1>4. z = [i \in 0..(h * w - 1) |-> Swizzled(h, w, s, i)]
  BY DEF SwizzledOrder
<1> HIDE DEF a, b, c, h, n, z
<1>5. ThreeDigits(a, b, c, w)
  BY <1>1, ThreeDigitsIs
<1> HIDE DEF w
<1>6. /\ w \in Nat \ {0}
      /\ \A x \in 0..(w - 1) :
           /\ x \div (b * c) \in 0..(a - 1)
           /\ (x \div c) % b \in 0..(b - 1)
           /\ x % c \in 0..(c - 1)
           /\ x = ((x \div (b * c)) * b + ((x \div c) % b)) * c + (x % c)
      /\ \A i \in 0..(a - 1), j \in 0..(b - 1), k \in 0..(c - 1) :
           /\ (i * b + j) * c + k \in 0..(w - 1)
           /\ ((i * b + j) * c + k) \div (b * c) = i
           /\ (((i * b + j) * c + k) \div c) % b = j
           /\ ((i * b + j) * c + k) % c = k
  BY <1>5 DEF ThreeDigits
<1>7. n \in Nat \ {0} /\ n = h * w
  BY <1>1, <1>2, <1>6
<1>8. Passes(h, w, n, z)
  BY <1>1, <1>6, <1>7, SwizzledPasses DEF z
<1>9. ASSUME NEW t \in T
      PROVE  /\ t - 1 \in 0..(n - 1)
             /\ z[t - 1][1] \in 0..(h - 1) /\ z[t - 1][2] \in 0..(w - 1)
             /\ P(t)[1] = z[t - 1][2] \div (b * c)
             /\ P(t)[2] = (z[t - 1][2] \div c) % b
             /\ P(t)[3] = z[t - 1][2] % c
             /\ P(t)[4] = z[t - 1][1]
  <2> DEFINE i == t - 1
             mn == Swizzled(h, w, s, i)
  <2>1. i \in 0..(n - 1)
    BY <1>7
  <2> HIDE DEF i
  <2>2. i % n = i
    BY <1>7, <2>1, Quotient
  <2>3. z[i] = mn
    BY <1>4, <1>7, <2>1
  <2> HIDE DEF mn
  <2> QED
    BY <1>3, <1>8, <2>1, <2>2, <2>3 DEF i, Passes, mn
<1>10. \A t \in T : B[t] = Conv3dBlock(s, t - 1)
  OBVIOUS
<1>11. ASSUME NEW axis \in 1..4
       PROVE  axis = 1 \/ axis = 2 \/ axis = 3 \/ axis = 4
  OBVIOUS
<1> HIDE DEF P, B
<1>12. ASSUME NEW t \in T, NEW axis \in 1..4
       PROVE  P(t)[axis] \in 0..(l[axis] - 1)
  BY <1>6, <1>9, <1>11 DEF a, b, c, h
<1>13. ASSUME NEW t \in T
       PROVE  B[t] = Cube(u, P(t))
  BY <1>10, <1>12, Conv3dBlockIs DEF P
<1> HIDE DEF u, l
<1>14. ASSUME NEW t \in T
       PROVE  /\ Inside(s.shape, B[t])
              /\ \A e \in Elements(s.shape) :
                   Has(B[t], e) <=> \A axis \in 1..4 : TileAlong(u, e, axis) = P(t)[axis]
  BY <1>1, <1>12, <1>13, CubeIs
<1>15. ASSUME NEW e \in Elements(s.shape)
       PROVE  \E t \in T : Has(B[t], e)
  <2> DEFINE i == TileAlong(u, e, 1)
             j == TileAlong(u, e, 2)
             k == TileAlong(u, e, 3)
             r == TileAlong(u, e, 4)
             x == (i * b + j) * c + k
  <2>1. i \in 0..(a - 1) /\ j \in 0..(b - 1) /\ k \in 0..(c - 1) /\ r \in 0..(h - 1)
    <3>1. ASSUME NEW axis \in 1..4
          PROVE  TileAlong(u, e, axis) \in 0..(l[axis] - 1)
      BY <1>1, ExtentIs, ElementFacts DEF TileAlong
    <3> QED
      BY <3>1 DEF a, b, c, h
  <2> HIDE DEF i, j, k, r
  <2>2. x \in 0..(w - 1) /\ x \div (b * c) = i /\ (x \div c) % b = j /\ x % c = k
    BY <1>6, <2>1
  <2> HIDE DEF x
  <2>3. PICK m \in 0..(n - 1) : z[m][1] = r /\ z[m][2] = x
    BY <1>8, <2>1, <2>2 DEF Passes
  <2> DEFINE t == m + 1
  <2>4. t \in T /\ t - 1 = m
    BY <1>7
  <2> HIDE DEF t
  <2> QED
    BY <1>9, <1>11, <1>14, <2>2, <2>3, <2>4 DEF i, j, k, r
<1>16. ASSUME NEW e \in Elements(s.shape), NEW t \in T, NEW v \in T, Has(B[t], e), Has(B[v], e)
       PROVE  t = v
  <2> DEFINE x == z[t - 1][2]
             y == z[v - 1][2]
  <2>1. x \in 0..(w - 1) /\ y \in 0..(w - 1) /\ t - 1 \in 0..(n - 1) /\ v - 1 \in 0..(n - 1)
    BY <1>9
  <2>2. /\ x \div (b * c) = y \div (b * c) /\ (x \div c) % b = (y \div c) % b /\ x % c = y % c
        /\ z[t - 1][1] = z[v - 1][1]
    BY <1>9, <1>14, <1>16
  <2> HIDE DEF x, y
  <2>3. x = y
    BY <1>6, <2>1, <2>2, Zenon
  <2> QED
    BY <1>7, <1>8, <2>1, <2>2, <2>3 DEF Passes, x, y
<1> QED
  BY <1>7, <1>14, <1>15, <1>16 DEF n, B, Cuts

-----------------------------------------------------------------------------
(* The jobs of every swizzle.                                              *)

(* A job for a swizzle. *)
ProblemJob(cut, s) ==
    Whole(cut, 1, <<s.shape, s.tile, s.offset, s.direction, s.cores>>, Volume(s.shape))

(* The arguments of such a job are its problem, and the whole has as many  *)
(* elements.                                                               *)
LEMMA ProblemJobIs ==
    ASSUME NEW cut, NEW s \in AnyProblem
    PROVE  /\ Problem(<<s.shape, s.tile, s.offset, s.direction, s.cores>>) = s
           /\ Volume(s.shape) \in Nat \ {0} /\ s.shape \in Shapes
           /\ ProblemJob(cut, s).copy = cut /\ Problem(ProblemJob(cut, s).args) = s
           /\ ProblemJob(cut, s).cols = Volume(s.shape)
<1> DEFINE args == <<s.shape, s.tile, s.offset, s.direction, s.cores>>
<1>1. Volume(s.shape) \in Nat \ {0}
  <2> DEFINE a == s.shape[1]
             b == s.shape[2]
             c == s.shape[3]
             d == s.shape[4]
  <2>1. a \in Nat \ {0} /\ b \in Nat \ {0} /\ c \in Nat \ {0} /\ d \in Nat \ {0}
    BY ProblemFacts
  <2>2. Volume(s.shape) = ((a * b) * c) * d
    BY DEF Volume
  <2> HIDE DEF a, b, c, d
  <2> QED
    BY <2>1, <2>2
<1> DEFINE n == Volume(s.shape)
           j == Whole(cut, 1, args, n)
<1> HIDE DEF args, n
<1>2. j.copy = cut /\ j.args = args /\ j.cols = n
  BY <1>1, WholeIs DEF n
<1>3. ProblemJob(cut, s) = j
  BY DEF ProblemJob, args, n
<1> HIDE DEF j
<1> QED
  BY <1>1, <1>2, <1>3, ProblemFacts DEF args, n, Problem, AnyProblem

(* A job is cut when its tasks have every element once. *)
LEMMA TasksCut ==
    ASSUME NEW cut, cut # "kernel", NEW s \in AnyProblem, NEW n \in Nat, NEW B,
           Cuts(s.shape, 1..n, B),
           Pieces(ProblemJob(cut, s)) = [t \in 1..n |-> Numbered(s.shape, B[t])]
    PROVE  CutJob(ProblemJob(cut, s))
<1>1. s.shape \in Shapes
  BY ProblemJobIs
<1>2. Partition([t \in 1..n |-> Numbered(s.shape, B[t])], Volume(s.shape))
  BY <1>1, CutsPartition, Zenon
<1> QED
  BY <1>2, PartitionedJob, ProblemJobIs DEF ProblemJob

(* A job whose pieces are put down core by core is cut, when its blocks    *)
(* are the problem.                                                        *)
LEMMA CoresCut ==
    ASSUME NEW cut, cut # "kernel", NEW s \in AnyProblem, NEW n \in Nat,
           NEW L \in [1..n -> Nat], NEW B, CutsByCore(s.shape, n, L, B),
           Pieces(ProblemJob(cut, s))
             = FlattenSeq([c \in 1..n |-> [t \in 1..L[c] |-> Numbered(s.shape, B[c][t])]])
    PROVE  CutJob(ProblemJob(cut, s))
<1>1. s.shape \in Shapes
  BY ProblemJobIs
<1>2. Partition(FlattenSeq([c \in 1..n |-> [t \in 1..L[c] |-> Numbered(s.shape, B[c][t])]]), Volume(s.shape))
  BY <1>1, CutsByCorePartition, Zenon
<1> QED
  BY <1>2, PartitionedJob, ProblemJobIs DEF ProblemJob

-----------------------------------------------------------------------------
(* Jobs for the identity swizzle, static and dynamic, are cut.             *)
LEMMA IdentityJob ==
    ASSUME NEW s \in AnyProblem, NEW cut \in {"Identity", "DynamicIdentity"}
    PROVE  CutJob(ProblemJob(cut, s))
<1> DEFINE n == s.shape[1] * CoreLoops(s)
           B == [t \in 1..n |-> IdentityBlock(s, t - 1)]
           j == ProblemJob(cut, s)
<1>1. n \in Nat /\ Cuts(s.shape, 1..n, B)
  BY IdentityCuts
<1>2. j.copy = cut /\ Problem(j.args) = s
  BY ProblemJobIs
<1>3. Pieces(j) = [t \in 1..n |-> Numbered(s.shape, IdentityBlock(s, t - 1))]
  <2>1. CASE cut = "Identity"
    BY <1>2, <2>1 DEF Tasks, Pieces
  <2>2. CASE cut = "DynamicIdentity"
    BY <1>2, <2>2 DEF Tasks, DynamicIdentityBlock, IdentityBlock, Pieces
  <2> QED
    BY <2>1, <2>2
<1>4. Pieces(j) = [t \in 1..n |-> Numbered(s.shape, B[t])]
  BY <1>3
<1> HIDE DEF B, n
<1> QED
  BY <1>1, <1>4, TasksCut

(* So are those for the swizzle of the two-dimensional convolution.        *)
LEMMA Conv2dJob ==
    ASSUME NEW s \in AnyProblem
    PROVE  CutJob(ProblemJob("Conv2d", s))
<1> DEFINE n == s.shape[1] * Conv2dCoreLoops(s)
           B == [t \in 1..n |-> Conv2dBlock(s, t - 1)]
           j == ProblemJob("Conv2d", s)
<1>1. n \in Nat /\ Cuts(s.shape, 1..n, B)
  BY Conv2dCuts
<1>2. j.copy = "Conv2d" /\ Problem(j.args) = s
  BY ProblemJobIs
<1>3. Pieces(j) = [t \in 1..n |-> Numbered(s.shape, B[t])]
  BY <1>2 DEF Tasks, Pieces
<1> HIDE DEF B, n
<1> QED
  BY <1>1, <1>3, TasksCut

(* So are those of a three-dimensional convolution that gets as many       *)
(* blocks as it asks for.                                                  *)
LEMMA Conv3dJob ==
    ASSUME NEW s \in AnyProblem, Conv3dEven(s)
    PROVE  CutJob(ProblemJob("Conv3d", s))
<1> DEFINE n == Conv3dCoreLoops(s)
           B == [t \in 1..n |-> Conv3dBlock(s, t - 1)]
           j == ProblemJob("Conv3d", s)
<1>1. n \in Nat /\ Cuts(s.shape, 1..n, B)
  BY Conv3dCuts
<1>2. j.copy = "Conv3d" /\ Problem(j.args) = s
  BY ProblemJobIs
<1>3. Pieces(j) = [t \in 1..n |-> Numbered(s.shape, B[t])]
  BY <1>2 DEF Tasks, Pieces
<1> HIDE DEF B, n
<1> QED
  BY <1>1, <1>3, TasksCut

(* So are those for the full load of L1, of one batch.                     *)
LEMMA L1FullLoadJob ==
    ASSUME NEW s \in AnyProblem, s.shape[1] = 1
    PROVE  CutJob(ProblemJob("L1FullLoad", s))
<1> DEFINE n == CoreLoops(s)
           B == [t \in 1..n |-> L1FullLoadBlock(s, t - 1)]
           j == ProblemJob("L1FullLoad", s)
<1>1. n \in Nat /\ Cuts(s.shape, 1..n, B)
  BY L1FullLoadCuts, ProblemFacts
<1>2. j.copy = "L1FullLoad" /\ Problem(j.args) = s
  BY ProblemJobIs
<1>3. Pieces(j) = [t \in 1..n |-> Numbered(s.shape, B[t])]
  BY <1>2 DEF Tasks, Pieces
<1> HIDE DEF B, n
<1> QED
  BY <1>1, <1>3, TasksCut

(* So are those that split K into slices, when there is a tile of K for    *)
(* each.                                                                   *)
LEMMA SplitkJob ==
    ASSUME NEW s \in AnyProblem, s.cores <= Loops(s)[4], NEW cut \in {"Splitk", "DynamicSplitk"}
    PROVE  CutJob(ProblemJob(cut, s))
<1> DEFINE n == s.shape[1] * CoreLoops(s) * s.cores
           B == [t \in 1..n |-> SplitkBlock(s, t - 1)]
           j == ProblemJob(cut, s)
<1>1. n \in Nat /\ Cuts(s.shape, 1..n, B)
  BY SplitkCuts
<1>2. j.copy = cut /\ Problem(j.args) = s
  BY ProblemJobIs
<1>3. Pieces(j) = [t \in 1..n |-> Numbered(s.shape, SplitkBlock(s, t - 1))]
  <2>1. CASE cut = "Splitk"
    BY <1>2, <2>1 DEF Tasks, Pieces
  <2>2. CASE cut = "DynamicSplitk"
    BY <1>2, <2>2 DEF Tasks, DynamicSplitkBlock, Pieces
  <2> QED
    BY <2>1, <2>2
<1>4. Pieces(j) = [t \in 1..n |-> Numbered(s.shape, B[t])]
  BY <1>3
<1> HIDE DEF B, n
<1> QED
  BY <1>1, <1>4, TasksCut

(* So are those that split K on a single core, of one batch.               *)
LEMMA SingleCoreSplitkJob ==
    ASSUME NEW s \in AnyProblem, s.shape[1] = 1,
           NEW cut \in {"SingleCoreSplitk", "DynamicSingleCoreSplitk"}
    PROVE  CutJob(ProblemJob(cut, s))
<1> DEFINE n == s.cores
           L == SingleCoreTasks(s)
           B == SingleCoreBlocks(s)
           j == ProblemJob(cut, s)
           x == [c \in 1..n |-> [t \in 1..SingleCoreLoops(s, c - 1) |->
                                   Numbered(s.shape, SingleCoreSplitkBlock(s, c - 1, t - 1))]]
<1>1. n \in Nat /\ L \in [1..n -> Nat] /\ CutsByCore(s.shape, n, L, B)
  BY SingleCoreSplitkCuts, ProblemFacts
<1>2. j.copy = cut /\ Problem(j.args) = s
  BY ProblemJobIs
<1>3. Pieces(j) = FlattenSeq(x)
  <2>1. CASE cut = "SingleCoreSplitk"
    BY <1>2, <2>1 DEF OfCores, Pieces
  <2>2. CASE cut = "DynamicSingleCoreSplitk"
    BY <1>2, <2>2 DEF OfCores, DynamicSingleCoreSplitkBlock, Pieces
  <2> QED
    BY <2>1, <2>2
<1>4. x = [c \in 1..n |-> [t \in 1..L[c] |-> Numbered(s.shape, B[c][t])]]
  <2>1. ASSUME NEW c \in 1..n
        PROVE  [t \in 1..SingleCoreLoops(s, c - 1) |->
                  Numbered(s.shape, SingleCoreSplitkBlock(s, c - 1, t - 1))]
                 = [t \in 1..L[c] |-> Numbered(s.shape, B[c][t])]
    BY DEF SingleCoreTasks, SingleCoreBlocks
  <2> QED
    BY <2>1
<1> HIDE DEF B, L, n, x
<1> QED
  BY <1>1, <1>3, <1>4, CoresCut

(* The blocks of a task are a sequence. *)
LEMMA StreamkDomain ==
    ASSUME NEW s \in AnyProblem, NEW t \in 1..StreamkCoreLoops(s)
    PROVE  DOMAIN StreamkBlocks(s, t - 1) = 1..Len(StreamkBlocks(s, t - 1))
<1> DEFINE N0 == NormalBlockNum(s)
           C == StreamkCores(s)
           v == StreamkRunOf(s, t)
           blocks == StreamkBlocks(s, t - 1)
<1>1. N0 \in Nat /\ C \in Nat /\ t \in Nat /\ t >= 1 /\ t <= N0 + C
  BY StreamkFacts, ProblemFacts
<1>2. \E x, y : blocks = <<x>> \/ blocks = <<x, y>>
  <2>1. CASE t <= N0
    BY <1>1, <2>1, StreamkNormal
  <2>2. CASE t > N0
    <3>1. v \in 0..(C - 1) /\ t - 1 = N0 + v
      <4>1. v = t - 1 - N0
        BY DEF StreamkRunOf
      <4> HIDE DEF N0, C, v
      <4> QED
        BY <1>1, <2>2, <4>1
    <3> HIDE DEF v
    <3>2. blocks = StreamkPieces(s, v)
      BY <3>1, StreamkPiecesAre
    <3> HIDE DEF blocks
    <3> QED
      BY <3>2 DEF StreamkPieces
  <2> QED
    BY <1>1, <2>1, <2>2
<1>3. PICK x, y : blocks = <<x>> \/ blocks = <<x, y>>
  BY <1>2
<1> HIDE DEF blocks
<1>4. DOMAIN blocks = 1..Len(blocks)
  <2>1. CASE blocks = <<x>>
    BY <2>1
  <2>2. CASE blocks = <<x, y>>
    BY <2>2
  <2> QED
    BY <1>3, <2>1, <2>2
<1> QED
  BY <1>4 DEF blocks

(* So are those for stream-k, of one batch.                                *)
LEMMA StreamkJob ==
    ASSUME NEW s \in AnyProblem, s.shape[1] = 1, NEW cut \in {"Streamk", "DynamicStreamk"}
    PROVE  CutJob(ProblemJob(cut, s))
<1> DEFINE n == StreamkCoreLoops(s)
           L == StreamkTasks(s)
           B == StreamkCoreBlocks(s)
           j == ProblemJob(cut, s)
           x == [t \in 1..n |-> [i \in DOMAIN StreamkBlocks(s, t - 1) |->
                                   Numbered(s.shape, StreamkBlocks(s, t - 1)[i])]]
<1>1. n \in Nat /\ L \in [1..n -> Nat] /\ CutsByCore(s.shape, n, L, B)
  BY StreamkCuts
<1>2. j.copy = cut /\ Problem(j.args) = s
  BY ProblemJobIs
<1>3. Pieces(j) = FlattenSeq(x)
  <2>1. CASE cut = "Streamk"
    BY <1>2, <2>1 DEF OfStreamk, Pieces
  <2>2. CASE cut = "DynamicStreamk"
    BY <1>2, <2>2 DEF OfStreamk, DynamicStreamkBlocks, Pieces
  <2> QED
    BY <2>1, <2>2
<1>4. x = [t \in 1..n |-> [i \in 1..L[t] |-> Numbered(s.shape, B[t][i])]]
  <2>1. ASSUME NEW t \in 1..n
        PROVE  [i \in DOMAIN StreamkBlocks(s, t - 1) |-> Numbered(s.shape, StreamkBlocks(s, t - 1)[i])]
                 = [i \in 1..L[t] |-> Numbered(s.shape, B[t][i])]
    BY StreamkDomain DEF StreamkTasks, StreamkCoreBlocks
  <2> QED
    BY <2>1
<1> HIDE DEF B, L, n, x
<1> QED
  BY <1>1, <1>3, <1>4, CoresCut

(* So are those along the diagonals of the L2 tiles.                       *)
LEMMA MisplacedJob ==
    ASSUME NEW s \in AnyProblem
    PROVE  CutJob(ProblemJob("Misplaced", s))
<1> DEFINE n == s.shape[1] * CoreLoops(s)
           B == [t \in 1..n |-> MisplacedBlock(s, t - 1)]
           j == ProblemJob("Misplaced", s)
<1>1. n \in Nat /\ Cuts(s.shape, 1..n, B)
  BY MisplacedCuts
<1>2. j.copy = "Misplaced" /\ Problem(j.args) = s
  BY ProblemJobIs
<1>3. Pieces(j) = [t \in 1..n |-> Numbered(s.shape, B[t])]
  BY <1>2 DEF Tasks, Pieces
<1> HIDE DEF B, n
<1> QED
  BY <1>1, <1>3, TasksCut

-----------------------------------------------------------------------------
(* What the cores of a GEMM kernel compute for their blocks.               *)

(* The elements of C: those of the problem with nothing of the depth.      *)
PlaneOf(shape) == [shape EXCEPT ![4] = 1]

(* The places of C, as elements of the problem with a depth of one.        *)
Plane(shape) == Elements(PlaneOf(shape))

(* What comes out of a block if f says what is put where for an element.   *)
Computed(shape, f, block) == {f[e] : e \in {x \in Plane(shape) : Has(block, x)}}

(* It is put where the batches, rows and columns of C are.                 *)
InRowMajor(shape, f) == \A e \in Plane(shape) : f[e][1] = Index(PlaneOf(shape), e)

(* All that a kernel computes.                                             *)
AllComputed(shape, f) == {f[e] : e \in Plane(shape)}

(* Such an element has a batch, a row and a column, and nothing of the     *)
(* depth.                                                                  *)
LEMMA PlaneIs ==
    ASSUME NEW shape \in Shapes
    PROVE  /\ PlaneOf(shape) \in Shapes
           /\ Volume(PlaneOf(shape)) = shape[1] * shape[2] * shape[3]
           /\ \A e \in Plane(shape) :
                /\ e \in Elements(shape) /\ e \in Elements(PlaneOf(shape))
                /\ e[1] \in 0..(shape[1] - 1) /\ e[2] \in 0..(shape[2] - 1) /\ e[3] \in 0..(shape[3] - 1)
                /\ e[4] = 0
                /\ Index(PlaneOf(shape), e) = (e[1] * shape[2] + e[2]) * shape[3] + e[3]
<1> DEFINE p == PlaneOf(shape)
           a == shape[1]
           b == shape[2]
           c == shape[3]
<1>1. a \in Nat \ {0} /\ b \in Nat \ {0} /\ c \in Nat \ {0} /\ shape[4] \in Nat \ {0}
  BY DEF Shapes
<1>2. p \in Shapes /\ p[1] = a /\ p[2] = b /\ p[3] = c /\ p[4] = 1
  BY DEF Shapes, PlaneOf
<1> HIDE DEF p
<1>3. ASSUME NEW e \in Elements(p)
      PROVE  /\ e \in Elements(shape)
             /\ e[1] \in 0..(a - 1) /\ e[2] \in 0..(b - 1) /\ e[3] \in 0..(c - 1)
             /\ e[4] = 0
             /\ Index(p, e) = (e[1] * b + e[2]) * c + e[3]
  BY <1>1, <1>2 DEF Elements, Index
<1> QED
  BY <1>1, <1>2, <1>3 DEF Plane, p, Volume

(* So there is one thing for every place, and as many as places.           *)
LEMMA ComputedOnce ==
    ASSUME NEW shape \in Shapes, NEW f, InRowMajor(shape, f)
    PROVE  /\ \A d, e \in Plane(shape) : f[d][1] = f[e][1] => d = e
           /\ OnePerPlace(AllComputed(shape, f), Volume(PlaneOf(shape)))
           /\ Cardinality(AllComputed(shape, f)) = Volume(PlaneOf(shape))
           /\ Volume(PlaneOf(shape)) \in Nat \ {0}
<1> DEFINE p == PlaneOf(shape)
           n == Volume(p)
           W == AllComputed(shape, f)
<1>1. p \in Shapes /\ Plane(shape) = Elements(p)
  BY PlaneIs DEF Plane
<1> HIDE DEF p
<1>2. ASSUME NEW e \in Elements(p)
      PROVE  f[e][1] = Index(p, e) /\ f[e][1] \in 0..(n - 1) /\ n \in Nat \ {0}
  <2>1. Index(p, e) \in Nat /\ Index(p, e) < n /\ n \in Nat \ {0}
    BY <1>1, IndexIs
  <2> HIDE DEF n
  <2> QED
    BY <1>1, <2>1 DEF InRowMajor, p
<1>3. n \in Nat \ {0}
  <2>1. \E e : e \in Elements(p)
    <3>1. [axis \in 1..4 |-> 0] \in Elements(p)
      BY <1>1 DEF Elements, Shapes
    <3> QED
      BY <3>1
  <2> QED
    BY <1>2, <2>1
<1>4. \A d, e \in Plane(shape) : f[d][1] = f[e][1] => d = e
  BY <1>1, <1>2, IndexDiffers
<1> HIDE DEF n
<1>5. \A x \in W : \E e \in Elements(p) : x = f[e]
  BY <1>1 DEF AllComputed
<1>6. OnePerPlace(W, n)
  <2> HIDE DEF W
  <2> QED
    BY <1>1, <1>2, <1>4, <1>5 DEF OnePerPlace
<1>7. \A i \in 0..(n - 1) : \E x \in W : x[1] = i
  <2> TAKE i \in 0..(n - 1)
  <2>1. PICK e \in Elements(p) : Index(p, e) = i
    BY <1>1, <1>3, IndexOf DEF n
  <2>2. f[e] \in W
    BY <1>1 DEF AllComputed
  <2> HIDE DEF W
  <2> QED
    BY <1>2, <2>1, <2>2
<1> DEFINE g == [i \in 0..(n - 1) |-> CHOOSE x \in W : x[1] = i]
           S == 0..(n - 1)
<1> HIDE DEF W
<1>8. g \in Bijection(S, W)
  <2>1. \A i \in S : g[i] \in W /\ g[i][1] = i
    BY <1>7
  <2> HIDE DEF S
  <2>2. g \in [S -> W]
    BY <2>1 DEF S
  <2> HIDE DEF g
  <2>3. \A x \in W : \E i \in S : g[i] = x
    <3> TAKE x \in W
    <3> QED
      BY <1>6, <2>1 DEF OnePerPlace, S
  <2> QED
    BY <2>1, <2>2, <2>3 DEF Bijection, Injection, Surjection, IsInjective
<1>9. IsFiniteSet(S) /\ Cardinality(S) = n
  BY <1>3, FS_Interval
<1> QED
  BY <1>3, <1>4, <1>6, <1>8, <1>9, FS_Bijection DEF W, n, p, ExistsBijection

(* What the calls of a kernel compute is all of it, each element once, if  *)
(* the blocks that they are for cut the problem.                           *)
LEMMA ComputedPartition ==
    ASSUME NEW shape \in Shapes, NEW f, InRowMajor(shape, f),
           NEW n \in Nat, NEW L \in [1..n -> Nat], NEW B, CutsByCore(shape, n, L, B)
    PROVE  PartitionOf(FlattenSeq([c \in 1..n |-> [t \in 1..L[c] |-> Computed(shape, f, B[c][t])]]),
                       AllComputed(shape, f))
<1> DEFINE seqs == [c \in 1..n |-> [t \in 1..L[c] |-> Computed(shape, f, B[c][t])]]
           W == AllComputed(shape, f)
<1>1. /\ DOMAIN seqs = 1..n
      /\ \A c \in 1..n : /\ DOMAIN seqs[c] = 1..L[c]
                         /\ \A t \in 1..L[c] : seqs[c][t] = Computed(shape, f, B[c][t])
  OBVIOUS
<1>2. seqs \in Seq(Seq(SUBSET W))
  <2> DEFINE S == SUBSET W
             SS == Seq(S)
  <2>1. ASSUME NEW c \in 1..n
        PROVE  seqs[c] \in SS
    <3> DEFINE m == L[c]
    <3>1. \A t \in 1..m : Computed(shape, f, B[c][t]) \in S
      BY DEF Computed, AllComputed
    <3>2. m \in Nat
      OBVIOUS
    <3> HIDE DEF S
    <3>3. seqs[c] \in [1..m -> S]
      BY <3>1
    <3> HIDE DEF m, seqs
    <3> QED
      BY <3>2, <3>3
  <2> HIDE DEF S, SS
  <2>2. seqs \in [1..n -> SS]
    BY <2>1
  <2> HIDE DEF seqs
  <2> QED
    BY <2>2 DEF SS, S
<1> HIDE DEF seqs
<1>3. \A e \in Plane(shape) : e \in Elements(shape)
  BY PlaneIs
<1>4. ASSUME NEW x \in W
      PROVE  \E i \in DOMAIN seqs : \E j \in DOMAIN seqs[i] : x \in seqs[i][j]
  <2>1. PICK e \in Plane(shape) : x = f[e]
    BY DEF AllComputed
  <2>2. PICK c \in 1..n : \E t \in 1..L[c] : Has(B[c][t], e)
    BY <1>3 DEF CutsByCore
  <2>3. PICK t \in 1..L[c] : Has(B[c][t], e)
    BY <2>2
  <2>4. x \in Computed(shape, f, B[c][t])
    BY <2>1, <2>3 DEF Computed
  <2> QED
    BY <1>1, <2>4
<1>5. ASSUME NEW i \in DOMAIN seqs, NEW k \in DOMAIN seqs, NEW j \in DOMAIN seqs[i], NEW l \in DOMAIN seqs[k],
             i # k \/ j # l
      PROVE  seqs[i][j] \cap seqs[k][l] = {}
  <2>1. i \in 1..n /\ k \in 1..n /\ j \in 1..L[i] /\ l \in 1..L[k]
    BY <1>1
  <2> SUFFICES ASSUME NEW x, x \in seqs[i][j], x \in seqs[k][l]
               PROVE  FALSE
    OBVIOUS
  <2>2. PICK d \in Plane(shape) : x = f[d] /\ Has(B[i][j], d)
    BY <1>1, <2>1 DEF Computed
  <2>3. PICK e \in Plane(shape) : x = f[e] /\ Has(B[k][l], e)
    BY <1>1, <2>1 DEF Computed
  <2>4. d = e
    BY <2>2, <2>3, ComputedOnce
  <2> QED
    BY <1>3, <1>5, <2>1, <2>2, <2>3, <2>4 DEF CutsByCore
<1>6. PartitionOf(FlattenSeq(seqs), W)
  BY <1>2, <1>4, <1>5, FlattenedPartition
<1> QED
  BY <1>6 DEF seqs, W

(* How many of n tasks a core gets that takes every k-th from a first on.  *)
TaskCount(first, n, k) == IF n > first THEN CeilDiv(n - first, k) ELSE 0

(* So its j-th task is one of them exactly if there are that many.         *)
LEMMA TaskCountIs ==
    ASSUME NEW first \in Nat, NEW n \in Nat, NEW k \in Nat \ {0}, NEW j \in Nat
    PROVE  /\ TaskCount(first, n, k) \in Nat
           /\ j < TaskCount(first, n, k) <=> first + j * k < n
<1>1. j * k \in Nat
  OBVIOUS
<1>2. CASE n > first
  <2> DEFINE a == n - first
             q == CeilDiv(a, k)
  <2>1. a \in Nat \ {0} /\ n = first + a
    BY <1>2
  <2>2. TaskCount(first, n, k) = q
    BY <1>2 DEF TaskCount
  <2> HIDE DEF a
  <2>3. q \in Nat /\ a <= q * k /\ q * k < a + k /\ q * k \in Nat
    BY <2>1, CeilDivFacts, CeilDivPositive
  <2> HIDE DEF q
  <2>4. ASSUME j < q
        PROVE  j * k < a
    BY <1>1, <2>1, <2>3, <2>4, MultiplyMono
  <2>5. ASSUME q <= j
        PROVE  a <= j * k
    BY <1>1, <2>1, <2>3, <2>5, MultiplyMono
  <2> QED
    BY <1>1, <2>1, <2>2, <2>3, <2>4, <2>5
<1>3. CASE n <= first
  BY <1>1, <1>3 DEF TaskCount
<1> QED
  BY <1>2, <1>3

(* Dealt out one by one, every task is some core's.                        *)
CutOneByOne(shape, n, k, B) ==
    LET L == [c \in 1..k |-> TaskCount(c - 1, n, k)]
    IN /\ L \in [1..k -> Nat]
       /\ CutsByCore(shape, k, L, [c \in 1..k |-> [j \in 1..L[c] |-> B[c + (j - 1) * k]]])

(* Blocks that cut a problem still do when the cores are dealt them one by *)
(* one.                                                                    *)
LEMMA CutsDealt ==
    ASSUME NEW shape, NEW n \in Nat, NEW k \in Nat \ {0}, NEW B, Cuts(shape, 1..n, B)
    PROVE  CutOneByOne(shape, n, k, B)
<1> DEFINE L == [c \in 1..k |-> TaskCount(c - 1, n, k)]
           T(c, j) == c + (j - 1) * k
           D == [c \in 1..k |-> [j \in 1..L[c] |-> B[T(c, j)]]]
<1>1. ASSUME NEW c \in 1..k
      PROVE  L[c] \in Nat /\ \A j \in Nat \ {0} : j <= L[c] <=> T(c, j) <= n
  <2>1. L[c] \in Nat
    BY TaskCountIs
  <2>2. ASSUME NEW j \in Nat \ {0}
        PROVE  j <= L[c] <=> T(c, j) <= n
    <3> DEFINE i == j - 1
               f == c - 1
    <3>1. i \in Nat /\ f \in Nat
      OBVIOUS
    <3> HIDE DEF i, f
    <3>2. i < TaskCount(f, n, k) <=> f + i * k < n
      BY <3>1, TaskCountIs
    <3>3. T(c, j) = f + 1 + i * k
      BY DEF i, f
    <3>4. j = i + 1 /\ L[c] = TaskCount(f, n, k)
      BY DEF i, f
    <3> HIDE DEF T, L
    <3> QED
      BY <2>1, <3>1, <3>2, <3>3, <3>4
  <2> QED
    BY <2>1, <2>2
<1>2. \A c \in 1..k : \A j \in 1..L[c] : T(c, j) \in 1..n /\ D[c][j] = B[T(c, j)]
  <2> TAKE c \in 1..k
  <2> TAKE j \in 1..L[c]
  <2> QED
    BY <1>1
<1>3. \A t \in 1..n : \E c \in 1..k : \E j \in 1..L[c] : t = T(c, j)
  <2> TAKE t \in 1..n
  <2> DEFINE x == t - 1
             v == x % k
             m == x \div k
  <2>1. x \in Nat /\ t = x + 1
    OBVIOUS
  <2> HIDE DEF x
  <2>2. v \in 0..(k - 1) /\ m \in Nat /\ x = m * k + v
    BY <2>1, Division
  <2> HIDE DEF v, m
  <2>3. v + 1 \in 1..k /\ m + 1 \in Nat \ {0} /\ m * k \in Nat
    BY <2>2
  <2>4. T(v + 1, m + 1) = t
    BY <2>1, <2>2, <2>3
  <2>5. m + 1 \in 1..L[v + 1]
    <3> HIDE DEF T, L
    <3> QED
      BY <1>1, <2>3, <2>4
  <2> QED
    BY <2>3, <2>4, <2>5
<1>4. \A c, d \in 1..k : \A j \in 1..L[c], i \in 1..L[d] : T(c, j) = T(d, i) => c = d /\ j = i
  <2> TAKE c, d \in 1..k
  <2> TAKE j \in 1..L[c], i \in 1..L[d]
  <2> HAVE T(c, j) = T(d, i)
  <2> DEFINE v == c - 1
             w == d - 1
             a == j - 1
             b == i - 1
  <2>1. v \in 0..(k - 1) /\ w \in 0..(k - 1) /\ a \in Nat /\ b \in Nat
    BY <1>1
  <2>2. a * k + v = b * k + w
    BY <2>1
  <2> HIDE DEF a, b, v, w
  <2>3. (a * k + v) \div k = a /\ (a * k + v) % k = v
    BY <2>1, Quotient
  <2>4. (b * k + w) \div k = b /\ (b * k + w) % k = w
    BY <2>1, Quotient
  <2>5. a = b /\ v = w
    BY <2>2, <2>3, <2>4
  <2> QED
    BY <1>1, <2>5 DEF a, b, v, w
<1> HIDE DEF T, L
<1>5. \A c \in 1..k : \A j \in 1..L[c] : T(c, j) \in 1..n /\ D[c][j] = B[T(c, j)]
  BY <1>2
<1> HIDE DEF D
<1>6. CutsByCore(shape, k, L, D)
  <2>1. ASSUME NEW e \in Elements(shape)
        PROVE  \E c \in 1..k : \E j \in 1..L[c] : Has(D[c][j], e)
    <3>1. PICK t \in 1..n : Has(B[t], e)
      BY DEF Cuts
    <3>2. PICK c \in 1..k : \E j \in 1..L[c] : t = T(c, j)
      BY <1>3
    <3>3. PICK j \in 1..L[c] : t = T(c, j)
      BY <3>2
    <3> QED
      BY <1>5, <3>1, <3>3
  <2>2. ASSUME NEW e \in Elements(shape), NEW c \in 1..k, NEW d \in 1..k,
               NEW j \in 1..L[c], NEW i \in 1..L[d], Has(D[c][j], e), Has(D[d][i], e)
        PROVE  c = d /\ j = i
    BY <1>4, <1>5, <2>2 DEF Cuts
  <2> QED
    BY <1>5, <2>1, <2>2 DEF CutsByCore, Cuts
<1> QED
  BY <1>1, <1>6 DEF CutOneByOne, D, L, T

-----------------------------------------------------------------------------
(* The offsets into A, B and C that a kernel computes for a block.         *)

(* The first of an interval, and how many there are.                       *)
LEMMA IntervalIs ==
    ASSUME NEW a \in Nat, NEW b \in Nat, a <= b
    PROVE  Min(a..b) = a /\ Cardinality(a..b) = b - a + 1
<1> QED
  BY FS_Interval DEF Min

(* A tile of an axis has a first and a last, within the axis.             *)
TileSpans(s, axis, c) ==
    \E a, b \in Nat : /\ a <= b /\ b < s.shape[axis] /\ Extent(s, axis, c) = a..b
                      /\ Min(Extent(s, axis, c)) = a
                      /\ Cardinality(Extent(s, axis, c)) = b - a + 1

(* So has every tile; none is empty.                                       *)
LEMMA ExtentStarts ==
    ASSUME NEW s \in AnyProblem, NEW axis \in 1..4, NEW c \in 0..(Loops(s)[axis] - 1)
    PROVE  TileSpans(s, axis, c)
<1> DEFINE N == s.shape[axis]
           T == s.tile[axis]
           L == Loops(s)[axis]
           a == c * T
           b == IF c = L - 1 THEN N - 1 ELSE a + T - 1
<1>1. N \in Nat \ {0} /\ T \in Nat \ {0} /\ L \in Nat \ {0} /\ L = CeilDiv(N, T)
  BY ProblemFacts
<1>2. Extent(s, axis, c) = a..b
  BY DEF Extent
<1>3. Extent(s, axis, c) \subseteq 0..(N - 1)
  BY ExtentIs
<1> HIDE DEF N, T, L
<1>4. c \in Nat /\ c + 1 <= L /\ a \in Nat
  BY <1>1 DEF L
<1>5. a + T <= L * T
  BY <1>1, <1>4, MultiplyMono
<1> HIDE DEF a
<1>6. a \in Nat /\ b \in Nat /\ a <= b
  BY <1>1, <1>4, <1>5, CeilDivFacts
<1>7. b < N
  <2>1. b \in 0..(N - 1)
    BY <1>2, <1>3, <1>6
  <2> QED
    BY <1>1, <2>1
<1> HIDE DEF b
<1> QED
  BY <1>2, <1>6, <1>7, IntervalIs DEF N, TileSpans

(* Layouts with a row of A, a row of C and a column of B in one piece.     *)
LaidOut(s, l) ==
    \A i, j \in Nat :
      /\ GetOffset(l.A, i, 0) = i * s.shape[4]
      /\ GetOffset(l.B, 0, j) = j
      /\ GetOffset(l.C, i, j) = i * s.shape[3] + j

(* The block of a tile, with all of the depth.                             *)
TileBlock(s, batch, r, c) == <<{batch}, Extent(s, 2, r), Extent(s, 3, c), 0..(s.shape[4] - 1)>>

(* Such a block is of rows a..b and columns d..z, and begins in A, B and C *)
(* where its first elements are.                                           *)
SpanOf(s, block, a, b, d, z) ==
    /\ a <= b /\ b < s.shape[2] /\ block[2] = a..b /\ Cardinality(block[2]) = b - a + 1
    /\ d <= z /\ z < s.shape[3] /\ block[3] = d..z /\ Cardinality(block[3]) = z - d + 1
    /\ Min(block[3]) = d /\ Cardinality(block[4]) = s.shape[4]

(* Where a kernel starts to read A and B and to write C for such a block.  *)
StartsAt(s, l, block, a, d) ==
    /\ OffsetA(l, block) = a * s.shape[4]
    /\ OffsetB(l, block) = d
    /\ OffsetC(l, block) = a * s.shape[3] + d

(* The offsets that a kernel computes for a tile are those of its first    *)
(* row and column.                                                         *)
LEMMA OffsetsAre ==
    ASSUME NEW s \in AnyProblem, NEW l, LaidOut(s, l), NEW batch,
           NEW r \in 0..(Loops(s)[2] - 1), NEW c \in 0..(Loops(s)[3] - 1)
    PROVE  \E a, b, d, z \in Nat : /\ SpanOf(s, TileBlock(s, batch, r, c), a, b, d, z)
                                   /\ StartsAt(s, l, TileBlock(s, batch, r, c), a, d)
<1> DEFINE block == TileBlock(s, batch, r, c)
           k == s.shape[4]
<1>1. block[2] = Extent(s, 2, r) /\ block[3] = Extent(s, 3, c) /\ block[4] = 0..(k - 1)
  BY DEF TileBlock
<1>2. PICK a, b \in Nat : /\ a <= b /\ b < s.shape[2] /\ block[2] = a..b
                          /\ Min(block[2]) = a /\ Cardinality(block[2]) = b - a + 1
  <2>1. TileSpans(s, 2, r)
    BY ExtentStarts
  <2> QED
    BY <1>1, <2>1 DEF TileSpans
<1>3. PICK d, z \in Nat : /\ d <= z /\ z < s.shape[3] /\ block[3] = d..z
                          /\ Min(block[3]) = d /\ Cardinality(block[3]) = z - d + 1
  <2>1. TileSpans(s, 3, c)
    BY ExtentStarts
  <2> QED
    BY <1>1, <2>1 DEF TileSpans
<1>4. k \in Nat \ {0}
  BY ProblemFacts
<1>5. Min(block[4]) = 0 /\ Cardinality(block[4]) = k
  <2> HIDE DEF block, k
  <2>1. k - 1 \in Nat /\ 0 <= k - 1
    BY <1>4
  <2>2. Min(0..(k - 1)) = 0 /\ Cardinality(0..(k - 1)) = (k - 1) - 0 + 1
    BY <2>1, IntervalIs
  <2> QED
    BY <1>1, <1>4, <2>2
<1> HIDE DEF block
<1>6. StartsAt(s, l, block, a, d)
  BY <1>2, <1>3, <1>5 DEF OffsetA, OffsetB, OffsetC, LaidOut, StartsAt
<1>7. SpanOf(s, block, a, b, d, z)
  BY <1>2, <1>3, <1>5 DEF SpanOf
<1> QED
  BY <1>6, <1>7 DEF block

(* What is put where for an element of a batch.                            *)
Product(s, base, added, e) ==
    <<base[3] + (e[2] * s.shape[3] + e[3]), <<base[1] + e[2] * s.shape[4], base[2] + e[3], s.shape[4], added>> >>

(* What the block computes from there are the products of the elements of  *)
(* the tile.                                                               *)
LEMMA MultipliedIs ==
    ASSUME NEW s \in AnyProblem, NEW l, LaidOut(s, l), NEW batch \in 0..(s.shape[1] - 1),
           NEW r \in 0..(Loops(s)[2] - 1), NEW c \in 0..(Loops(s)[3] - 1),
           NEW base, base[1] \in Nat, base[2] \in Nat, base[3] \in Nat, NEW added,
           NEW f, \A e \in Plane(s.shape) : e[1] = batch => f[e] = Product(s, base, added, e)
    PROVE  LET block == TileBlock(s, batch, r, c)
           IN Multiplied(l, base[1] + OffsetA(l, block), base[2] + OffsetB(l, block),
                         base[3] + OffsetC(l, block), block, added)
                = Computed(s.shape, f, block)
<1> DEFINE block == TileBlock(s, batch, r, c)
           m == s.shape[2]
           n == s.shape[3]
           k == s.shape[4]
           M == Multiplied(l, base[1] + OffsetA(l, block), base[2] + OffsetB(l, block),
                           base[3] + OffsetC(l, block), block, added)
<1>1. PICK a, b, d, z \in Nat : SpanOf(s, block, a, b, d, z) /\ StartsAt(s, l, block, a, d)
  BY OffsetsAre
<1>2. a <= b /\ b < m /\ d <= z /\ z < n
  BY <1>1, Zenon DEF SpanOf
<1>3. block[2] = a..b /\ block[3] = d..z
  BY <1>1, Zenon DEF SpanOf
<1>4. Cardinality(block[2]) = b - a + 1 /\ Cardinality(block[3]) = z - d + 1 /\ Cardinality(block[4]) = k
  BY <1>1, Zenon DEF SpanOf
<1>5. OffsetA(l, block) = a * k /\ OffsetB(l, block) = d /\ OffsetC(l, block) = a * n + d
  BY <1>1, Zenon DEF StartsAt
<1>6. /\ m \in Nat \ {0} /\ n \in Nat \ {0} /\ k \in Nat \ {0} /\ s.shape[1] \in Nat \ {0}
      /\ s.shape \in Shapes /\ batch \in Nat
  BY ProblemFacts
<1>7. block[1] = {batch} /\ block[4] = 0..(k - 1)
  BY DEF TileBlock
<1> DEFINE P(i, j) == <<base[3] + ((a + i) * n + (d + j)),
                        <<base[1] + (a + i) * k, base[2] + (d + j), k, added>> >>
<1> HIDE DEF block
<1> DEFINE I == 0..(b - a)
           J == 0..(z - d)
           Q(i, j) == <<base[3] + OffsetC(l, block) + GetOffset(l.C, i, j),
                        <<base[1] + OffsetA(l, block) + GetOffset(l.A, i, 0),
                          base[2] + OffsetB(l, block) + GetOffset(l.B, 0, j), Cardinality(block[4]), added>> >>
<1>8. /\ \A i \in I : \A j \in J : P(i, j) \in M
      /\ \A x \in M : \E i \in I : \E j \in J : x = P(i, j)
  <2>1. ASSUME NEW i \in I, NEW j \in J
        PROVE  Q(i, j) = P(i, j)
    <3>1. i \in Nat /\ j \in Nat
      OBVIOUS
    <3>2. /\ (a + i) * k = a * k + i * k /\ (a + i) * n = a * n + i * n
          /\ a * k \in Nat /\ i * k \in Nat /\ a * n \in Nat /\ i * n \in Nat
      BY <1>6, <3>1
    <3> DEFINE ak == a * k
               an == a * n
               ik == i * k
               in == i * n
    <3>3. /\ ak \in Nat /\ an \in Nat /\ ik \in Nat /\ in \in Nat
          /\ base[3] + (an + d) + (in + j) = base[3] + (an + in + (d + j))
          /\ base[1] + ak + ik = base[1] + (ak + ik)
          /\ base[2] + d + j = base[2] + (d + j)
      <4>1. ak \in Nat /\ an \in Nat /\ ik \in Nat /\ in \in Nat
        BY <3>2
      <4> HIDE DEF ak, an, ik, in
      <4> QED
        BY <3>1, <4>1
    <3> QED
      BY <1>4, <1>5, <3>1, <3>2, <3>3 DEF LaidOut
  <2>2. 0..(Cardinality(block[2]) - 1) = I /\ 0..(Cardinality(block[3]) - 1) = J
    BY <1>2, <1>4
  <2>3. /\ \A i \in 0..(Cardinality(block[2]) - 1) : \A j \in 0..(Cardinality(block[3]) - 1) : Q(i, j) \in M
        /\ \A x \in M : \E i \in 0..(Cardinality(block[2]) - 1) :
             \E j \in 0..(Cardinality(block[3]) - 1) : x = Q(i, j)
    BY DEF Multiplied
  <2> HIDE DEF P, Q, I, J, M
  <2>4. /\ \A i \in I : \A j \in J : Q(i, j) \in M
        /\ \A x \in M : \E i \in I : \E j \in J : x = Q(i, j)
    BY <2>2, <2>3
  <2>5. ASSUME NEW x \in M
        PROVE  \E i \in I : \E j \in J : x = P(i, j)
    <3>1. PICK i \in I : \E j \in J : x = Q(i, j)
      BY <2>4
    <3>2. PICK j \in J : x = Q(i, j)
      BY <3>1
    <3> QED
      BY <2>1, <3>2
  <2> QED
    BY <2>1, <2>4, <2>5
<1> HIDE DEF M
<1>9. \A i \in I : a + i \in a..b
  BY <1>2
<1>10. \A j \in J : d + j \in d..z
  BY <1>2
<1>11. \A y \in a..b : y - a \in I /\ a + (y - a) = y /\ y \in Nat /\ y < m
  BY <1>2, <1>6
<1>12. \A x \in d..z : x - d \in J /\ d + (x - d) = x /\ x \in Nat /\ x < n
  BY <1>2, <1>6
<1> HIDE DEF I, J
<1>13. ASSUME NEW e \in Plane(s.shape), Has(block, e)
      PROVE  f[e] \in M
  <2>1. e[1] \in block[1] /\ e[2] \in block[2] /\ e[3] \in block[3]
    BY <1>13 DEF Has
  <2> DEFINE i == e[2] - a
             j == e[3] - d
  <2>2. i \in I /\ j \in J /\ a + i = e[2] /\ d + j = e[3] /\ e[1] = batch
    BY <1>7, <1>3, <1>11, <1>12, <2>1
  <2>3. f[e] = P(i, j)
    BY <2>2 DEF Product
  <2> HIDE DEF i, j, P
  <2> QED
    BY <1>8, <2>2, <2>3
<1>14. ASSUME NEW i \in I, NEW j \in J
      PROVE  \E e \in Plane(s.shape) : Has(block, e) /\ P(i, j) = f[e]
  <2> DEFINE y == a + i
             x == d + j
             e == <<batch, y, x, 0>>
  <2>1. y \in Nat /\ x \in Nat /\ y \in a..b /\ x \in d..z /\ y < m /\ x < n
    BY <1>9, <1>10, <1>11, <1>12
  <2>2. P(i, j) = <<base[3] + (y * n + x), <<base[1] + y * k, base[2] + x, k, added>> >>
    OBVIOUS
  <2> HIDE DEF y, x, P
  <2>3. e \in [1..4 -> Nat] /\ e[1] = batch /\ e[2] = y /\ e[3] = x /\ e[4] = 0
    BY <1>6, <2>1
  <2> HIDE DEF e
  <2>4. \A axis \in 1..4 : axis = 1 \/ axis = 2 \/ axis = 3 \/ axis = 4
    OBVIOUS
  <2>5. Has(block, e)
    <3>1. 0 \in 0..(k - 1)
      BY <1>6
    <3> QED
      BY <1>7, <1>3, <2>1, <2>3, <2>4, <3>1 DEF Has
  <2> QED
    BY <1>6, <2>1, <2>2, <2>3, <2>4, <2>5 DEF Product, Plane, Elements, PlaneOf, Shapes
<1> HIDE DEF P
<1>15. M = Computed(s.shape, f, block)
  <2>1. ASSUME NEW x \in M
        PROVE  x \in Computed(s.shape, f, block)
    <3>1. PICK i \in I : \E j \in J : x = P(i, j)
      BY <1>8
    <3>2. PICK j \in J : x = P(i, j)
      BY <3>1
    <3>3. PICK e \in Plane(s.shape) : Has(block, e) /\ P(i, j) = f[e]
      BY <1>14
    <3> QED
      BY <3>2, <3>3 DEF Computed
  <2>2. ASSUME NEW x \in Computed(s.shape, f, block)
        PROVE  x \in M
    BY <1>13, <2>2 DEF Computed
  <2> QED
    BY <2>1, <2>2
<1> QED
  BY <1>15 DEF M, block

-----------------------------------------------------------------------------
(* The kernels, and what each is to compute.                               *)

(* The kernels whose cores are dealt the blocks of one problem, and the    *)
(* problems that each is for: A and B of a problem for vector cores have   *)
(* one element of the depth, only one kernel has batches, and the small    *)
(* kernels have a core for every block.                                    *)
Kernels ==
    {"BasicMatmul", "BasicMatmulTla", "BasicMatmulPreload", "MatmulBias", "DynamicCommonMatmul",
     "MatmulFullLoadA", "AivMatmul", "BatchedMatmul", "SmallMatmul", "DynamicSmallMatmul"}

(* The problems of these kernels: any shape, tile, offset, direction and   *)
(* number of cores.                                                        *)
AnyKernelProblem ==
    [kernel : Kernels, shape : Shapes, tile : Shapes, offset : Nat \ {0}, direction : {0, 1},
     cores : Nat \ {0}, groups : {<< >>}]

(* The problems that the host starts such a kernel for.                    *)
Runs(s) ==
    /\ s.kernel # "BatchedMatmul" => s.shape[1] = 1
    /\ s.kernel = "AivMatmul" => s.shape[4] = 1
    /\ s.kernel = "SmallMatmul" => CoreLoops(s) <= s.cores
    /\ s.kernel = "DynamicSmallMatmul" => CoreLoops(s) = s.cores

(* Its problem is one for a swizzle.                                       *)
Plain(s) ==
    [shape |-> s.shape, tile |-> s.tile, offset |-> s.offset, direction |-> s.direction, cores |-> s.cores]

(* The blocks of the kernel are those of its problem for a swizzle.        *)
LEMMA PlainIs ==
    ASSUME NEW s \in AnyKernelProblem
    PROVE  /\ Plain(s) \in AnyProblem /\ s.kernel \in Kernels
           /\ Plain(s).shape = s.shape /\ Plain(s).cores = s.cores
           /\ Loops(Plain(s)) = Loops(s) /\ CoreLoops(Plain(s)) = CoreLoops(s)
           /\ \A t : IdentityBlock(Plain(s), t) = IdentityBlock(s, t)
           /\ \A t : DynamicIdentityBlock(Plain(s), t) = IdentityBlock(s, t)
           /\ \A t : DynamicIdentityBlock(s, t) = IdentityBlock(s, t)
           /\ \A t : InOrderBlock(Plain(s), t) = InOrderBlock(s, t)
           /\ \A t : L1FullLoadBlock(Plain(s), t) = L1FullLoadBlock(s, t)
<1> DEFINE p == Plain(s)
<1>1. /\ p.shape = s.shape /\ p.tile = s.tile /\ p.offset = s.offset /\ p.direction = s.direction
      /\ p.cores = s.cores
  BY DEF Plain
<1> HIDE DEF p
<1>2. Loops(p) = Loops(s)
  BY <1>1 DEF Loops
<1>3. CoreLoops(p) = CoreLoops(s)
  BY <1>2 DEF CoreLoops
<1>4. \A b, mn : Along(p, b, mn) = Along(s, b, mn)
  BY <1>1, <1>2 DEF Along, Extent
<1>5. \A t : InOrderBlock(p, t) = InOrderBlock(s, t)
  BY <1>2, <1>4 DEF InOrderBlock
<1>6. \A x, t : DynamicIdentityBlock(x, t) = IdentityBlock(x, t)
  BY DEF DynamicIdentityBlock, IdentityBlock
<1>7. \A t : InnerIdx(p, t) = InnerIdx(s, t)
  BY <1>1, <1>3 DEF InnerIdx
<1>8. \A t : L1FullLoadBlock(p, t) = L1FullLoadBlock(s, t)
  BY <1>1, <1>2, <1>4, <1>7 DEF L1FullLoadBlock, Swizzled
<1> QED
  BY <1>1, <1>2, <1>3, <1>4, <1>5, <1>6, <1>8 DEF p, AnyProblem, AnyKernelProblem, Plain,
       IdentityBlock, Swizzled

(* What is to come out for an element of C.                                *)
BaseOf(s, b) ==
    IF s.kernel = "BatchedMatmul"
    THEN <<b * (s.shape[2] * s.shape[4]), b * (s.shape[4] * s.shape[3]), b * (s.shape[2] * s.shape[3])>>
    ELSE NoBase

(* Only one kernel adds a bias, by column.                                 *)
AddedOf(s, j) == IF s.kernel = "MatmulBias" THEN {j} ELSE {}

(* What is to come out, by element of C.                                   *)
Values(s) == [e \in Plane(s.shape) |-> Product(s, BaseOf(s, e[1]), AddedOf(s, e[3]), e)]

(* The bases of a batch are places.                                        *)
LEMMA BasesAre ==
    ASSUME NEW s, s.shape \in Shapes, NEW b \in Nat
    PROVE  BaseOf(s, b)[1] \in Nat /\ BaseOf(s, b)[2] \in Nat /\ BaseOf(s, b)[3] \in Nat
<1> DEFINE m == s.shape[2]
           n == s.shape[3]
           k == s.shape[4]
<1>1. m \in Nat /\ n \in Nat /\ k \in Nat
  BY DEF Shapes
<1>2. CASE s.kernel = "BatchedMatmul"
  <2>1. BaseOf(s, b) = <<b * (m * k), b * (k * n), b * (m * n)>>
    BY <1>2 DEF BaseOf
  <2> HIDE DEF m, n, k
  <2> QED
    BY <1>1, <2>1
<1>3. CASE s.kernel # "BatchedMatmul"
  BY <1>3 DEF BaseOf, NoBase
<1> QED
  BY <1>2, <1>3

(* C is in row major order, batch after batch.                             *)
LEMMA ValuesInOrder ==
    ASSUME NEW s \in AnyKernelProblem, Runs(s)
    PROVE  InRowMajor(s.shape, Values(s))
<1> DEFINE m == s.shape[2]
           n == s.shape[3]
<1>1. s.shape \in Shapes
  BY DEF AnyKernelProblem
<1>2. m \in Nat \ {0} /\ n \in Nat \ {0}
  BY <1>1 DEF Shapes
<1> SUFFICES ASSUME NEW e \in Plane(s.shape)
             PROVE  Values(s)[e][1] = Index(PlaneOf(s.shape), e)
  BY DEF InRowMajor
<1>3. /\ e[1] \in 0..(s.shape[1] - 1) /\ e[2] \in Nat /\ e[3] \in Nat
      /\ Index(PlaneOf(s.shape), e) = (e[1] * m + e[2]) * n + e[3]
  <2>1. /\ e[1] \in 0..(s.shape[1] - 1) /\ e[2] \in 0..(m - 1) /\ e[3] \in 0..(n - 1)
        /\ Index(PlaneOf(s.shape), e) = (e[1] * m + e[2]) * n + e[3]
    BY <1>1, PlaneIs
  <2> HIDE DEF m, n
  <2> QED
    BY <1>2, <2>1
<1>4. Values(s)[e][1] = BaseOf(s, e[1])[3] + (e[2] * n + e[3])
  BY DEF Values, Product
<1> HIDE DEF m, n
<1> DEFINE b == e[1]
<1>5. b \in Nat
  BY <1>1, <1>3 DEF Shapes
<1>6. BaseOf(s, b)[3] = (b * m) * n
  <2>1. CASE s.kernel = "BatchedMatmul"
    BY <1>2, <1>5, <2>1 DEF BaseOf, m, n
  <2>2. CASE s.kernel # "BatchedMatmul"
    BY <1>2, <1>3, <2>2 DEF Runs, BaseOf, NoBase
  <2> QED
    BY <2>1, <2>2
<1> HIDE DEF b
<1> QED
  BY <1>2, <1>3, <1>4, <1>5, <1>6 DEF b

(* The elements of C, by batch, row and column.                            *)
LEMMA PlaneHas ==
    ASSUME NEW shape \in Shapes, NEW b \in 0..(shape[1] - 1), NEW i \in 0..(shape[2] - 1),
           NEW j \in 0..(shape[3] - 1)
    PROVE  \E e \in Plane(shape) : e[1] = b /\ e[2] = i /\ e[3] = j
<1> DEFINE e == <<b, i, j, 0>>
<1>1. b \in Nat /\ i \in Nat /\ j \in Nat /\ b < shape[1] /\ i < shape[2] /\ j < shape[3]
  BY DEF Shapes
<1>2. e \in [1..4 -> Nat] /\ e[1] = b /\ e[2] = i /\ e[3] = j /\ e[4] = 0
  BY <1>1
<1> HIDE DEF e
<1> QED
  BY <1>1, <1>2 DEF Plane, Elements, PlaneOf, Shapes

(* What a kernel is to compute.                                            *)
LEMMA ResultIs ==
    ASSUME NEW s \in AnyKernelProblem, Runs(s)
    PROVE  Result(s.kernel, s) = AllComputed(s.shape, Values(s))
<1> DEFINE m == s.shape[2]
           n == s.shape[3]
           k == s.shape[4]
           R == Result(s.kernel, s)
           P(b, i, j) == <<BaseOf(s, b)[3] + i * n + j,
                           <<BaseOf(s, b)[1] + i * k, BaseOf(s, b)[2] + j, k, AddedOf(s, j)>> >>
<1>1. s.shape \in Shapes /\ s.kernel \in Kernels
  BY DEF AnyKernelProblem
<1>2. m \in Nat \ {0} /\ n \in Nat \ {0} /\ k \in Nat \ {0} /\ s.shape[1] \in Nat \ {0}
  BY <1>1 DEF Shapes
<1>3. /\ \A b \in 0..(s.shape[1] - 1) : \A i \in 0..(m - 1) : \A j \in 0..(n - 1) : P(b, i, j) \in R
      /\ \A x \in R : \E b \in 0..(s.shape[1] - 1) : \E i \in 0..(m - 1) : \E j \in 0..(n - 1) : x = P(b, i, j)
  <2>1. CASE s.kernel = "BatchedMatmul"
    <3> DEFINE U(b) == {<<b * m * n + i * n + j, <<b * m * k + i * k, b * k * n + j, k, {}>> >> :
                          i \in 0..(m - 1), j \in 0..(n - 1)}
    <3>1. R = UNION {U(b) : b \in 0..(s.shape[1] - 1)}
      BY <2>1 DEF Result, ProductOf
    <3>2. ASSUME NEW b \in 0..(s.shape[1] - 1)
          PROVE  /\ BaseOf(s, b) = <<b * m * k, b * k * n, b * m * n>>
                 /\ \A j : AddedOf(s, j) = {}
      <4>1. BaseOf(s, b) = <<b * (m * k), b * (k * n), b * (m * n)>> /\ \A j : AddedOf(s, j) = {}
        BY <2>1 DEF BaseOf, AddedOf
      <4> HIDE DEF m, n, k
      <4> QED
        BY <1>2, <4>1
    <3>3. ASSUME NEW b \in 0..(s.shape[1] - 1)
          PROVE  /\ \A i \in 0..(m - 1) : \A j \in 0..(n - 1) : P(b, i, j) \in U(b)
                 /\ \A x \in U(b) : \E i \in 0..(m - 1) : \E j \in 0..(n - 1) : x = P(b, i, j)
      <4> DEFINE base == <<b * m * k, b * k * n, b * m * n>>
                 Q(i, j) == <<base[3] + i * n + j, <<base[1] + i * k, base[2] + j, k, {}>> >>
      <4>1. base = BaseOf(s, b) /\ \A j : AddedOf(s, j) = {}
        BY <3>2
      <4>2. \A i, j : P(b, i, j) = Q(i, j)
        <5> HIDE DEF base, m, n, k
        <5> QED
          BY <4>1
      <4>3. \A i \in 0..(m - 1) : \A j \in 0..(n - 1) : Q(i, j) \in U(b)
        OBVIOUS
      <4>4. \A x \in U(b) : \E i \in 0..(m - 1) : \E j \in 0..(n - 1) : x = Q(i, j)
        OBVIOUS
      <4> HIDE DEF P, Q, U
      <4> QED
        BY <4>2, <4>3, <4>4
    <3> HIDE DEF R, U, P, m, n
    <3> QED
      BY <3>1, <3>3
  <2>2. CASE s.kernel = "MatmulBias"
    <3>1. R = ProductOf(m, n, NoBase, LAMBDA i : i * k, k, LAMBDA j : {j})
      BY <2>2 DEF Result, ProductOf
    <3> HIDE DEF R, m, n, k
    <3> QED
      BY <2>2, <3>1 DEF ProductOf, BaseOf, AddedOf, Runs
  <2>3. CASE s.kernel \in Kernels \ {"BatchedMatmul", "MatmulBias"}
    <3>1. R = ProductOf(m, n, NoBase, LAMBDA i : i * k, k, LAMBDA j : {})
      BY <2>3 DEF Result, Kernels, ProductOf
    <3> HIDE DEF R, m, n, k
    <3> QED
      BY <2>3, <3>1 DEF ProductOf, BaseOf, AddedOf, Runs
  <2> QED
    BY <1>1, <2>1, <2>2, <2>3
<1>4. ASSUME NEW e \in Plane(s.shape)
      PROVE  /\ e[1] \in 0..(s.shape[1] - 1) /\ e[2] \in 0..(m - 1) /\ e[3] \in 0..(n - 1)
             /\ Values(s)[e] = P(e[1], e[2], e[3])
  <2>1. e[1] \in 0..(s.shape[1] - 1) /\ e[2] \in 0..(m - 1) /\ e[3] \in 0..(n - 1)
    BY <1>1, PlaneIs
  <2>2. BaseOf(s, e[1])[3] + (e[2] * n + e[3]) = BaseOf(s, e[1])[3] + e[2] * n + e[3]
    <3> HIDE DEF n
    <3> QED
      BY <1>1, <1>2, <2>1, BasesAre
  <2> QED
    BY <2>1, <2>2 DEF Values, Product
<1> HIDE DEF P, R
<1>5. ASSUME NEW x \in R
      PROVE  x \in AllComputed(s.shape, Values(s))
  <2>1. PICK b \in 0..(s.shape[1] - 1) : \E i \in 0..(m - 1) : \E j \in 0..(n - 1) : x = P(b, i, j)
    BY <1>3
  <2>2. PICK i \in 0..(m - 1) : \E j \in 0..(n - 1) : x = P(b, i, j)
    BY <2>1
  <2>3. PICK j \in 0..(n - 1) : x = P(b, i, j)
    BY <2>2
  <2>4. PICK e \in Plane(s.shape) : e[1] = b /\ e[2] = i /\ e[3] = j
    BY <1>1, PlaneHas
  <2> QED
    BY <1>4, <2>3, <2>4 DEF AllComputed
<1>6. ASSUME NEW x \in AllComputed(s.shape, Values(s))
      PROVE  x \in R
  <2>1. PICK e \in Plane(s.shape) : x = Values(s)[e]
    BY DEF AllComputed
  <2> QED
    BY <1>3, <1>4, <2>1
<1> QED
  BY <1>5, <1>6 DEF R

(* The place of an element in row major and in column major order.         *)
LEMMA RowMajorAt ==
    ASSUME NEW rows, NEW cols, NEW ld \in Nat, NEW r \in Nat, NEW c \in Nat
    PROVE  /\ GetOffset(RowMajor(rows, cols, ld), r, c) = r * ld + c
           /\ GetOffset(ColumnMajor(rows, cols, ld), r, c) = r + c * ld
<1> QED
  BY DEF GetOffset, RowMajor, ColumnMajor, Layout

(* The layouts that the host gives a kernel put row i of A at i * K,       *)
(* column j of B at j, and so on; with a depth of one A may as well be a   *)
(* column.                                                                 *)
LEMMA ParamsLaidOut ==
    ASSUME NEW s, s.shape \in Shapes, NEW p, p.shape = s.shape
    PROVE  /\ LaidOut(p, ParamsOf(s))
           /\ \A x : x.A = ColumnMajor(s.shape[2], 1, s.shape[2]) /\ s.shape[4] = 1
                     /\ x.B = RowMajor(1, s.shape[3], s.shape[3]) /\ x.C = ParamsOf(s).C
                       => LaidOut(p, x)
<1> DEFINE m == s.shape[2]
           n == s.shape[3]
           k == s.shape[4]
           l == ParamsOf(s)
<1>1. m \in Nat /\ n \in Nat /\ k \in Nat
  BY DEF Shapes
<1>2. l.A = RowMajor(m, k, k) /\ l.B = RowMajor(k, n, n) /\ l.C = RowMajor(m, n, n)
  BY DEF ParamsOf, MatmulParams
<1> HIDE DEF m, n, k, l
<1>3. ASSUME NEW i \in Nat, NEW j \in Nat
      PROVE  /\ GetOffset(RowMajor(m, k, k), i, 0) = i * k
             /\ \A rows : GetOffset(RowMajor(rows, n, n), 0, j) = j
             /\ GetOffset(RowMajor(m, n, n), i, j) = i * n + j
             /\ GetOffset(ColumnMajor(m, 1, m), i, 0) = i
  <2>1. /\ GetOffset(RowMajor(m, k, k), i, 0) = i * k + 0
        /\ \A rows : GetOffset(RowMajor(rows, n, n), 0, j) = 0 * n + j
        /\ GetOffset(RowMajor(m, n, n), i, j) = i * n + j
        /\ GetOffset(ColumnMajor(m, 1, m), i, 0) = i + 0 * m
    <3>1. 0 \in Nat
      OBVIOUS
    <3>2. GetOffset(RowMajor(m, k, k), i, 0) = i * k + 0
      BY <1>1, <3>1, RowMajorAt
    <3>3. \A rows : GetOffset(RowMajor(rows, n, n), 0, j) = 0 * n + j
      BY <1>1, <3>1, RowMajorAt
    <3>4. GetOffset(RowMajor(m, n, n), i, j) = i * n + j
      BY <1>1, RowMajorAt
    <3>5. GetOffset(ColumnMajor(m, 1, m), i, 0) = i + 0 * m
      BY <1>1, <3>1, RowMajorAt
    <3> QED
      BY <3>2, <3>3, <3>4, <3>5
  <2>2. i * k + 0 = i * k /\ 0 * n + j = j /\ i + 0 * m = i
    BY <1>1
  <2> QED
    BY <2>1, <2>2
<1>4. LaidOut(p, l)
  BY <1>2, <1>3 DEF LaidOut, m, n, k
<1>5. ASSUME NEW x, x.A = ColumnMajor(m, 1, m), k = 1, x.B = RowMajor(1, n, n), x.C = l.C
      PROVE  LaidOut(p, x)
  <2>1. \A i \in Nat : i = i * k
    BY <1>5
  <2> QED
    BY <1>2, <1>3, <1>5, <2>1 DEF LaidOut, m, n, k
<1>6. \A x : x.A = ColumnMajor(m, 1, m) /\ k = 1 /\ x.B = RowMajor(1, n, n) /\ x.C = l.C => LaidOut(p, x)
  BY <1>5
<1> QED
  BY <1>4, <1>6, Zenon DEF m, n, k, l

(* A block of a scheduler is a tile of a batch.                            *)
IsTile(s, block, batch) ==
    /\ batch \in 0..(s.shape[1] - 1)
    /\ \E r \in 0..(Loops(s)[2] - 1) : \E c \in 0..(Loops(s)[3] - 1) : block = TileBlock(s, batch, r, c)

(* A block along the order of the swizzle is a tile.                       *)
LEMMA AlongTile ==
    ASSUME NEW s \in AnyProblem, NEW q \in 0..(s.shape[1] - 1), NEW i \in 0..(CoreLoops(s) - 1)
    PROVE  IsTile(s, Along(s, q, Swizzled(Loops(s)[2], Loops(s)[3], s, i)), q)
<1> DEFINE block == Along(s, q, Swizzled(Loops(s)[2], Loops(s)[3], s, i))
<1>1. block = TileBlock(s, q, Order(s)[i][1], Order(s)[i][2])
  BY AlongOrder DEF BlockOf, TileBlock
<1> HIDE DEF block
<1> QED
  BY <1>1, OrderPasses DEF IsTile, Passes, block

(* So is the block of a task of the identity swizzle, of the batch of the  *)
(* task,                                                                   *)
LEMMA IdentityTile ==
    ASSUME NEW s \in AnyProblem, NEW t \in 0..(s.shape[1] * CoreLoops(s) - 1)
    PROVE  IsTile(s, IdentityBlock(s, t), t \div CoreLoops(s))
<1> DEFINE a == s.shape[1]
           b == CoreLoops(s)
           u == t + 1
<1>1. a \in Nat \ {0} /\ b \in Nat \ {0}
  BY ProblemFacts
<1>2. t \div b \in 0..(a - 1) /\ t % b \in 0..(b - 1)
  <2> HIDE DEF a, b
  <2>1. a * b \in Nat \ {0} /\ \A x \in 1..(a * b) : (x - 1) \div b \in 0..(a - 1) /\ (x - 1) % b \in 0..(b - 1)
    BY <1>1, TaskPair
  <2>2. t \in Int /\ u \in 1..(a * b) /\ u - 1 = t
    BY <2>1 DEF a, b
  <2> QED
    BY <2>1, <2>2
<1> QED
  BY <1>2, AlongTile DEF IdentityBlock

(* and the block of a task of the swizzle for the full load of L1.         *)
LEMMA L1FullLoadTile ==
    ASSUME NEW s \in AnyProblem, s.shape[1] = 1, NEW t \in 0..(CoreLoops(s) - 1)
    PROVE  IsTile(s, L1FullLoadBlock(s, t), 0)
BY InnerIdxIs, AlongTile DEF L1FullLoadBlock

(* Row by row, every tile is passed once.                                  *)
LEMMA InOrderCuts ==
    ASSUME NEW s \in AnyProblem, s.shape[1] = 1
    PROVE  /\ CoreLoops(s) \in Nat \ {0}
           /\ Cuts(s.shape, 1..CoreLoops(s), [t \in 1..CoreLoops(s) |-> InOrderBlock(s, t - 1)])
           /\ \A t \in 0..(CoreLoops(s) - 1) : IsTile(s, InOrderBlock(s, t), 0)
<1> DEFINE rows == Loops(s)[2]
           cols == Loops(s)[3]
           n == rows * cols
           T == 1..n
           D == 0..(s.shape[4] - 1)
           z == [i \in 0..(n - 1) |-> <<i \div cols, i % cols>>]
           q == [t \in T |-> 0]
           p == [t \in T |-> t - 1]
           K == [t \in T |-> D]
           B == [t \in T |-> InOrderBlock(s, t - 1)]
<1>1. rows \in Nat \ {0} /\ cols \in Nat \ {0} /\ CoreLoops(s) = n
  BY ProblemFacts DEF CoreLoops
<1> HIDE DEF rows, cols
<1>2. /\ n \in Nat \ {0}
      /\ \A t \in 1..n :
           /\ (t - 1) \div cols \in 0..(rows - 1) /\ (t - 1) % cols \in 0..(cols - 1)
           /\ t = ((t - 1) \div cols) * cols + ((t - 1) % cols) + 1
      /\ \A x \in 0..(rows - 1), m \in 0..(cols - 1) :
           /\ x * cols + m + 1 \in 1..n
           /\ ((x * cols + m + 1) - 1) \div cols = x /\ ((x * cols + m + 1) - 1) % cols = m
  BY <1>1, TaskPair
<1> HIDE DEF n
<1>3. \A i \in 0..(n - 1) : i + 1 \in 1..n /\ (i + 1) - 1 = i
  BY <1>2
<1>4. \A i \in 0..(n - 1) : /\ z[i][1] = i \div cols /\ z[i][2] = i % cols
                            /\ i \div cols \in 0..(rows - 1) /\ i % cols \in 0..(cols - 1)
                            /\ i + 1 = (i \div cols) * cols + (i % cols) + 1
  BY <1>2, <1>3
<1>5. Passes(rows, cols, n, z)
  <2> HIDE DEF z
  <2>1. ASSUME NEW r \in 0..(rows - 1), NEW c \in 0..(cols - 1)
        PROVE  \E i \in 0..(n - 1) : z[i][1] = r /\ z[i][2] = c
    BY <1>2, <1>4
  <2>2. ASSUME NEW i \in 0..(n - 1), NEW j \in 0..(n - 1), z[i][1] = z[j][1], z[i][2] = z[j][2]
        PROVE  i = j
    BY <1>4, <2>2
  <2> QED
    BY <1>4, <2>1, <2>2 DEF Passes
<1>6. \A i \in 0..(n - 1) :
        InOrderBlock(s, i) = <<{0}, Extent(s, 2, z[i][1]), Extent(s, 3, z[i][2]), D>>
  BY <1>4 DEF InOrderBlock, Along, cols
<1> HIDE DEF z
<1>7. \A t \in T : q[t] = 0 /\ p[t] = t - 1 /\ K[t] = D /\ B[t] = InOrderBlock(s, t - 1) /\ t - 1 \in 0..(n - 1)
  BY <1>2
<1> HIDE DEF q, p, K
<1>8. B = BlocksOf(s, T, z, q, p, K)
  BY <1>6, <1>7 DEF BlocksOf, BlockOf
<1> HIDE DEF B
<1>9. Dealt(s, T, q, p, K)
  <2>1. s.shape[1] - 1 = 0
    OBVIOUS
  <2>2. ASSUME NEW t \in T
        PROVE  /\ q[t] \in 0..(s.shape[1] - 1) /\ p[t] \in 0..(n - 1) /\ K[t] \subseteq D
    <3> HIDE DEF T, D
    <3> QED
      BY <1>7, <2>1
  <2>3. ASSUME NEW b \in 0..(s.shape[1] - 1), NEW i \in 0..(n - 1), NEW d \in D
        PROVE  \E t \in T : q[t] = b /\ p[t] = i /\ d \in K[t]
    <3>1. i + 1 \in T /\ (i + 1) - 1 = i /\ b = 0
      BY <1>3, <2>1
    <3> QED
      BY <1>7, <3>1
  <2>4. ASSUME NEW t \in T, NEW u \in T, p[t] = p[u]
        PROVE  t = u
    BY <1>7, <2>4
  <2> QED
    BY <1>1, <2>2, <2>3, <2>4 DEF Dealt
<1>10. Cuts(s.shape, T, B)
  BY <1>1, <1>5, <1>8, <1>9, DealtCuts DEF rows, cols
<1>11. ASSUME NEW t \in 0..(n - 1)
       PROVE  IsTile(s, InOrderBlock(s, t), 0)
  BY <1>5, <1>6 DEF IsTile, rows, cols, TileBlock, Passes
<1> QED
  BY <1>1, <1>2, <1>10, <1>11 DEF B

-----------------------------------------------------------------------------
(* What a call of the block computes.                                      *)

(* What a call of the block computes.                                      *)
LEMMA CallIs ==
    ASSUME NEW s \in AnyKernelProblem, Runs(s), s.kernel # "MatmulBias",
           NEW l, LaidOut(Plain(s), l), NEW block, NEW batch, IsTile(Plain(s), block, batch)
    PROVE  Call(l, BaseOf(s, batch), block) = Computed(s.shape, Values(s), block)
<1> DEFINE p == Plain(s)
           f == Values(s)
<1>1. p \in AnyProblem /\ p.shape = s.shape /\ s.shape \in Shapes
  BY PlainIs DEF AnyKernelProblem
<1>2. \A e \in Plane(s.shape) : e[1] = batch => f[e] = Product(p, BaseOf(s, batch), {}, e)
  BY <1>1 DEF Values, Product, AddedOf
<1> HIDE DEF p, f
<1>3. batch \in 0..(p.shape[1] - 1)
  BY DEF IsTile, p
<1>4. PICK r \in 0..(Loops(p)[2] - 1) : \E c \in 0..(Loops(p)[3] - 1) : block = TileBlock(p, batch, r, c)
  BY DEF IsTile, p
<1>5. PICK c \in 0..(Loops(p)[3] - 1) : block = TileBlock(p, batch, r, c)
  BY <1>4
<1> DEFINE base == BaseOf(s, batch)
           added == {}
<1>6. base[1] \in Nat /\ base[2] \in Nat /\ base[3] \in Nat
  BY <1>1, <1>3, BasesAre DEF Shapes
<1> HIDE DEF base, added
<1>7. Multiplied(l, base[1] + OffsetA(l, block), base[2] + OffsetB(l, block),
                 base[3] + OffsetC(l, block), block, added)
        = Computed(p.shape, f, block)
  <2>1. LaidOut(p, l)
    BY DEF p
  <2>2. \A e \in Plane(p.shape) : e[1] = batch => f[e] = Product(p, base, added, e)
    BY <1>1, <1>2 DEF base, added
  <2> QED
    BY <1>1, <1>3, <1>5, <1>6, <2>1, <2>2, MultipliedIs
<1> QED
  BY <1>1, <1>7 DEF Call, base, added, f

(* Without batches A, B and C begin at 0.                                  *)
LEMMA CallOfOne ==
    ASSUME NEW s \in AnyKernelProblem, Runs(s), s.kernel \notin {"MatmulBias", "BatchedMatmul"},
           NEW l, LaidOut(Plain(s), l), NEW block, NEW batch, IsTile(Plain(s), block, batch)
    PROVE  /\ Call(l, NoBase, block) = Computed(s.shape, Values(s), block)
           /\ Multiplied(l, OffsetA(l, block), OffsetB(l, block), OffsetC(l, block), block, {})
                = Computed(s.shape, Values(s), block)
<1> DEFINE p == Plain(s)
<1>1. p \in AnyProblem /\ LaidOut(p, l)
  BY PlainIs
<1> HIDE DEF p
<1>2. PICK r \in 0..(Loops(p)[2] - 1) : \E c \in 0..(Loops(p)[3] - 1) : block = TileBlock(p, batch, r, c)
  BY DEF IsTile, p
<1>3. PICK c \in 0..(Loops(p)[3] - 1) : block = TileBlock(p, batch, r, c)
  BY <1>2
<1>4. PICK a, b, d, z \in Nat : SpanOf(p, block, a, b, d, z) /\ StartsAt(p, l, block, a, d)
  BY <1>1, <1>3, OffsetsAre
<1> QED
  BY <1>1, <1>4, CallIs, ProblemFacts DEF Call, NoBase, BaseOf, StartsAt

(* The bias added to an element is that of its column.                     *)
LEMMA BiasedCallIs ==
    ASSUME NEW s \in AnyKernelProblem, Runs(s), s.kernel = "MatmulBias",
           NEW l, LaidOut(Plain(s), l), NEW block, NEW batch, IsTile(Plain(s), block, batch)
    PROVE  {<<x[1], <<x[2][1], x[2][2], x[2][3], {Min(block[3]) + ((x[1] - OffsetC(l, block)) % s.shape[3])}>> >> :
              x \in Call(l, NoBase, block)}
             = Computed(s.shape, Values(s), block)
<1> DEFINE p == Plain(s)
           g == [e \in Plane(s.shape) |-> Product(p, NoBase, {}, e)]
           n == s.shape[3]
           k == s.shape[4]
           F(x) == <<x[1], <<x[2][1], x[2][2], x[2][3], {Min(block[3]) + ((x[1] - OffsetC(l, block)) % n)}>> >>
<1>1. p \in AnyProblem /\ p.shape = s.shape /\ s.shape \in Shapes /\ LaidOut(p, l)
  BY PlainIs DEF AnyKernelProblem
<1>2. batch \in 0..(p.shape[1] - 1) /\ batch = 0
  BY <1>1 DEF IsTile, Runs
<1> HIDE DEF p
<1>3. PICK r \in 0..(Loops(p)[2] - 1) : \E c \in 0..(Loops(p)[3] - 1) : block = TileBlock(p, batch, r, c)
  BY DEF IsTile, p
<1>4. PICK c \in 0..(Loops(p)[3] - 1) : block = TileBlock(p, batch, r, c)
  BY <1>3
<1>5. Call(l, NoBase, block) = Computed(s.shape, g, block)
  <2>1. \A e \in Plane(p.shape) : e[1] = batch => g[e] = Product(p, NoBase, {}, e)
    BY <1>1
  <2> DEFINE added == {}
             base == NoBase
  <2>2. base[1] \in Nat /\ base[2] \in Nat /\ base[3] \in Nat
    BY DEF NoBase
  <2>3. \A e \in Plane(p.shape) : e[1] = batch => g[e] = Product(p, base, added, e)
    BY <2>1 DEF added, base
  <2> HIDE DEF added, base, g
  <2>4. Multiplied(l, base[1] + OffsetA(l, block), base[2] + OffsetB(l, block),
                 base[3] + OffsetC(l, block), block, added)
        = Computed(p.shape, g, block)
    BY <1>1, <1>2, <1>4, <2>2, <2>3, MultipliedIs
  <2> QED
    BY <1>1, <2>4 DEF Call, added, base
<1>6. PICK a, b, d, z \in Nat : SpanOf(p, block, a, b, d, z) /\ StartsAt(p, l, block, a, d)
  BY <1>1, <1>4, OffsetsAre
<1>7. /\ block[2] = a..b /\ block[3] = d..z /\ z < n /\ Min(block[3]) = d
      /\ OffsetC(l, block) = a * n + d
  BY <1>1, <1>6 DEF SpanOf, StartsAt
<1>8. n \in Nat \ {0} /\ k \in Nat
  BY <1>1 DEF Shapes
<1>9. ASSUME NEW e \in Plane(s.shape), Has(block, e)
      PROVE  F(g[e]) = Values(s)[e]
  <2>1. e[2] \in a..b /\ e[3] \in d..z /\ e[1] = 0
    <3>1. e[2] \in block[2] /\ e[3] \in block[3] /\ e[1] \in 0..(s.shape[1] - 1)
      BY <1>1, <1>9, PlaneIs DEF Has
    <3>2. s.shape[1] = 1
      BY DEF Runs
    <3> QED
      BY <1>7, <3>1, <3>2
  <2> DEFINE i == e[2]
             j == e[3]
  <2>2. g[e] = <<0 + (i * n + j), <<0 + i * k, 0 + j, k, {}>> >>
    BY <1>1 DEF Product, NoBase
  <2>3. Values(s)[e] = <<0 + (i * n + j), <<0 + i * k, 0 + j, k, {j}>> >>
    BY DEF Values, Product, BaseOf, AddedOf, NoBase
  <2> HIDE DEF i, j, g, n, k
  <2>4. d + (((0 + (i * n + j)) - (a * n + d)) % n) = j
    <3> DEFINE y == i - a
               x == j - d
    <3>1. y \in Nat /\ x \in 0..(n - 1) /\ i = a + y /\ j = d + x
      <4>1. i \in a..b /\ j \in d..z /\ z < n /\ n \in Nat
        BY <1>7, <1>8, <2>1 DEF i, j
      <4> QED
        BY <4>1
    <3>2. (y * n + x) % n = x
      BY <1>8, <3>1, Quotient
    <3>3. i * n = a * n + y * n /\ a * n \in Nat /\ y * n \in Nat
      BY <1>8, <3>1
    <3> DEFINE an == a * n
               yn == y * n
               in == i * n
    <3> HIDE DEF y, x
    <3>4. an \in Nat /\ yn \in Nat /\ in = an + yn /\ d \in Nat /\ x \in Nat /\ j = d + x
      BY <1>8, <3>1, <3>3
    <3> HIDE DEF an, yn, in
    <3>5. (0 + (in + j)) - (an + d) = yn + x
      BY <3>4
    <3> QED
      BY <3>2, <3>4, <3>5 DEF an, yn, in
  <2>5. Min(block[3]) + (((0 + (i * n + j)) - OffsetC(l, block)) % n) = j
    BY <1>7, <2>4
  <2>6. g[e][1] = 0 + (i * n + j) /\ g[e][2][1] = 0 + i * k /\ g[e][2][2] = 0 + j /\ g[e][2][3] = k
    BY <2>2
  <2>7. Min(block[3]) + ((g[e][1] - OffsetC(l, block)) % n) = j
    BY <2>5, <2>6
  <2>8. F(g[e]) = <<g[e][1], <<g[e][2][1], g[e][2][2], g[e][2][3], {j}>> >>
    BY <2>7
  <2> QED
    BY <2>3, <2>6, <2>8
<1> HIDE DEF g, F
<1>10. {F(x) : x \in Computed(s.shape, g, block)} = Computed(s.shape, Values(s), block)
  BY <1>9 DEF Computed
<1> QED
  BY <1>5, <1>10 DEF F, n

-----------------------------------------------------------------------------
(* Blocks dealt to the cores.                                              *)

(* Every core computes the blocks that it is dealt, one by one.            *)
DealtOut(s, n, B, seqs) ==
    /\ seqs = [c \in 1..s.cores |-> seqs[c]]
    /\ \A c \in 1..s.cores :
         seqs[c] = [j \in 1..TaskCount(c - 1, n, s.cores) |->
                      Computed(s.shape, Values(s), B[c + (j - 1) * s.cores])]

(* Together they compute what is to come out. *)
LEMMA DealtPartition ==
    ASSUME NEW s \in AnyKernelProblem, Runs(s), NEW n \in Nat, NEW B, Cuts(s.shape, 1..n, B),
           NEW seqs, DealtOut(s, n, B, seqs)
    PROVE  PartitionOf(FlattenSeq(seqs), Result(s.kernel, s))
<1> DEFINE k == s.cores
           f == Values(s)
           L == [c \in 1..k |-> TaskCount(c - 1, n, k)]
           D == [c \in 1..k |-> [j \in 1..L[c] |-> B[c + (j - 1) * k]]]
<1>1. k \in Nat \ {0} /\ s.shape \in Shapes
  BY DEF AnyKernelProblem
<1> HIDE DEF k
<1>2. \A c \in 1..k : \A j \in 1..L[c] : D[c][j] = B[c + (j - 1) * k]
  OBVIOUS
<1>3. L \in [1..k -> Nat] /\ CutsByCore(s.shape, k, L, D)
  <2>1. CutOneByOne(s.shape, n, k, B)
    BY <1>1, CutsDealt
  <2> QED
    BY <2>1 DEF CutOneByOne
<1>4. \A c \in 1..k : seqs[c] = [j \in 1..L[c] |-> Computed(s.shape, f, B[c + (j - 1) * k])]
  BY DEF DealtOut, k
<1> HIDE DEF L, D, f
<1>5. \A c \in 1..k : seqs[c] = [j \in 1..L[c] |-> Computed(s.shape, f, D[c][j])]
  BY <1>2, <1>4
<1>6. seqs = [c \in 1..k |-> [j \in 1..L[c] |-> Computed(s.shape, f, D[c][j])]]
  BY <1>5 DEF DealtOut, k
<1> QED
  BY <1>1, <1>3, <1>6, ComputedPartition, ValuesInOrder, ResultIs DEF f

(* The tasks of a core.                                                    *)
LEMMA CoreTasksAre ==
    ASSUME NEW n \in Nat, NEW k \in Nat \ {0}, NEW c \in 1..k
    PROVE  LET T == TasksOf(c - 1, n, k)
           IN /\ DOMAIN T = 1..TaskCount(c - 1, n, k)
              /\ \A j \in DOMAIN T : T[j] \in 0..(n - 1) /\ T[j] + 1 = c + (j - 1) * k
<1> DEFINE T == TasksOf(c - 1, n, k)
           m == TaskCount(c - 1, n, k)
           first == c - 1
<1>1. T = [j \in 1..m |-> first + (j - 1) * k]
  BY DEF TasksOf, TaskCount
<1>2. first \in Nat /\ c = first + 1
  OBVIOUS
<1>3. m \in Nat /\ \A j \in Nat : j < m <=> first + j * k < n
  BY <1>2, TaskCountIs DEF m
<1> HIDE DEF T, m, first
<1>4. ASSUME NEW j \in 1..m
      PROVE  T[j] \in 0..(n - 1) /\ T[j] + 1 = c + (j - 1) * k
  <2> DEFINE i == j - 1
             x == i * k
  <2> HIDE DEF i
  <2>1. T[j] = first + x
    BY <1>1 DEF i
  <2> HIDE DEF x
  <2> QED
    BY <1>2, <1>3, <2>1 DEF x, i
<1> QED
  BY <1>1, <1>4 DEF T, m

(* A kernel of the identity swizzle: every task of a core is a call for    *)
(* the block of the task.                                                  *)
IdentityCalls(s, seqs) ==
    LET n == s.shape[1] * CoreLoops(s)
    IN /\ seqs = [c \in 1..s.cores |-> seqs[c]]
       /\ \A c \in 1..s.cores :
            /\ seqs[c] = [j \in DOMAIN TasksOf(c - 1, n, s.cores) |-> seqs[c][j]]
            /\ \A j \in DOMAIN TasksOf(c - 1, n, s.cores) : \A t \in 0..(n - 1) :
                 t = TasksOf(c - 1, n, s.cores)[j]
                   => seqs[c][j] = Computed(s.shape, Values(s), IdentityBlock(s, t))

(* Together these calls compute what is to come out.                       *)
LEMMA IdentityPartition ==
    ASSUME NEW s \in AnyKernelProblem, Runs(s), NEW seqs, IdentityCalls(s, seqs)
    PROVE  PartitionOf(FlattenSeq(seqs), Result(s.kernel, s))
<1> DEFINE n == s.shape[1] * CoreLoops(s)
           p == Plain(s)
           k == s.cores
           B == [t \in 1..n |-> IdentityBlock(s, t - 1)]
<1>1. n \in Nat /\ Cuts(s.shape, 1..n, B)
  <2> HIDE DEF p
  <2> QED
    BY IdentityCuts, PlainIs
<1>2. k \in Nat \ {0}
  BY DEF AnyKernelProblem
<1>3. ASSUME NEW c \in 1..k
      PROVE  seqs[c] = [j \in 1..TaskCount(c - 1, n, k) |-> Computed(s.shape, Values(s), B[c + (j - 1) * k])]
  <2> DEFINE T == TasksOf(c - 1, n, k)
             S == seqs[c]
             m == TaskCount(c - 1, n, k)
  <2>1. S = [j \in DOMAIN T |-> S[j]]
    BY DEF IdentityCalls
  <2>2. \A j \in DOMAIN T : \A t \in 0..(n - 1) :
          t = T[j] => S[j] = Computed(s.shape, Values(s), IdentityBlock(s, t))
    BY DEF IdentityCalls
  <2> HIDE DEF n, k
  <2>3. DOMAIN T = 1..m /\ \A j \in DOMAIN T : T[j] \in 0..(n - 1) /\ T[j] + 1 = c + (j - 1) * k
    BY <1>1, <1>2, CoreTasksAre
  <2> HIDE DEF T, S, m, B
  <2>4. ASSUME NEW j \in 1..m
        PROVE  S[j] = Computed(s.shape, Values(s), B[c + (j - 1) * k])
    <3> DEFINE t == T[j]
    <3> HIDE DEF t
    <3> QED
      BY <1>1, <2>2, <2>3 DEF t, B
  <2> QED
    BY <2>1, <2>3, <2>4 DEF S, m
<1> HIDE DEF n, k, B
<1>4. DealtOut(s, n, B, seqs)
  BY <1>3 DEF DealtOut, k, IdentityCalls
<1> QED
  BY <1>1, <1>4, DealtPartition

-----------------------------------------------------------------------------
(* The pieces of every kernel.                                             *)

(* What a task of such a kernel computes.                                  *)
LEMMA TaskIs ==
    ASSUME NEW s \in AnyKernelProblem, Runs(s), NEW t \in 0..(s.shape[1] * CoreLoops(s) - 1),
           NEW l, LaidOut(Plain(s), l)
    PROVE  LET block == IdentityBlock(s, t)
           IN /\ s.kernel # "MatmulBias" =>
                   Call(l, BaseOf(s, t \div CoreLoops(s)), block) = Computed(s.shape, Values(s), block)
              /\ s.kernel \notin {"MatmulBias", "BatchedMatmul"} =>
                   /\ Call(l, NoBase, block) = Computed(s.shape, Values(s), block)
                   /\ Multiplied(l, OffsetA(l, block), OffsetB(l, block), OffsetC(l, block), block, {})
                        = Computed(s.shape, Values(s), block)
              /\ s.kernel = "MatmulBias" =>
                   {<<x[1], <<x[2][1], x[2][2], x[2][3],
                              {Min(block[3]) + ((x[1] - OffsetC(l, block)) % s.shape[3])}>> >> :
                      x \in Call(l, NoBase, block)}
                     = Computed(s.shape, Values(s), block)
<1> DEFINE p == Plain(s)
           block == IdentityBlock(s, t)
           batch == t \div CoreLoops(s)
<1> HIDE DEF p
<1> HIDE DEF block, batch
<1> QED
  BY CallIs, CallOfOne, BiasedCallIs, IdentityTile, PlainIs DEF block, batch, p

(* One batch has as many blocks as there are.                              *)
LEMMA OneBatch ==
    ASSUME NEW s \in AnyKernelProblem, Runs(s), s.kernel # "BatchedMatmul"
    PROVE  CoreLoops(s) \in Nat /\ s.shape[1] * CoreLoops(s) = CoreLoops(s)
<1> QED
  BY PlainIs, ProblemFacts DEF Runs

(* The kernels with one batch and a swizzle.                               *)
LEMMA BasicPieces ==
    ASSUME NEW s \in AnyKernelProblem, Runs(s),
           s.kernel \in {"BasicMatmul", "BasicMatmulTla"}
    PROVE  \E seqs : KernelPieces(s.kernel, s) = FlattenSeq(seqs) /\ IdentityCalls(s, seqs)
<1> DEFINE l == ParamsOf(s)
           T(c) == TasksOf(c - 1, CoreLoops(s), s.cores)
           seqs == [c \in 1..s.cores |-> [j \in DOMAIN T(c) |-> Call(l, NoBase, IdentityBlock(s, T(c)[j]))]]
<1>1. KernelPieces(s.kernel, s) = FlattenSeq(seqs)
  BY DEF KernelPieces, BasicMatmul, BasicMatmulTla, AllCores, EachTask
<1>2. LaidOut(Plain(s), l)
  BY PlainIs, ParamsLaidOut DEF AnyKernelProblem
<1> HIDE DEF l
<1>3. ASSUME NEW t \in 0..(s.shape[1] * CoreLoops(s) - 1)
      PROVE  Call(l, NoBase, IdentityBlock(s, t)) = Computed(s.shape, Values(s), IdentityBlock(s, t))
  BY <1>2, TaskIs
<1>4. IdentityCalls(s, seqs)
  BY <1>3, OneBatch DEF IdentityCalls
<1> QED
  BY <1>1, <1>4

(* The block is called for the next block of the core before, which is its *)
(* own.                                                                    *)
LEMMA PreloadPieces ==
    ASSUME NEW s \in AnyKernelProblem, Runs(s), s.kernel = "BasicMatmulPreload"
    PROVE  \E seqs : KernelPieces(s.kernel, s) = FlattenSeq(seqs) /\ IdentityCalls(s, seqs)
<1> DEFINE l == ParamsOf(s)
           T(c) == TasksOf(c - 1, CoreLoops(s), s.cores)
           For(c, t) == IF t = c - 1 THEN IdentityBlock(s, t) ELSE IdentityBlock(s, (t - s.cores) + s.cores)
           P(c, t) == Multiplied(l, OffsetA(l, For(c, t)), OffsetB(l, For(c, t)),
                                 OffsetC(l, IdentityBlock(s, t)), IdentityBlock(s, t), {})
           seqs == [c \in 1..s.cores |-> [j \in DOMAIN T(c) |-> P(c, T(c)[j])]]
<1>1. KernelPieces(s.kernel, s) = FlattenSeq(seqs)
  BY DEF KernelPieces, BasicMatmulPreload, AllCores, EachTask
<1>2. s.shape[1] * CoreLoops(s) = CoreLoops(s) /\ s.cores \in Nat
  BY OneBatch DEF AnyKernelProblem
<1>3. LaidOut(Plain(s), l)
  BY PlainIs, ParamsLaidOut DEF AnyKernelProblem
<1> HIDE DEF l
<1>4. ASSUME NEW t \in 0..(s.shape[1] * CoreLoops(s) - 1), NEW c
      PROVE  P(c, t) = Computed(s.shape, Values(s), IdentityBlock(s, t))
  <2>1. For(c, t) = IdentityBlock(s, t)
    BY <1>2
  <2> QED
    BY <1>3, <2>1, TaskIs
<1> HIDE DEF P
<1>5. IdentityCalls(s, seqs)
  BY <1>2, <1>4 DEF IdentityCalls
<1> QED
  BY <1>1, <1>5

(* The same for a problem known when the kernel runs.                      *)
LEMMA DynamicPieces ==
    ASSUME NEW s \in AnyKernelProblem, Runs(s), s.kernel = "DynamicCommonMatmul"
    PROVE  \E seqs : KernelPieces(s.kernel, s) = FlattenSeq(seqs) /\ IdentityCalls(s, seqs)
<1> DEFINE l == ParamsOf(s)
           T(c) == TasksOf(c - 1, CoreLoops(s), s.cores)
           For(c, t) == IF t = c - 1 THEN DynamicIdentityBlock(s, t)
                        ELSE DynamicIdentityBlock(s, (t - s.cores) + s.cores)
           P(c, t) == Call(l, NoBase, For(c, t))
           seqs == [c \in 1..s.cores |-> [j \in DOMAIN T(c) |-> P(c, T(c)[j])]]
<1>1. KernelPieces(s.kernel, s) = FlattenSeq(seqs)
  BY DEF KernelPieces, DynamicCommonMatmul, AllCores, EachTask
<1>2. s.shape[1] * CoreLoops(s) = CoreLoops(s) /\ s.cores \in Nat
  BY OneBatch DEF AnyKernelProblem
<1>3. LaidOut(Plain(s), l)
  BY PlainIs, ParamsLaidOut DEF AnyKernelProblem
<1> HIDE DEF l
<1>4. ASSUME NEW t \in 0..(s.shape[1] * CoreLoops(s) - 1), NEW c
      PROVE  P(c, t) = Computed(s.shape, Values(s), IdentityBlock(s, t))
  <2>1. For(c, t) = IdentityBlock(s, t)
    BY <1>2, PlainIs
  <2> QED
    BY <1>3, <2>1, TaskIs
<1> HIDE DEF P
<1>5. IdentityCalls(s, seqs)
  BY <1>2, <1>4 DEF IdentityCalls
<1> QED
  BY <1>1, <1>5

(* With a bias, of the columns of the block.                               *)
LEMMA BiasPieces ==
    ASSUME NEW s \in AnyKernelProblem, Runs(s), s.kernel = "MatmulBias"
    PROVE  \E seqs : KernelPieces(s.kernel, s) = FlattenSeq(seqs) /\ IdentityCalls(s, seqs)
<1> DEFINE l == ParamsOf(s)
           T(c) == TasksOf(c - 1, CoreLoops(s), s.cores)
           P(t) == {<<x[1], <<x[2][1], x[2][2], x[2][3],
                              {Min(IdentityBlock(s, t)[3])
                                 + ((x[1] - OffsetC(l, IdentityBlock(s, t))) % s.shape[3])}>> >> :
                      x \in Call(l, NoBase, IdentityBlock(s, t))}
           seqs == [c \in 1..s.cores |-> [j \in DOMAIN T(c) |-> P(T(c)[j])]]
<1>1. KernelPieces(s.kernel, s) = FlattenSeq(seqs)
  BY DEF KernelPieces, MatmulBias, AllCores, EachTask
<1>2. LaidOut(Plain(s), l)
  BY PlainIs, ParamsLaidOut DEF AnyKernelProblem
<1> HIDE DEF l
<1>3. ASSUME NEW t \in 0..(s.shape[1] * CoreLoops(s) - 1)
      PROVE  P(t) = Computed(s.shape, Values(s), IdentityBlock(s, t))
  BY <1>2, TaskIs
<1> HIDE DEF P
<1>4. IdentityCalls(s, seqs)
  BY <1>3, OneBatch DEF IdentityCalls
<1> QED
  BY <1>1, <1>4

(* On the vector cores, with a depth of one.                               *)
LEMMA AivPieces ==
    ASSUME NEW s \in AnyKernelProblem, Runs(s), s.kernel = "AivMatmul"
    PROVE  \E seqs : KernelPieces(s.kernel, s) = FlattenSeq(seqs) /\ IdentityCalls(s, seqs)
<1> DEFINE l == [A |-> ColumnMajor(s.shape[2], 1, s.shape[2]), B |-> RowMajor(1, s.shape[3], s.shape[3]),
                 C |-> ParamsOf(s).C]
           T(c) == TasksOf(c - 1, CoreLoops(s), s.cores)
           seqs == [c \in 1..s.cores |-> [j \in DOMAIN T(c) |-> Call(l, NoBase, IdentityBlock(s, T(c)[j]))]]
<1>1. KernelPieces(s.kernel, s) = FlattenSeq(seqs)
  BY DEF KernelPieces, AivMatmul, AllCores, EachTask
<1>2. LaidOut(Plain(s), l)
  <2>1. /\ l.A = ColumnMajor(s.shape[2], 1, s.shape[2]) /\ s.shape[4] = 1
        /\ l.B = RowMajor(1, s.shape[3], s.shape[3]) /\ l.C = ParamsOf(s).C
    BY DEF Runs
  <2> HIDE DEF l
  <2> QED
    BY <2>1, ParamsLaidOut, PlainIs DEF AnyKernelProblem
<1> HIDE DEF l
<1>3. ASSUME NEW t \in 0..(s.shape[1] * CoreLoops(s) - 1)
      PROVE  Call(l, NoBase, IdentityBlock(s, t)) = Computed(s.shape, Values(s), IdentityBlock(s, t))
  BY <1>2, TaskIs
<1>4. IdentityCalls(s, seqs)
  BY <1>3, OneBatch DEF IdentityCalls
<1> QED
  BY <1>1, <1>4

(* Batch by batch, each with its own bases.                                *)
LEMMA BatchedPieces ==
    ASSUME NEW s \in AnyKernelProblem, Runs(s), s.kernel = "BatchedMatmul"
    PROVE  \E seqs : KernelPieces(s.kernel, s) = FlattenSeq(seqs) /\ IdentityCalls(s, seqs)
<1> DEFINE l == ParamsOf(s)
           n == s.shape[1] * CoreLoops(s)
           T(c) == TasksOf(c - 1, n, s.cores)
           Base(t) == [x \in 1..3 |-> (t \div CoreLoops(s)) * BatchStrides(s)[x]]
           P(t) == Call(l, Base(t), IdentityBlock(s, t))
           seqs == [c \in 1..s.cores |-> [j \in DOMAIN T(c) |-> P(T(c)[j])]]
<1>1. KernelPieces(s.kernel, s) = FlattenSeq(seqs)
  BY DEF KernelPieces, BatchedMatmul, AllCores, EachTask
<1>2. LaidOut(Plain(s), l)
  BY PlainIs, ParamsLaidOut DEF AnyKernelProblem
<1> HIDE DEF l
<1>3. ASSUME NEW t \in 0..(n - 1)
      PROVE  P(t) = Computed(s.shape, Values(s), IdentityBlock(s, t))
  <2> DEFINE b == t \div CoreLoops(s)
  <2> HIDE DEF b
  <2>1. Base(t)[1] = BaseOf(s, b)[1] /\ Base(t)[2] = BaseOf(s, b)[2] /\ Base(t)[3] = BaseOf(s, b)[3]
    BY DEF BatchStrides, b, BaseOf
  <2> HIDE DEF Base
  <2> QED
    BY <1>2, <2>1, TaskIs DEF b, Call
<1> HIDE DEF P
<1>4. IdentityCalls(s, seqs)
  BY <1>3 DEF IdentityCalls
<1> QED
  BY <1>1, <1>4

(* The small kernels have a core for every block.                          *)
LEMMA SmallPieces ==
    ASSUME NEW s \in AnyKernelProblem, Runs(s), s.kernel \in {"SmallMatmul", "DynamicSmallMatmul"}
    PROVE  PartitionOf(KernelPieces(s.kernel, s), Result(s.kernel, s))
<1> DEFINE l == ParamsOf(s)
           n == CoreLoops(s)
           p == Plain(s)
           B == [t \in 1..n |-> InOrderBlock(s, t - 1)]
           seqs == [c \in 1..s.cores |->
                      IF c - 1 < n THEN <<Call(l, NoBase, InOrderBlock(s, c - 1))>> ELSE <<>>]
<1>1. n \in Nat /\ s.cores \in Nat \ {0} /\ n <= s.cores
  BY OneBatch DEF Runs, AnyKernelProblem
<1>2. KernelPieces(s.kernel, s) = FlattenSeq(seqs)
  <2>1. CASE s.kernel = "SmallMatmul"
    BY <2>1 DEF KernelPieces, SmallMatmul, AllCores
  <2>2. CASE s.kernel = "DynamicSmallMatmul"
    <3>1. \A c \in 1..s.cores : c - 1 < n
      BY <1>1, <2>2 DEF Runs
    <3>2. seqs = [c \in 1..s.cores |-> <<Call(l, NoBase, InOrderBlock(s, c - 1))>>]
      BY <3>1
    <3> QED
      BY <2>2, <3>2 DEF KernelPieces, DynamicSmallMatmul, AllCores
  <2> QED
    BY <2>1, <2>2
<1>3. p \in AnyProblem /\ p.shape = s.shape /\ CoreLoops(p) = n /\ s.shape[1] = 1
      /\ (\A t : InOrderBlock(p, t) = InOrderBlock(s, t)) /\ LaidOut(p, l)
  BY PlainIs, ParamsLaidOut DEF AnyKernelProblem, Runs
<1> HIDE DEF p, n, l
<1>4. Cuts(s.shape, 1..n, B)
  <2>1. Cuts(p.shape, 1..n, [t \in 1..n |-> InOrderBlock(p, t - 1)])
    BY <1>3, InOrderCuts
  <2>2. B = [t \in 1..n |-> InOrderBlock(p, t - 1)]
    BY <1>3
  <2> QED
    BY <1>3, <2>1, <2>2
<1>5. ASSUME NEW t \in 0..(n - 1)
      PROVE  Call(l, NoBase, InOrderBlock(s, t)) = Computed(s.shape, Values(s), InOrderBlock(s, t))
  <2>1. IsTile(p, InOrderBlock(s, t), 0)
    BY <1>3, InOrderCuts
  <2> QED
    BY <1>3, <2>1, CallOfOne DEF p
<1>6. ASSUME NEW c \in 1..s.cores
      PROVE  seqs[c] = [j \in 1..TaskCount(c - 1, n, s.cores) |->
                          Computed(s.shape, Values(s), B[c + (j - 1) * s.cores])]
  <2>1. CASE c - 1 < n
    <3>1. TaskCount(c - 1, n, s.cores) = 1
      <4> DEFINE a == n - (c - 1)
                 k == s.cores
      <4>1. a \in 1..k /\ k \in Nat \ {0} /\ TaskCount(c - 1, n, k) = CeilDiv(a, k)
        BY <1>1, <2>1 DEF TaskCount
      <4> HIDE DEF a, k
      <4>2. CeilDiv(a, k) = 1
        <5>1. (1 * k + (a - 1)) \div k = 1
          <6> DEFINE q == 1
                     r == a - 1
          <6>1. q \in Nat /\ r \in 0..(k - 1) /\ k \in Nat \ {0}
            BY <4>1
          <6> HIDE DEF q, r
          <6>2. (q * k + r) \div k = q
            BY <6>1, Quotient
          <6> QED
            BY <6>2 DEF q, r
        <5>2. 1 * k + (a - 1) = a + k - 1
          <6>1. a \in Nat /\ k \in Nat
            BY <4>1
          <6> QED
            BY <6>1
        <5> QED
          BY <5>1, <5>2 DEF CeilDiv
      <4> QED
        BY <4>1, <4>2 DEF k
    <3>2. c + (1 - 1) * s.cores = c /\ c \in 1..n /\ c - 1 \in 0..(n - 1)
      BY <1>1, <2>1
    <3>3. B[c] = InOrderBlock(s, c - 1)
      BY <3>2
    <3>4. seqs[c] = <<Computed(s.shape, Values(s), B[c])>>
      BY <1>5, <2>1, <3>2, <3>3
    <3> HIDE DEF seqs, B
    <3> QED
      BY <3>1, <3>2, <3>4
  <2>2. CASE ~ (c - 1 < n)
    <3>1. TaskCount(c - 1, n, s.cores) = 0
      BY <1>1, <2>2 DEF TaskCount
    <3>2. seqs[c] = <<>>
      BY <2>2
    <3> HIDE DEF seqs, B
    <3> QED
      BY <3>1, <3>2
  <2> QED
    BY <2>1, <2>2
<1>7. seqs = [c \in 1..s.cores |-> seqs[c]]
  OBVIOUS
<1> HIDE DEF seqs, B
<1>8. DealtOut(s, n, B, seqs)
  BY <1>6, <1>7 DEF DealtOut
<1>9. PartitionOf(FlattenSeq(seqs), Result(s.kernel, s))
  BY <1>1, <1>4, <1>8, DealtPartition
<1> QED
  BY <1>2, <1>9

(* After each call the block of A is the one that the call was for.        *)
LEMMA LoadedAIs ==
    ASSUME NEW l, NEW n \in Nat, NEW blocks, blocks = [i \in 1..n |-> blocks[i]], NEW j \in 1..n
    PROVE  LoadedA(l, blocks, j) = OffsetA(l, blocks[j])
<1> DEFINE seq == SubSeq(blocks, 1, j)
           base == OffsetA(l, blocks[1])
           op(loaded, block) == IF OffsetA(l, block) = loaded THEN loaded ELSE OffsetA(l, block)
           Step(f) == [s \in SUBSET DOMAIN seq |->
                         IF s = {} THEN base ELSE op(f[s \ {Max(s)}], seq[Max(s)])]
           g == [s \in SUBSET DOMAIN seq |-> IF s = {} THEN base ELSE OffsetA(l, seq[Max(s)])]
           h == CHOOSE f : f = Step(f)
<1>1. DOMAIN seq = 1..j /\ seq[j] = blocks[j]
  <2>1. Len(blocks) = n
    OBVIOUS
  <2> QED
    BY <2>1 DEF SubSeq
<1>2. LoadedA(l, blocks, j) = h[DOMAIN seq]
  BY DEF LoadedA, FoldLeft, MapThenFoldSet
<1>3. \A x, y : op(x, y) = OffsetA(l, y)
  OBVIOUS
<1> HIDE DEF seq, base, op
<1>4. g = Step(g)
  BY <1>3
<1>5. h = Step(h)
  BY <1>4
<1>6. Max(1..j) = j
  BY DEF Max
<1> HIDE DEF h
<1>7. h[1..j] = op(h[(1..j) \ {Max(1..j)}], seq[Max(1..j)])
  <2> DEFINE S == 1..j
  <2>1. S \in SUBSET DOMAIN seq /\ S # {}
    BY <1>1
  <2> HIDE DEF S
  <2>2. Step(h)[S] = op(h[S \ {Max(S)}], seq[Max(S)])
    BY <2>1
  <2> HIDE DEF Step
  <2> QED
    BY <1>5, <2>2 DEF S
<1> QED
  BY <1>1, <1>2, <1>3, <1>6, <1>7

(* A is loaded once for the blocks of a core that have the same rows.      *)
LEMMA FullLoadPieces ==
    ASSUME NEW s \in AnyKernelProblem, Runs(s), s.kernel = "MatmulFullLoadA"
    PROVE  PartitionOf(KernelPieces(s.kernel, s), Result(s.kernel, s))
<1> DEFINE l == ParamsOf(s)
           n == CoreLoops(s)
           k == s.cores
           p == Plain(s)
           B == [t \in 1..n |-> L1FullLoadBlock(s, t - 1)]
           T(c) == TasksOf(c - 1, n, k)
           blocks(c) == [j \in DOMAIN T(c) |-> L1FullLoadBlock(s, T(c)[j])]
           P(bs, j) == Multiplied(l, LoadedA(l, bs, j), OffsetB(l, bs[j]), OffsetC(l, bs[j]), bs[j], {})
           seqs == [c \in 1..k |-> [j \in DOMAIN blocks(c) |-> P(blocks(c), j)]]
<1>1. KernelPieces(s.kernel, s) = FlattenSeq(seqs)
  BY DEF KernelPieces, MatmulFullLoadA, AllCores, EachTask
<1>2. n \in Nat /\ k \in Nat \ {0}
  BY OneBatch DEF AnyKernelProblem
<1>3. p \in AnyProblem /\ p.shape = s.shape /\ CoreLoops(p) = n /\ s.shape[1] = 1
      /\ (\A t : L1FullLoadBlock(p, t) = L1FullLoadBlock(s, t)) /\ LaidOut(p, l)
  BY PlainIs, ParamsLaidOut DEF AnyKernelProblem, Runs
<1> HIDE DEF p, n, l, k
<1>4. Cuts(s.shape, 1..n, B)
  <2>1. B = [t \in 1..n |-> L1FullLoadBlock(p, t - 1)]
    BY <1>3
  <2> QED
    BY <1>3, <2>1, L1FullLoadCuts
<1>5. ASSUME NEW t \in 0..(n - 1), NEW block, block = L1FullLoadBlock(s, t)
      PROVE  Multiplied(l, OffsetA(l, block), OffsetB(l, block), OffsetC(l, block), block, {})
               = Computed(s.shape, Values(s), block)
  BY <1>3, <1>5, CallOfOne, L1FullLoadTile DEF p
<1>6. ASSUME NEW c \in 1..k
      PROVE  seqs[c] = [j \in 1..TaskCount(c - 1, n, k) |-> Computed(s.shape, Values(s), B[c + (j - 1) * k])]
  <2> DEFINE m == TaskCount(c - 1, n, k)
             bs == blocks(c)
             t(j) == T(c)[j]
  <2>1. DOMAIN T(c) = 1..m /\ \A j \in 1..m : t(j) \in 0..(n - 1) /\ t(j) + 1 = c + (j - 1) * k
    BY <1>2, CoreTasksAre
  <2>2. m \in Nat
    BY <1>2, TaskCountIs
  <2>3. seqs[c] = [j \in 1..m |-> P(bs, j)]
    BY <2>1
  <2>4. bs = [j \in 1..m |-> bs[j]] /\ \A j \in 1..m : bs[j] = L1FullLoadBlock(s, t(j))
    BY <2>1
  <2> HIDE DEF m, bs, t, seqs
  <2>5. ASSUME NEW j \in 1..m
        PROVE  P(bs, j) = Computed(s.shape, Values(s), B[c + (j - 1) * k])
    <3>1. LoadedA(l, bs, j) = OffsetA(l, bs[j])
      BY <2>2, <2>4, LoadedAIs
    <3>2. P(bs, j) = Computed(s.shape, Values(s), bs[j])
      BY <1>5, <2>1, <2>4, <3>1
    <3>3. B[t(j) + 1] = L1FullLoadBlock(s, t(j))
      BY <1>2, <2>1
    <3> QED
      BY <2>1, <2>4, <3>2, <3>3
  <2> QED
    BY <2>3, <2>5 DEF m
<1>7. seqs = [c \in 1..k |-> seqs[c]]
  OBVIOUS
<1> HIDE DEF seqs, B
<1>8. DealtOut(s, n, B, seqs)
  BY <1>6, <1>7 DEF DealtOut, k
<1> QED
  BY <1>1, <1>2, <1>4, <1>8, DealtPartition

(* A problem for a kernel, as a job. *)
KernelJob(s) == Whole("kernel", 1, <<s>>, ResultSize(s))

(* The job of such a kernel is cut into a partition of what is to come     *)
(* out.                                                                    *)
LEMMA KernelJobIs ==
    ASSUME NEW s \in AnyKernelProblem, Runs(s)
    PROVE  CutJob(KernelJob(s)) /\ KernelJob(s).copy = "kernel"
<1> DEFINE j == KernelJob(s)
           W == Result(s.kernel, s)
           n == ResultSize(s)
<1>1. PartitionOf(KernelPieces(s.kernel, s), W)
  <2>1. CASE s.kernel \in {"SmallMatmul", "DynamicSmallMatmul"}
    BY <2>1, SmallPieces
  <2>2. CASE s.kernel = "MatmulFullLoadA"
    BY <2>2, FullLoadPieces
  <2>3. CASE s.kernel \notin {"SmallMatmul", "DynamicSmallMatmul", "MatmulFullLoadA"}
    <3>1. s.kernel \in Kernels
      BY PlainIs
    <3>2. \E seqs : KernelPieces(s.kernel, s) = FlattenSeq(seqs) /\ IdentityCalls(s, seqs)
      BY <2>3, <3>1, BasicPieces, PreloadPieces, DynamicPieces, BiasPieces, AivPieces,
           BatchedPieces DEF Kernels
    <3> QED
      BY <3>2, IdentityPartition
  <2> QED
    BY <2>1, <2>3, <2>2
<1>2. OnePerPlace(W, n) /\ n \in Nat \ {0}
  <2> DEFINE f == Values(s)
  <2>1. InRowMajor(s.shape, f) /\ W = AllComputed(s.shape, f) /\ s.shape \in Shapes
    BY ValuesInOrder, ResultIs DEF AnyKernelProblem
  <2>2. n = Cardinality(W)
    BY DEF ResultSize
  <2> HIDE DEF f, W, n
  <2> QED
    BY <2>1, <2>2, ComputedOnce
<1> HIDE DEF n
<1>3. j.copy = "kernel" /\ j.args = <<s>> /\ j.cols = n /\ \E cut, e, args : \E x \in Nat \ {0} : j = Whole(cut, e, args, x)
  BY <1>2, WholeIs DEF KernelJob, n
<1> HIDE DEF j
<1>4. Goal(j) = W /\ Pieces(j) = KernelPieces(s.kernel, s)
  BY <1>3 DEF Goal, Pieces
<1> QED
  BY <1>1, <1>2, <1>3, <1>4 DEF CutJob, j

-----------------------------------------------------------------------------
(* The theorems.                                                           *)

(* The swizzles, and the problems that each is for: some have one batch,   *)
(* splitting K wants a tile of K for every slice, and a convolution as     *)
(* many blocks as were asked for.                                          *)
Swizzles ==
    {"Identity", "DynamicIdentity", "L1FullLoad", "Splitk", "DynamicSplitk", "SingleCoreSplitk",
     "DynamicSingleCoreSplitk", "Streamk", "DynamicStreamk", "Misplaced", "Conv2d",
     "Conv3d"}

(* What a swizzle takes for granted of a problem.                          *)
Serves(cut, s) ==
    /\ cut \in {"L1FullLoad", "SingleCoreSplitk", "DynamicSingleCoreSplitk", "Streamk", "DynamicStreamk"} =>
         s.shape[1] = 1
    /\ cut \in {"Splitk", "DynamicSplitk"} => s.cores <= Loops(s)[4]
    /\ cut = "Conv3d" => Conv3dEven(s)

(* Every problem for every swizzle that serves it.                         *)
ScheduledJobs == UNION {{ProblemJob(cut, s) : s \in {p \in AnyProblem : Serves(cut, p)}} : cut \in Swizzles}

(* The jobs of the kernels.                                                *)
CutKernelJobs == {KernelJob(s) : s \in {p \in AnyKernelProblem : Runs(p)}}

(* Every problem for such a swizzle or such a kernel, and every block of   *)
(* an all-reduce.                                                          *)
CutJobs == AllReduceJobs \cup ScheduledJobs \cup CutKernelJobs

(* A problem that a swizzle serves is such a job.                          *)
LEMMA ScheduledJobIs ==
    ASSUME NEW cut \in Swizzles, NEW s \in AnyProblem, Serves(cut, s)
    PROVE  ProblemJob(cut, s) \in ScheduledJobs
BY DEF ScheduledJobs

(* All of them are cut into pieces that are a partition.                   *)
LEMMA CutJobsAre ==
    ASSUME NEW j \in CutJobs
    PROVE  CutJob(j) /\ (j.copy = "AllReduce" => j \in AllReduceJobs)
<1>1. CASE j \in AllReduceJobs
  BY <1>1, AllReduceJobIs
<1>2. CASE j \in ScheduledJobs
  <2>1. PICK cut \in Swizzles : j \in {ProblemJob(cut, s) : s \in {p \in AnyProblem : Serves(cut, p)}}
    BY <1>2 DEF ScheduledJobs
  <2>2. PICK s \in AnyProblem : Serves(cut, s) /\ j = ProblemJob(cut, s)
    BY <2>1
  <2>3. j.copy = cut /\ cut # "AllReduce"
    BY <2>2, ProblemJobIs DEF Swizzles
  <2>4. CASE cut \in {"Identity", "DynamicIdentity"}
    BY <2>2, <2>3, <2>4, IdentityJob
  <2>5. CASE cut = "Conv2d"
    BY <2>2, <2>3, <2>5, Conv2dJob
  <2>6. CASE cut = "Conv3d"
    BY <2>2, <2>3, <2>6, Conv3dJob DEF Serves
  <2>7. CASE cut = "L1FullLoad"
    BY <2>2, <2>3, <2>7, L1FullLoadJob DEF Serves
  <2>8. CASE cut \in {"Splitk", "DynamicSplitk"}
    BY <2>2, <2>3, <2>8, SplitkJob DEF Serves
  <2>9. CASE cut \in {"SingleCoreSplitk", "DynamicSingleCoreSplitk"}
    BY <2>2, <2>3, <2>9, SingleCoreSplitkJob DEF Serves
  <2>10. CASE cut \in {"Streamk", "DynamicStreamk"}
    BY <2>2, <2>3, <2>10, StreamkJob DEF Serves
  <2>11. CASE cut = "Misplaced"
    BY <2>2, <2>3, <2>11, MisplacedJob
  <2> QED
    BY <2>4, <2>5, <2>6, <2>7, <2>8, <2>9, <2>10, <2>11 DEF Swizzles
<1>3. CASE j \in CutKernelJobs
  <2>1. PICK s \in AnyKernelProblem : Runs(s) /\ j = KernelJob(s)
    BY <1>3 DEF CutKernelJobs
  <2> QED
    BY <2>1, KernelJobIs
<1> QED
  BY <1>1, <1>2, <1>3 DEF CutJobs

-----------------------------------------------------------------------------
(* Such a job, run piece by piece. *)
CutInit ==
    /\ job \in CutJobs
    /\ rest = Pieces(job)
    /\ place = {}

(* Its pieces are put in place one by one, as the machine of the run does  *)
(* it.                                                                     *)
CutSpec == CutInit /\ [][Execute]_vars

(* What is in place and what is in the pieces that are left is the whole.  *)
CutInv == job \in CutJobs /\ Remaining /\ PiecesOfJob

(* The invariant of a job that is cut is this one.                         *)
LEMMA CutInvIs == ASSUME job \in CutJobs, PartitionInv PROVE CutInv
BY CutJobsAre DEF PartitionInv, CutInv

(* Putting a piece in place keeps it.                                      *)
LEMMA CutInvStep == CutInv /\ [Execute]_vars => CutInv'
<1> SUFFICES ASSUME CutInv, [Execute]_vars
             PROVE  CutInv'
  OBVIOUS
<1> QED
  BY PartitionNext, CutJobsAre DEF CutInv, PartitionInv, Execute, vars

(* Whatever problem a block scheduler that serves it or such a kernel is   *)
(* given, of any shape, tile, offset, direction and number of cores, and   *)
(* whatever block an all-reduce cuts for any number of vector cores: what  *)
(* has been done and what is left to do is always the whole problem.       *)
THEOREM CutInvariant == CutSpec => []CutInv
<1>1. CutInit => CutInv
  <2> SUFFICES ASSUME CutInit
               PROVE  CutInv
    OBVIOUS
  <2> QED
    BY CutInvIs, PartitionInit DEF CutInit
<1> QED
  BY <1>1, CutInvStep, PTL DEF CutSpec

(* What it says of the properties.                                         *)
LEMMA CutInvEnds == CutInv => ElementsInPlace /\ StaysInBuffer /\ AllReducePiecesFit
<1> SUFFICES ASSUME CutInv
             PROVE  ElementsInPlace /\ StaysInBuffer /\ AllReducePiecesFit
  OBVIOUS
<1>1. PartitionInv /\ CutJob(job) /\ (job.copy = "AllReduce" => job \in AllReduceJobs)
  BY CutJobsAre DEF CutInv, PartitionInv
<1>2. ElementsInPlace /\ StaysInBuffer
  BY <1>1, CutJobsEnd
<1>3. CASE job.copy = "AllReduce"
  BY <1>1, <1>2, <1>3, AllReduceFits
<1>4. CASE job.copy # "AllReduce"
  BY <1>2, <1>4 DEF AllReducePiecesFit
<1> QED
  BY <1>3, <1>4

(* When all pieces of such a job have been put in place, every element of  *)
(* the problem is where it belongs: no swizzle leaves a tile of the        *)
(* problem out, and a kernel has multiplied the row of A and the column of *)
(* B of every element of C, over the whole depth.                          *)
THEOREM CutsPutInPlace == CutSpec => []ElementsInPlace
BY CutInvariant, CutInvEnds, PTL

(* No piece of such a job has an element beyond the problem: the tiles at  *)
(* the edges are cut to the rows, columns and depth that are there, and    *)
(* the offsets of a kernel lead to nothing that is not asked for.          *)
THEOREM CutsStayInside == CutSpec => []StaysInBuffer
BY CutInvariant, CutInvEnds, PTL

(* The tiles of an all-reduce are not empty, begin at an aligned element   *)
(* and fit into a UB buffer, whatever the block.                           *)
THEOREM CutsFit == CutSpec => []AllReducePiecesFit
BY CutInvariant, CutInvEnds, PTL

(* A step of such a job puts nothing in place that is there.               *)
LEMMA CutStepDisjoint ==
    CutInv /\ [Execute]_vars
      => [Targets(place) \cap Targets(Head(rest)) \cap Targets(Goal(job)) = {}]_vars
<1> SUFFICES ASSUME CutInv, Execute
             PROVE  Targets(place) \cap Targets(Head(rest)) = {}
  OBVIOUS
<1> QED
  BY CutJobsDisjoint, CutJobsAre DEF CutInv, PartitionInv, Execute

(* No element of such a job is in two pieces: no two cores write the same  *)
(* tile, and no part of the depth is added twice.                          *)
THEOREM CutsAreDisjoint == CutSpec => PiecesDisjoint
<1> QED
  BY CutInvariant, CutStepDisjoint, PTL DEF CutSpec, PiecesDisjoint

-----------------------------------------------------------------------------
(* The jobs of the run.                                                    *)

(* Problems are jobs for a swizzle. *)
LEMMA ProblemsAre ==
    ASSUME NEW cuts, NEW shapes \in SUBSET Shapes, NEW tiles \in SUBSET Shapes,
           NEW offsets \in SUBSET (Nat \ {0}), NEW cores \in SUBSET (Nat \ {0}),
           NEW j \in Problems(cuts, shapes, tiles, offsets, cores)
    PROVE  \E cut \in cuts : \E s \in AnyProblem :
             /\ s.shape \in shapes /\ s.tile \in tiles /\ s.cores \in cores
             /\ j = ProblemJob(cut, s) /\ j.copy = cut
<1> DEFINE F(cut, shape, tile, offset, direction, n) ==
             Whole(cut, 1, <<shape, tile, offset, direction, n>>, Volume(shape))
<1>1. Problems(cuts, shapes, tiles, offsets, cores)
        = {F(cut, shape, tile, offset, direction, n) :
             cut \in cuts, shape \in shapes, tile \in tiles, offset \in offsets, direction \in {0, 1}, n \in cores}
  BY DEF Problems
<1> HIDE DEF F
<1>2. PICK cut \in cuts, shape \in shapes, tile \in tiles, offset \in offsets,
           direction \in {0, 1}, n \in cores : j = F(cut, shape, tile, offset, direction, n)
  BY <1>1
<1> DEFINE s == [shape |-> shape, tile |-> tile, offset |-> offset, direction |-> direction, cores |-> n]
<1>3. s \in AnyProblem /\ s.shape \in shapes /\ s.tile \in tiles /\ s.cores \in cores
  BY DEF AnyProblem
<1>4. j = ProblemJob(cut, s)
  BY <1>2 DEF F, ProblemJob
<1> HIDE DEF s
<1> QED
  BY <1>3, <1>4, ProblemJobIs

(* Four positive numbers are a shape.                                      *)
LEMMA ShapeOf ==
    ASSUME NEW a \in Nat \ {0}, NEW b \in Nat \ {0}, NEW c \in Nat \ {0}, NEW d \in Nat \ {0}
    PROVE  <<a, b, c, d>> \in Shapes
BY DEF Shapes

(* And jobs that are cut if the swizzle is for all of them.                *)
LEMMA ProblemsServed ==
    ASSUME NEW cuts, NEW shapes, NEW tiles, NEW offsets, NEW cores,
           cuts \subseteq Swizzles, shapes \subseteq Shapes, tiles \subseteq Shapes,
           offsets \subseteq Nat \ {0}, cores \subseteq Nat \ {0},
           \A cut \in cuts : \A s \in AnyProblem :
             s.shape \in shapes /\ s.tile \in tiles /\ s.cores \in cores => Serves(cut, s),
           NEW j \in Problems(cuts, shapes, tiles, offsets, cores)
    PROVE  j \in ScheduledJobs
<1>1. PICK cut \in cuts, s \in AnyProblem :
        s.shape \in shapes /\ s.tile \in tiles /\ s.cores \in cores /\ j = ProblemJob(cut, s)
  BY ProblemsAre
<1> QED
  BY <1>1, ScheduledJobIs

(* An axis that is cut in equal parts, with a last one that is not longer. *)
LEMMA EvenAxes ==
    ASSUME NEW s, \A axis \in 1..4 : <<s.shape[axis], s.tile[axis]>> \in
                    {<<2, 2>>, <<3, 2>>, <<6, 2>>, <<1, 2>>, <<4, 2>>, <<9, 2>>,
                     <<2, 1>>, <<6, 3>>, <<1, 1>>, <<9, 3>>}
    PROVE  Conv3dEven(s)
<1> SUFFICES ASSUME NEW axis \in 1..4
             PROVE  Conv3dLoops(s)[axis] = CeilDiv(s.shape[axis], Conv3dTile(s)[axis])
  BY DEF Conv3dEven
<1> DEFINE n == s.shape[axis]
           t == s.tile[axis]
           l == IF n < t THEN n ELSE t
<1>1. Conv3dLoops(s)[axis] = l
  BY DEF Conv3dLoops
<1>2. <<n, t>> \in {<<2, 2>>, <<3, 2>>, <<6, 2>>, <<1, 2>>, <<4, 2>>, <<9, 2>>,
                    <<2, 1>>, <<6, 3>>, <<1, 1>>, <<9, 3>>}
  OBVIOUS
<1> HIDE DEF n, t
<1>3. \/ n = 2 /\ t = 2
      \/ n = 3 /\ t = 2
      \/ n = 6 /\ t = 2
      \/ n = 1 /\ t = 2
      \/ n = 4 /\ t = 2
      \/ n = 9 /\ t = 2
      \/ n = 2 /\ t = 1
      \/ n = 6 /\ t = 3
      \/ n = 1 /\ t = 1
      \/ n = 9 /\ t = 3
  BY <1>2
<1>4. l = CeilDiv(n, CeilDiv(n, l))
  <2>1. CASE n = 2 /\ t = 2
    BY <2>1 DEF CeilDiv
  <2>2. CASE n = 3 /\ t = 2
    BY <2>2 DEF CeilDiv
  <2>3. CASE n = 6 /\ t = 2
    BY <2>3 DEF CeilDiv
  <2>4. CASE n = 1 /\ t = 2
    BY <2>4 DEF CeilDiv
  <2>5. CASE n = 4 /\ t = 2
    BY <2>5 DEF CeilDiv
  <2>6. CASE n = 9 /\ t = 2
    BY <2>6 DEF CeilDiv
  <2>7. CASE n = 2 /\ t = 1
    BY <2>7 DEF CeilDiv
  <2>8. CASE n = 6 /\ t = 3
    BY <2>8 DEF CeilDiv
  <2>9. CASE n = 1 /\ t = 1
    BY <2>9 DEF CeilDiv
  <2>10. CASE n = 9 /\ t = 3
    BY <2>10 DEF CeilDiv
  <2> QED
    BY <1>3, <2>1, <2>2, <2>3, <2>4, <2>5, <2>6, <2>7, <2>8, <2>9, <2>10
<1> QED
  BY <1>1, <1>4 DEF n, Conv3dTile

(* The jobs of the runs for these swizzles. *)
LEMMA SwizzleJobsAre ==
    ASSUME NEW j \in SwizzleJobs
    PROVE  j \in ScheduledJobs
<1>1. ASSUME j \in Problems({"Identity", "DynamicIdentity"}, {<<2, 9, 7, 1>>, <<1, 5, 16, 1>>},
                           {<<1, 2, 3, 1>>}, {1, 2, 3}, {1})
     PROVE  j \in ScheduledJobs
  <2> DEFINE cuts == {"Identity", "DynamicIdentity"}
             shapes == {<<2, 9, 7, 1>>, <<1, 5, 16, 1>>}
             tiles == {<<1, 2, 3, 1>>}
             offsets == {1, 2, 3}
             cores == {1}
  <2>1. cuts \subseteq Swizzles /\ offsets \subseteq Nat \ {0} /\ cores \subseteq Nat \ {0}
    BY DEF Swizzles
  <2>2. shapes \subseteq Shapes /\ tiles \subseteq Shapes
    BY ShapeOf
  <2>3. ASSUME NEW cut \in cuts, NEW s \in AnyProblem, s.shape \in shapes, s.tile \in tiles, s.cores \in cores
        PROVE  Serves(cut, s)
    BY DEF Serves
  <2> HIDE DEF cuts, shapes, tiles, offsets, cores
  <2> QED
    BY <1>1, <2>1, <2>2, <2>3, ProblemsServed DEF cuts, shapes, tiles, offsets, cores
<1>2. ASSUME j \in Problems({"L1FullLoad"}, {<<1, 9, 7, 1>>, <<1, 5, 16, 1>>},
                           {<<1, 2, 3, 1>>}, {1, 2}, {2, 4})
     PROVE  j \in ScheduledJobs
  <2> DEFINE cuts == {"L1FullLoad"}
             shapes == {<<1, 9, 7, 1>>, <<1, 5, 16, 1>>}
             tiles == {<<1, 2, 3, 1>>}
             offsets == {1, 2}
             cores == {2, 4}
  <2>1. cuts \subseteq Swizzles /\ offsets \subseteq Nat \ {0} /\ cores \subseteq Nat \ {0}
    BY DEF Swizzles
  <2>2. shapes \subseteq Shapes /\ tiles \subseteq Shapes
    BY ShapeOf
  <2>3. ASSUME NEW cut \in cuts, NEW s \in AnyProblem, s.shape \in shapes, s.tile \in tiles, s.cores \in cores
        PROVE  Serves(cut, s)
    BY <2>3 DEF Serves
  <2> HIDE DEF cuts, shapes, tiles, offsets, cores
  <2> QED
    BY <1>2, <2>1, <2>2, <2>3, ProblemsServed DEF cuts, shapes, tiles, offsets, cores
<1>3. ASSUME j \in Problems({"Splitk", "DynamicSplitk"}, {<<1, 5, 4, 9>>, <<2, 3, 5, 8>>},
                           {<<1, 2, 2, 2>>}, {1, 2}, {1, 3})
     PROVE  j \in ScheduledJobs
  <2> DEFINE cuts == {"Splitk", "DynamicSplitk"}
             shapes == {<<1, 5, 4, 9>>, <<2, 3, 5, 8>>}
             tiles == {<<1, 2, 2, 2>>}
             offsets == {1, 2}
             cores == {1, 3}
  <2>1. cuts \subseteq Swizzles /\ offsets \subseteq Nat \ {0} /\ cores \subseteq Nat \ {0}
    BY DEF Swizzles
  <2>2. shapes \subseteq Shapes /\ tiles \subseteq Shapes
    BY ShapeOf
  <2>3. ASSUME NEW cut \in cuts, NEW s \in AnyProblem, s.shape \in shapes, s.tile \in tiles, s.cores \in cores
        PROVE  Serves(cut, s)
    <3>1. (s.shape[4] = 9 \/ s.shape[4] = 8) /\ s.tile[4] = 2 /\ (s.cores = 1 \/ s.cores = 3)
      BY <2>3
    <3> QED
      BY <3>1, ProblemFacts DEF Serves, CeilDiv
  <2> HIDE DEF cuts, shapes, tiles, offsets, cores
  <2> QED
    BY <1>3, <2>1, <2>2, <2>3, ProblemsServed DEF cuts, shapes, tiles, offsets, cores
<1>4. ASSUME j \in Problems({"SingleCoreSplitk", "DynamicSingleCoreSplitk"}, {<<1, 9, 4, 5>>, <<1, 6, 9, 3>>},
                           {<<1, 1, 2, 2>>}, {1, 2, 4}, {1, 4})
     PROVE  j \in ScheduledJobs
  <2> DEFINE cuts == {"SingleCoreSplitk", "DynamicSingleCoreSplitk"}
             shapes == {<<1, 9, 4, 5>>, <<1, 6, 9, 3>>}
             tiles == {<<1, 1, 2, 2>>}
             offsets == {1, 2, 4}
             cores == {1, 4}
  <2>1. cuts \subseteq Swizzles /\ offsets \subseteq Nat \ {0} /\ cores \subseteq Nat \ {0}
    BY DEF Swizzles
  <2>2. shapes \subseteq Shapes /\ tiles \subseteq Shapes
    BY ShapeOf
  <2>3. ASSUME NEW cut \in cuts, NEW s \in AnyProblem, s.shape \in shapes, s.tile \in tiles, s.cores \in cores
        PROVE  Serves(cut, s)
    BY <2>3 DEF Serves
  <2> HIDE DEF cuts, shapes, tiles, offsets, cores
  <2> QED
    BY <1>4, <2>1, <2>2, <2>3, ProblemsServed DEF cuts, shapes, tiles, offsets, cores
<1>5. ASSUME j \in Problems({"Streamk", "DynamicStreamk"}, {<<1, 9, 4, 11>>, <<1, 5, 5, 5>>},
                           {<<1, 2, 2, 2>>}, {1, 3}, {2, 4, 7})
     PROVE  j \in ScheduledJobs
  <2> DEFINE cuts == {"Streamk", "DynamicStreamk"}
             shapes == {<<1, 9, 4, 11>>, <<1, 5, 5, 5>>}
             tiles == {<<1, 2, 2, 2>>}
             offsets == {1, 3}
             cores == {2, 4, 7}
  <2>1. cuts \subseteq Swizzles /\ offsets \subseteq Nat \ {0} /\ cores \subseteq Nat \ {0}
    BY DEF Swizzles
  <2>2. shapes \subseteq Shapes /\ tiles \subseteq Shapes
    BY ShapeOf
  <2>3. ASSUME NEW cut \in cuts, NEW s \in AnyProblem, s.shape \in shapes, s.tile \in tiles, s.cores \in cores
        PROVE  Serves(cut, s)
    BY <2>3 DEF Serves
  <2> HIDE DEF cuts, shapes, tiles, offsets, cores
  <2> QED
    BY <1>5, <2>1, <2>2, <2>3, ProblemsServed DEF cuts, shapes, tiles, offsets, cores
<1>6. ASSUME j \in Problems({"Misplaced"}, {<<2, 9, 20, 1>>, <<1, 19, 9, 1>>, <<1, 4, 4, 1>>},
                           {<<1, 1, 2, 1>>, <<1, 2, 1, 1>>}, {1}, {4, 9})
     PROVE  j \in ScheduledJobs
  <2> DEFINE cuts == {"Misplaced"}
             shapes == {<<2, 9, 20, 1>>, <<1, 19, 9, 1>>, <<1, 4, 4, 1>>}
             tiles == {<<1, 1, 2, 1>>, <<1, 2, 1, 1>>}
             offsets == {1}
             cores == {4, 9}
  <2>1. cuts \subseteq Swizzles /\ offsets \subseteq Nat \ {0} /\ cores \subseteq Nat \ {0}
    BY DEF Swizzles
  <2>2. shapes \subseteq Shapes /\ tiles \subseteq Shapes
    BY ShapeOf
  <2>3. ASSUME NEW cut \in cuts, NEW s \in AnyProblem, s.shape \in shapes, s.tile \in tiles, s.cores \in cores
        PROVE  Serves(cut, s)
    BY DEF Serves
  <2> HIDE DEF cuts, shapes, tiles, offsets, cores
  <2> QED
    BY <1>6, <2>1, <2>2, <2>3, ProblemsServed DEF cuts, shapes, tiles, offsets, cores
<1>7. ASSUME j \in Problems({"Conv3d"}, {<<2, 3, 2, 6>>, <<1, 4, 1, 9>>},
                           {<<2, 2, 2, 2>>, <<1, 2, 1, 3>>}, {1, 2}, {1})
     PROVE  j \in ScheduledJobs
  <2> DEFINE cuts == {"Conv3d"}
             shapes == {<<2, 3, 2, 6>>, <<1, 4, 1, 9>>}
             tiles == {<<2, 2, 2, 2>>, <<1, 2, 1, 3>>}
             offsets == {1, 2}
             cores == {1}
  <2>1. cuts \subseteq Swizzles /\ offsets \subseteq Nat \ {0} /\ cores \subseteq Nat \ {0}
    BY DEF Swizzles
  <2>2. shapes \subseteq Shapes /\ tiles \subseteq Shapes
    BY ShapeOf
  <2>3. ASSUME NEW cut \in cuts, NEW s \in AnyProblem, s.shape \in shapes, s.tile \in tiles, s.cores \in cores
        PROVE  Serves(cut, s)
    BY <2>3, EvenAxes DEF Serves
  <2> HIDE DEF cuts, shapes, tiles, offsets, cores
  <2> QED
    BY <1>7, <2>1, <2>2, <2>3, ProblemsServed DEF cuts, shapes, tiles, offsets, cores
<1>8. ASSUME j \in Problems({"Conv2d"}, {<<2, 5, 3, 4>>},
                           {<<1, 2, 2, 3>>}, {1, 2}, {1})
     PROVE  j \in ScheduledJobs
  <2> DEFINE cuts == {"Conv2d"}
             shapes == {<<2, 5, 3, 4>>}
             tiles == {<<1, 2, 2, 3>>}
             offsets == {1, 2}
             cores == {1}
  <2>1. cuts \subseteq Swizzles /\ offsets \subseteq Nat \ {0} /\ cores \subseteq Nat \ {0}
    BY DEF Swizzles
  <2>2. shapes \subseteq Shapes /\ tiles \subseteq Shapes
    BY ShapeOf
  <2>3. ASSUME NEW cut \in cuts, NEW s \in AnyProblem, s.shape \in shapes, s.tile \in tiles, s.cores \in cores
        PROVE  Serves(cut, s)
    BY DEF Serves
  <2> HIDE DEF cuts, shapes, tiles, offsets, cores
  <2> QED
    BY <1>8, <2>1, <2>2, <2>3, ProblemsServed DEF cuts, shapes, tiles, offsets, cores
<1> QED
  BY <1>1, <1>2, <1>3, <1>4, <1>5, <1>6, <1>7, <1>8 DEF SwizzleJobs

(* The kernels of the run, and their jobs. *)
RunKernelJobs == {KernelJob(s) : s \in {p \in KernelProblems : p.kernel \in Kernels}}

(* The jobs of swizzles, of all-reduces and of these kernels among those   *)
(* of the run.                                                             *)
RunCutJobs == SwizzleJobs \cup TilingJobs \cup RunKernelJobs

(* The jobs of the run for these kernels are among those of the theorems.  *)
LEMMA KernelJobsAre == RunKernelJobs \subseteq CutKernelJobs /\ RunKernelJobs \subseteq Jobs
<1>1. ASSUME NEW s \in KernelProblems, s.kernel \in Kernels
      PROVE  s \in AnyKernelProblem /\ Runs(s)
  <2> DEFINE In(kernels, shape, cores) ==
               /\ s \in [kernel : kernels, shape : {shape}, tile : {<<1, 2, 3, 2>>}, offset : {2},
                          direction : {0, 1}, cores : cores, groups : {<< >>}]
  <2>1. \/ In({"BasicMatmul", "BasicMatmulTla", "BasicMatmulPreload", "MatmulBias", "MatmulFullLoadA",
               "DynamicCommonMatmul"}, <<1, 5, 7, 3>>, {2, 4, 10})
        \/ In({"SmallMatmul"}, <<1, 5, 7, 3>>, {9, 10})
        \/ In({"DynamicSmallMatmul"}, <<1, 5, 7, 3>>, {9})
        \/ In({"BatchedMatmul"}, <<2, 3, 4, 2>>, {3, 4})
        \/ In({"AivMatmul"}, <<1, 5, 7, 1>>, {2, 4})
    <3> DEFINE F(kernels, shape, cores, groups) ==
                 {[kernel |-> kernel, shape |-> shape, tile |-> <<1, 2, 3, 2>>, offset |-> 2, direction |-> d,
                   cores |-> c, groups |-> groups] : kernel \in kernels, d \in {0, 1}, c \in cores}
    <3>1. ASSUME NEW kernels, NEW shape, NEW cores, s \in F(kernels, shape, cores, << >>)
          PROVE  In(kernels, shape, cores)
      BY <3>1
    <3>2. ASSUME NEW kernels, NEW shape, NEW cores, NEW groups, s \in F(kernels, shape, cores, groups)
          PROVE  s.kernel \in kernels
      BY <3>2
    <3>3. \/ s \in F({"BasicMatmul", "BasicMatmulTla", "BasicMatmulPreload", "MatmulBias", "MatmulFullLoadA",
                     "DynamicCommonMatmul"}, <<1, 5, 7, 3>>, {2, 4, 10}, << >>)
          \/ s \in F({"SmallMatmul"}, <<1, 5, 7, 3>>, {9, 10}, << >>)
          \/ s \in F({"DynamicSmallMatmul"}, <<1, 5, 7, 3>>, {9}, << >>)
          \/ s \in F({"BatchedMatmul"}, <<2, 3, 4, 2>>, {3, 4}, << >>)
          \/ s \in F({"AivMatmul"}, <<1, 5, 7, 1>>, {2, 4}, << >>)
          \/ s \in F({"GroupedMatmul"}, <<1, 0, 0, 0>>, {2, 3, 4}, << <<3, 4, 2>>, <<1, 5, 3>>, <<5, 2, 1>> >>)
          \/ s \in F({"GroupedMatmulSliceM"}, <<1, 6, 4, 2>>, {2, 3, 4}, <<3, 3, 4, 6>>)
          \/ s \in F({"GroupedMatmulSliceK"}, <<1, 3, 4, 5>>, {2, 3, 4}, <<2, 2, 5>>)
      BY DEF KernelProblems
    <3> HIDE DEF F, In
    <3> QED
      BY <1>1, <3>1, <3>2, <3>3, Zenon DEF Kernels
  <2>2. s \in AnyKernelProblem
    BY <1>1, <2>1, ShapeOf DEF AnyKernelProblem
  <2>3. s.kernel \in {"SmallMatmul", "DynamicSmallMatmul"} => CoreLoops(s) = 9
    <3>1. Loops(s)[2] = CeilDiv(s.shape[2], s.tile[2]) /\ Loops(s)[3] = CeilDiv(s.shape[3], s.tile[3])
      <4> DEFINE p == Plain(s)
      <4>1. p \in AnyProblem /\ Loops(p) = Loops(s) /\ p.shape = s.shape /\ p.tile = s.tile
        BY <2>2, PlainIs DEF Plain
      <4> HIDE DEF p
      <4> QED
        BY <4>1, ProblemFacts
    <3> QED
      BY <2>1, <3>1 DEF CoreLoops, CeilDiv
  <2> QED
    BY <2>1, <2>2, <2>3 DEF Runs
<1> QED
  BY <1>1 DEF RunKernelJobs, CutKernelJobs, Jobs, KernelJobs, KernelJob

(* They are among the jobs above: the conditions that a swizzle takes for  *)
(* granted hold of each of them.                                           *)
LEMMA RunCutJobsAre == RunCutJobs \subseteq CutJobs
<1> HIDE DEF SwizzleJobs, TilingJobs, ScheduledJobs, AllReduceJobs
<1> QED
  BY KernelJobsAre, SwizzleJobsAre, TilingJobsAre DEF RunCutJobs, CutJobs

(* The invariant says nothing of other jobs.                               *)
RunInv == job \in CutJobs => CutInv

(* It holds in the specification that the run checks, which has other jobs *)
(* too.                                                                    *)
THEOREM RunInvariant == Spec => []RunInv
<1>1. Init => RunInv
  <2> SUFFICES ASSUME Init, job \in CutJobs
               PROVE  CutInv
    BY DEF RunInv
  <2> QED
    BY CutInvIs, PartitionInit DEF Init
<1>2. RunInv /\ [Execute]_vars => RunInv'
  <2> SUFFICES ASSUME RunInv, [Execute]_vars, job' \in CutJobs
               PROVE  CutInv'
    BY DEF RunInv
  <2> QED
    BY CutInvStep DEF RunInv, Execute, vars
<1> QED
  BY <1>1, <1>2, PTL DEF Spec

(* In that specification the job of a block scheduler, of such a kernel or *)
(* of an all-reduce puts every element in place, leaves nothing beyond the *)
(* problem, and its all-reduce tiles fit.                                  *)
THEOREM RunsCut ==
    Spec => [](job \in RunCutJobs => ElementsInPlace /\ StaysInBuffer /\ AllReducePiecesFit)
<1>1. RunInv => (job \in RunCutJobs => ElementsInPlace /\ StaysInBuffer /\ AllReducePiecesFit)
  <2> SUFFICES ASSUME RunInv, job \in RunCutJobs
               PROVE  ElementsInPlace /\ StaysInBuffer /\ AllReducePiecesFit
    OBVIOUS
  <2> QED
    BY CutInvEnds, RunCutJobsAre DEF RunInv
<1> QED
  BY <1>1, RunInvariant, PTL

(* And no two pieces of such a job have an element in common.              *)
THEOREM RunsCutDisjoint ==
    Spec => [][(job \in RunCutJobs => Targets(place) \cap Targets(Head(rest)) \cap Targets(Goal(job)) = {})]_vars
<1>1. RunInv /\ [Execute]_vars
        => [(job \in RunCutJobs => Targets(place) \cap Targets(Head(rest)) \cap Targets(Goal(job)) = {})]_vars
  <2> SUFFICES ASSUME RunInv, [Execute]_vars, job \in RunCutJobs
               PROVE  [Targets(place) \cap Targets(Head(rest)) \cap Targets(Goal(job)) = {}]_vars
    OBVIOUS
  <2> QED
    BY CutStepDisjoint, RunCutJobsAre DEF RunInv
<1> QED
  BY <1>1, RunInvariant, PTL DEF Spec

=============================================================================
