-------------------- MODULE GroupedMatmulAllToAllVProofs ---------------------
(***************************************************************************)
(* Proofs about the grouped matmul + all-to-all kernel: for any number of  *)
(* ranks, cores and experts, of whatever sizes, and any depth of the flag, *)
(* the vector cores send what has been multiplied, copy out when           *)
(* everything has been sent, and leave no flag set; and the blocks are     *)
(* dealt out evenly to the cores.                                          *)
(***************************************************************************)
EXTENDS GroupedMatmulAllToAllV, FiniteSetTheorems, WellFoundedInduction, TLAPS

AicPcs == {"multiply", "set", "awaitAnswer", "done"}

AivPcs == {"wait", "send", "barrierAll", "copyOut", "done"}

(* The first n of the blocks of a core. *)
FirstOf(blocks, n) == {blocks[k] : k \in 1..n}

AllBlocks == Experts \X Nat

(* The variables are functions of the cores. *)
ShapesOK ==
    /\ aic \in [Ranks -> [Aics -> AicPcs]]
    /\ aiv \in [Ranks -> [Aivs -> AivPcs]]
    /\ aicTurn \in [Ranks -> [Aics -> Nat]]
    /\ aivTurn \in [Ranks -> [Aivs -> Nat]]
    /\ mmad \in [Ranks -> [Aivs -> 0..ReverseDepth]]
    /\ reverse \in [Ranks -> [Aivs -> 0..1]]
    /\ setCount \in [Ranks -> [Aics -> 0..ReverseDepth]]
    /\ waitCount \in [Ranks -> [Aivs -> 0..(ReverseDepth - 1)]]
    /\ multiplied \in [Ranks -> SUBSET AllBlocks]
    /\ sent \in [Ranks -> [Aivs -> SUBSET AllBlocks]]

(* A cube core goes through its blocks in order. *)
AicAt(r, c) ==
    /\ aicTurn[r][c] <= Len(AicBlocks(r, c))
    /\ aic[r][c] \in {"multiply", "set"} => aicTurn[r][c] < Len(AicBlocks(r, c))
    /\ aic[r][c] = "done" => aicTurn[r][c] = Len(AicBlocks(r, c))
    /\ aic[r][c] = "awaitAnswer" <=> setCount[r][c] = ReverseDepth

AicHas(r, c) == aicTurn[r][c] + (IF aic[r][c] = "set" THEN 1 ELSE 0)

MultipliedBy(r, c) == FirstOf(AicBlocks(r, c), AicHas(r, c)) \subseteq multiplied[r]

(* And so does a vector core. *)
AivAt(r, v) ==
    /\ aivTurn[r][v] <= Len(AivBlocks(r, v))
    /\ IF aiv[r][v] \in {"wait", "send"}
       THEN aivTurn[r][v] < Len(AivBlocks(r, v))
       ELSE aivTurn[r][v] = Len(AivBlocks(r, v))
    /\ sent[r][v] = FirstOf(AivBlocks(r, v), aivTurn[r][v])

Taken(r, v) == aivTurn[r][v] + (IF aiv[r][v] = "send" THEN 1 ELSE 0)

(* A set that has not been taken is in the flag.  What the cube core has   *)
(* counted is in the flag, is counted by the vector core, or is answered.  *)
FlagOf(r, v) ==
    /\ mmad[r][v] = aicTurn[r][AicOf(v)] - Taken(r, v)
    /\ setCount[r][AicOf(v)]
         = mmad[r][v] + waitCount[r][v] + (IF reverse[r][v] = 1 THEN ReverseDepth ELSE 0)

CoresAt ==
    \A r \in Ranks :
        /\ \A c \in Aics : AicAt(r, c) /\ MultipliedBy(r, c) /\ multiplied[r] \subseteq BlocksOf(r)
        /\ \A v \in Aivs : AivAt(r, v)

FlagsFollow == \A r \in Ranks, v \in Aivs : FlagOf(r, v)

(* No core is past the barrier alone. *)
PastBarrier == {"copyOut", "done"}

BarrierMet ==
    (\E r \in Ranks, v \in Aivs : aiv[r][v] \in PastBarrier)
      => \A r \in Ranks, v \in Aivs : aiv[r][v] \in PastBarrier

IInv == ShapesOK /\ CoresAt /\ FlagsFollow /\ BarrierMet

-----------------------------------------------------------------------------
(* A set of naturals has a least member, so what holds of n whenever it    *)
(* holds below n holds of every n.                                         *)
LEMMA Least ==
    ASSUME NEW T, T \subseteq Nat, T # {}
    PROVE  \E m \in T : \A n \in T : m <= n
<1>1. PICK x \in T : \A y \in T : ~(<<y, x>> \in OpToRel(<, Nat))
  BY NatLessThanWellFounded, WFMin
<1>2. \A y \in T : ~(y < x)
  BY <1>1 DEF OpToRel
<1> QED
  BY <1>2

(* The values of f on 1..n follow from the one before by the steps G[i].   *)
Follows(f, n, base, G) == \A i \in 1..n : f[i] = IF i = 1 THEN base ELSE G[i][f[i - 1]]

(* There is such a function.                                               *)
LEMMA Recursion ==
    ASSUME NEW V, NEW n \in Nat, NEW base \in V, NEW G \in [2..n -> [V -> V]]
    PROVE  \E f \in [1..n -> V] : Follows(f, n, base, G)
<1> DEFINE Is(f, k) == \A i \in 1..k : f[i] = IF i = 1 THEN base ELSE G[i][f[i - 1]]
           Some(k) == \E f \in [1..k -> V] : Is(f, k)
           T == {k \in 0..n : ~Some(k)}
<1> SUFFICES ASSUME T # {}
             PROVE  FALSE
  <2>1. n \in 0..n
    OBVIOUS
  <2>2. Some(n) => \E f \in [1..n -> V] : Follows(f, n, base, G)
    BY DEF Follows
  <2> HIDE DEF Some
  <2> QED
    BY <2>1, <2>2
<1>1. PICK k \in T : \A j \in T : k <= j
  <2>1. T \subseteq Nat
    OBVIOUS
  <2> QED
    BY <2>1, Least
<1>2. k # 0
  <2>1. [i \in 1..0 |-> base] \in [1..0 -> V] /\ Is([i \in 1..0 |-> base], 0)
    OBVIOUS
  <2> QED
    BY <2>1
<1>3. k - 1 \in 0..n /\ k - 1 \notin T
  <2>1. k \in 0..n
    BY <1>1
  <2>2. k - 1 \in 0..n /\ ~(k <= k - 1)
    BY <1>2, <2>1
  <2> HIDE DEF T
  <2> QED
    BY <1>1, <2>2
<1>4. PICK f \in [1..(k - 1) -> V] : Is(f, k - 1)
  BY <1>3
<1> DEFINE g == [i \in 1..k |-> IF i < k THEN f[i] ELSE IF i = 1 THEN base ELSE G[i][f[i - 1]]]
<1>5. g \in [1..k -> V]
  <2>1. ASSUME NEW i \in 1..k
        PROVE  g[i] \in V
    <3>1. CASE i < k
      BY <3>1
    <3>2. CASE i = k /\ i = 1
      BY <3>2
    <3>3. CASE i = k /\ i # 1
      <4>1. i \in 2..n /\ f[i - 1] \in V
        BY <1>1, <3>3
      <4>2. G[i][f[i - 1]] \in V
        BY <4>1
      <4> QED
        BY <3>3, <4>2
    <3> QED
      BY <1>1, <3>1, <3>2, <3>3
  <2> QED
    BY <2>1
<1>6. Is(g, k)
  <2>1. ASSUME NEW i \in 1..k
        PROVE  g[i] = IF i = 1 THEN base ELSE G[i][g[i - 1]]
    <3>1. i # 1 => g[i - 1] = f[i - 1]
      BY <1>1
    <3>2. CASE i < k
      <4>1. i \in 1..(k - 1)
        BY <1>1, <3>2
      <4> QED
        BY <1>4, <3>1, <3>2, <4>1
    <3>3. CASE i = k
      BY <1>1, <3>1, <3>3
    <3> QED
      BY <1>1, <3>2, <3>3
  <2> QED
    BY <2>1
<1> QED
  BY <1>1, <1>5, <1>6

(* Where the elements of two sequences are when they are joined.           *)
LEMMA Joined ==
    ASSUME NEW S, NEW p \in Seq(S), NEW q \in Seq(S)
    PROVE  /\ \A k \in DOMAIN p : k \in DOMAIN (p \o q) /\ (p \o q)[k] = p[k]
           /\ \A k \in DOMAIN q :
                Len(p) + k \in DOMAIN (p \o q) /\ (p \o q)[Len(p) + k] = q[k]
OBVIOUS

(* What FlattenSeq returns has the elements of the sequences and no other. *)
LEMMA Flattened ==
    ASSUME NEW S, NEW seqs \in Seq(Seq(S))
    PROVE  /\ FlattenSeq(seqs) \in Seq(S)
           /\ \A i \in DOMAIN seqs : \A j \in DOMAIN seqs[i] :
                \E k \in DOMAIN FlattenSeq(seqs) : FlattenSeq(seqs)[k] = seqs[i][j]
<1>1. CASE Len(seqs) = 0
  <2>1. FlattenSeq(seqs) = seqs
    BY <1>1 DEF FlattenSeq
  <2>2. seqs = << >>
    BY <1>1
  <2>3. << >> \in Seq(S)
    OBVIOUS
  <2>4. DOMAIN seqs = {}
    BY <2>2
  <2> QED
    BY <2>1, <2>2, <2>3, <2>4
<1>2. CASE Len(seqs) # 0
  <2> DEFINE n == Len(seqs)
             P(g) == g = [i \in 1..n |-> IF i = 1 THEN seqs[i] ELSE g[i - 1] \o seqs[i]]
             G == [i \in 2..n |-> [v \in Seq(S) |-> v \o seqs[i]]]
  <2>1. n \in Nat /\ n # 0 /\ DOMAIN seqs = 1..n /\ \A i \in 1..n : seqs[i] \in Seq(S)
    BY <1>2
  <2>0. FlattenSeq(seqs) = (CHOOSE g : P(g))[n]
    BY <1>2 DEF FlattenSeq
  <2> HIDE DEF n
  <2>2. G \in [2..n -> [Seq(S) -> Seq(S)]]
    BY <2>1
  <2> HIDE DEF G
  <2>3. PICK f \in [1..n -> Seq(S)] :
             \A i \in 1..n : f[i] = IF i = 1 THEN seqs[1] ELSE G[i][f[i - 1]]
    <3>1. seqs[1] \in Seq(S) /\ n \in Nat
      BY <2>1
    <3> DEFINE V == Seq(S)
               base == seqs[1]
    <3>2. base \in V /\ G \in [2..n -> [V -> V]]
      BY <2>2, <3>1
    <3> HIDE DEF V, base
    <3>3. \E f \in [1..n -> V] : Follows(f, n, base, G)
      BY <3>1, <3>2, Recursion
    <3> QED
      BY <3>3 DEF V, base, Follows
  <2>4. P(f)
    <3>1. ASSUME NEW i \in 1..n
          PROVE  f[i] = IF i = 1 THEN seqs[i] ELSE f[i - 1] \o seqs[i]
      <4>1. CASE i = 1
        BY <2>3, <4>1
      <4>2. CASE i # 1
        <5>1. i \in 2..n /\ i - 1 \in 1..n
          BY <2>1, <4>2
        <5>3. f[i - 1] \in Seq(S)
          BY <5>1
        <5>2. G[i][f[i - 1]] = f[i - 1] \o seqs[i]
          BY <5>1, <5>3 DEF G
        <5> QED
          BY <2>3, <4>2, <5>2
      <4> QED
        BY <4>1, <4>2
    <3> QED
      BY <3>1
  <2> DEFINE h == CHOOSE g : P(g)
  <2>5. P(h)
    BY <2>4
  <2>6. FlattenSeq(seqs) = h[n]
    BY <2>0
  <2> HIDE DEF h, P
  <2>7. \A i \in 1..n : h[i] = IF i = 1 THEN seqs[i] ELSE h[i - 1] \o seqs[i]
    BY <2>5 DEF P
  <2> DEFINE Has(i) == /\ h[i] \in Seq(S)
                       /\ \A m \in 1..i : \A j \in DOMAIN seqs[m] :
                            \E k \in DOMAIN h[i] : h[i][k] = seqs[m][j]
             T == {i \in 1..n : ~Has(i)}
  <2> HIDE DEF Has
  <2>8. T = {}
    <3> SUFFICES ASSUME T # {}
                 PROVE  FALSE
      OBVIOUS
    <3>1. PICK i \in T : \A j \in T : i <= j
      <4>1. T \subseteq Nat
        BY <2>1
      <4> QED
        BY <4>1, Least
    <3>2. CASE i = 1
      <4>1. h[i] = seqs[1]
        BY <2>1, <2>7, <3>2
      <4>2. Has(i)
        BY <2>1, <3>2, <4>1 DEF Has
      <4> QED
        BY <3>1, <4>2
    <3>3. CASE i # 1
      <4>1. i - 1 \in 1..n /\ i \in 1..n /\ Has(i - 1)
        BY <2>1, <3>1, <3>3
      <4>2. h[i] = h[i - 1] \o seqs[i] /\ h[i - 1] \in Seq(S) /\ seqs[i] \in Seq(S)
        BY <2>1, <2>7, <3>3, <4>1 DEF Has
      <4> DEFINE p == h[i - 1]
                 q == seqs[i]
      <4>3. h[i] \in Seq(S)
        BY <4>2
      <4>5. h[i] = p \o q /\ p \in Seq(S) /\ q \in Seq(S)
        BY <4>2
      <4> HIDE DEF p, q
      <4>6. /\ \A k \in DOMAIN p : k \in DOMAIN h[i] /\ h[i][k] = p[k]
            /\ \A k \in DOMAIN q : Len(p) + k \in DOMAIN h[i] /\ h[i][Len(p) + k] = q[k]
        BY <4>5, Joined
      <4>4. ASSUME NEW m \in 1..i, NEW j \in DOMAIN seqs[m]
            PROVE  \E k \in DOMAIN h[i] : h[i][k] = seqs[m][j]
        <5>1. CASE m = i
          <6>1. j \in DOMAIN q /\ q[j] = seqs[m][j]
            BY <5>1 DEF q
          <6> QED
            BY <4>6, <6>1
        <5>2. CASE m # i
          <6>1. m \in 1..(i - 1)
            BY <4>1, <5>2
          <6>2. PICK k \in DOMAIN h[i - 1] : h[i - 1][k] = seqs[m][j]
            BY <4>1, <6>1 DEF Has
          <6>3. k \in DOMAIN h[i] /\ h[i][k] = h[i - 1][k]
            BY <4>6, <6>2 DEF p
          <6> QED
            BY <6>2, <6>3
        <5> QED
          BY <5>1, <5>2
      <4> QED
        BY <3>1, <4>3, <4>4 DEF Has
    <3> QED
      BY <3>2, <3>3
  <2>9. n \in 1..n
    BY <2>1
  <2>10. Has(n)
    BY <2>8, <2>9
  <2> QED
    BY <2>1, <2>6, <2>10 DEF Has
<1> QED
  BY <1>1, <1>2

-----------------------------------------------------------------------------
(* The experts are numbered from 1. *)
LEMMA ExpertNumbers ==
    /\ Len(CoreLoops[0]) \in Nat
    /\ Experts = 1..Len(CoreLoops[0])
    /\ \A r \in Ranks, e \in Experts : CoreLoops[r][e] \in Nat
    /\ RankSize \in Nat \ {0} /\ Cores \in Nat \ {0} /\ ReverseDepth \in Nat \ {0}
<1>1. 0 \in Ranks
  BY SizeAssumption DEF Ranks
<1>2. CoreLoops[0] \in Seq(Nat)
  BY <1>1, LoopsAssumption
<1>3. ASSUME NEW r \in Ranks, NEW e \in Experts
      PROVE  CoreLoops[r][e] \in Nat
  BY LoopsAssumption
<1> QED
  BY <1>2, <1>3, SizeAssumption, DepthAssumption DEF Experts

(* startCoreIdx goes on from expert to expert.                             *)
LEMMA StartsFollow ==
    ASSUME NEW r \in Ranks, NEW e \in Experts
    PROVE  StartCoreIdx(r, e)
             = IF e = 1 THEN 0 ELSE (StartCoreIdx(r, e - 1) + CoreLoops[r][e - 1]) % Cores
<1> DEFINE n == Len(CoreLoops[0])
           K == Cores
           N(f) == CoreLoops[r][f]
<1>1. /\ n \in Nat /\ Experts = 1..n /\ K \in Nat \ {0} /\ 0 \in Aics
      /\ Aics = 0..(K - 1)
      /\ \A f \in 1..n : N(f) \in Nat
  BY ExpertNumbers DEF Aics
<1> DEFINE P(g) == g = [f \in Experts |-> IF f = 1 THEN 0 ELSE (g[f - 1] + N(f - 1)) % Cores]
           G == [f \in 2..n |-> [v \in Aics |-> (v + N(f - 1)) % K]]
           h == CHOOSE g : P(g)
<1>2. \A f : StartCoreIdx(r, f) = h[f]
  BY DEF StartCoreIdx
<1> HIDE DEF n, K, N
<1>3. G \in [2..n -> [Aics -> Aics]]
  <2>1. ASSUME NEW f \in 2..n, NEW v \in Aics
        PROVE  (v + N(f - 1)) % K \in Aics
    <3>1. f - 1 \in 1..n
      BY <1>1
    <3>2. v \in Nat /\ N(f - 1) \in Nat
      BY <1>1, <3>1
    <3>3. v + N(f - 1) \in Nat
      BY <3>2
    <3> QED
      BY <1>1, <3>3
  <2> QED
    BY <2>1
<1> HIDE DEF G
<1>4. PICK s \in [1..n -> Aics] : Follows(s, n, 0, G)
  BY <1>1, <1>3, Recursion
<1>5. P(s)
  <2>1. ASSUME NEW f \in 1..n
        PROVE  s[f] = IF f = 1 THEN 0 ELSE (s[f - 1] + N(f - 1)) % Cores
    <3>1. CASE f = 1
      BY <1>4, <3>1 DEF Follows
    <3>2. CASE f # 1
      <4>1. f \in 2..n /\ f - 1 \in 1..n
        BY <1>1, <3>2
      <4>2. s[f - 1] \in Aics /\ s[f] = G[f][s[f - 1]]
        BY <1>4, <3>2, <4>1 DEF Follows
      <4> QED
        BY <3>2, <4>1, <4>2 DEF G, K
    <3> QED
      BY <3>1, <3>2
  <2> QED
    BY <1>1, <2>1
<1>6. P(h)
  BY <1>5
<1> HIDE DEF h
<1>7. h[e] = IF e = 1 THEN 0 ELSE (h[e - 1] + N(e - 1)) % K
  BY <1>1, <1>6 DEF K
<1> QED
  BY <1>2, <1>7 DEF N, K

(* It is the index of a core.                                              *)
LEMMA StartType ==
    ASSUME NEW r \in Ranks, NEW e \in Experts
    PROVE  StartCoreIdx(r, e) \in Aics
<1> DEFINE T == {f \in Experts : StartCoreIdx(r, f) \notin Aics}
<1>1. /\ Experts = 1..Len(CoreLoops[0]) /\ Len(CoreLoops[0]) \in Nat
      /\ \A f \in Experts : CoreLoops[r][f] \in Nat
      /\ Cores \in Nat \ {0} /\ Aics = 0..(Cores - 1)
  BY ExpertNumbers DEF Aics
<1> SUFFICES ASSUME T # {}
             PROVE  FALSE
  OBVIOUS
<1>2. PICK f \in T : \A g \in T : f <= g
  <2>1. T \subseteq Nat
    BY <1>1
  <2> QED
    BY <2>1, Least
<1>3. f \in Experts /\ StartCoreIdx(r, f) \notin Aics
  BY <1>2
<1>4. StartCoreIdx(r, f)
        = IF f = 1 THEN 0 ELSE (StartCoreIdx(r, f - 1) + CoreLoops[r][f - 1]) % Cores
  BY <1>3, StartsFollow
<1>5. f # 1
  BY <1>1, <1>3, <1>4
<1>6. f - 1 \in Experts /\ ~(f <= f - 1)
  BY <1>1, <1>3, <1>5
<1>7. StartCoreIdx(r, f - 1) \in Aics
  BY <1>2, <1>6
<1> DEFINE a == StartCoreIdx(r, f - 1) + CoreLoops[r][f - 1]
<1>8. a \in Nat
  BY <1>1, <1>6, <1>7
<1>9. a % Cores \in Aics
  <2> HIDE DEF a
  <2> QED
    BY <1>1, <1>8
<1> QED
  BY <1>3, <1>4, <1>5, <1>9

(* Division, as far as it is needed. *)
LEMMA Division ==
    ASSUME NEW a \in Nat, NEW k \in Nat \ {0}
    PROVE  /\ a \div k \in Nat
           /\ a % k \in 0..(k - 1)
           /\ a = (a \div k) * k + (a % k)
OBVIOUS

(* And back. *)
LEMMA Quotient ==
    ASSUME NEW q \in Nat, NEW k \in Nat \ {0}, NEW m \in 0..(k - 1)
    PROVE  (q * k + m) \div k = q /\ (q * k + m) % k = m
OBVIOUS

(* Of two products with the same factor the one with the smaller other     *)
(* factor is not larger.                                                   *)
LEMMA MultiplyMono ==
    ASSUME NEW m \in Nat, NEW n \in Nat, NEW k \in Nat, m <= n
    PROVE  m * k <= n * k /\ m * k \in Nat /\ n * k \in Nat
OBVIOUS

(* A multiple of k that is at most a is at most the (a / k)-th.            *)
LEMMA DivisionMono ==
    ASSUME NEW a \in Nat, NEW k \in Nat \ {0}, NEW m \in Nat, m * k <= a
    PROVE  m <= a \div k
<1>1. a \div k \in Nat /\ a % k \in 0..(k - 1) /\ a = (a \div k) * k + (a % k)
  BY Division
<1> DEFINE q == a \div k
<1> HIDE DEF q
<1> SUFFICES ASSUME q + 1 <= m
             PROVE  FALSE
  BY <1>1 DEF q
<1>2. (q + 1) * k <= m * k
  BY <1>1, MultiplyMono DEF q
<1>3. (q + 1) * k = q * k + k /\ q * k \in Nat
  BY <1>1 DEF q
<1> QED
  BY <1>1, <1>2, <1>3 DEF q

(* Every Cores-th block of an expert from startLoopIdx on is one of its    *)
(* blocks.                                                                 *)
LEMMA ExpertBlocksType ==
    ASSUME NEW r \in Ranks, NEW e \in Experts, NEW start \in Aics, NEW c \in Aics
    PROVE  BlocksOfExpert(r, e, start, c) \in Seq(BlocksOf(r))
<1> DEFINE N == CoreLoops[r][e]
           K == Cores
           first == StartLoopIdx(start, c)
           count == (N - first + K - 1) \div K
<1>1. BlocksOfExpert(r, e, start, c) = [n \in 1..count |-> <<e, first + (n - 1) * K>>]
  BY DEF BlocksOfExpert
<1>2. N \in Nat /\ K \in Nat \ {0} /\ first \in 0..(K - 1)
  <2>1. N \in Nat /\ K \in Nat \ {0}
    BY ExpertNumbers
  <2> QED
    BY <2>1 DEF StartLoopIdx, Aics
<1>3. BlocksOf(r) = UNION {{f} \X (0..(CoreLoops[r][f] - 1)) : f \in Experts}
  BY DEF BlocksOf
<1>4. \A b \in 0..(N - 1) : <<e, b>> \in BlocksOf(r)
  BY <1>3
<1> HIDE DEF N, K, first
<1>5. N - first + K - 1 \in Nat
  BY <1>2
<1>6. count \in Nat /\ count * K <= N - first + K - 1
  <2> DEFINE a == N - first + K - 1
  <2>1. a \in Nat
    BY <1>5
  <2> HIDE DEF a
  <2>2. a \div K \in Nat /\ a % K \in Nat /\ a = (a \div K) * K + (a % K)
    BY <1>2, <2>1, Division
  <2>3. (a \div K) * K \in Nat
    BY <1>2, <2>2
  <2>4. (a \div K) * K <= a
    BY <2>2, <2>3
  <2> QED
    BY <2>2, <2>4 DEF a
<1> HIDE DEF count
<1>7. ASSUME NEW n \in 1..count
      PROVE  first + (n - 1) * K \in 0..(N - 1)
  <2>1. n \in Nat /\ n - 1 \in Nat /\ n <= count
    BY <1>6
  <2>2. n * K <= count * K /\ n * K \in Nat /\ count * K \in Nat
    BY <1>2, <1>6, <2>1, MultiplyMono
  <2>3. (n - 1) * K = n * K - K /\ (n - 1) * K \in Nat
    BY <1>2, <2>1
  <2> QED
    BY <1>2, <1>6, <2>2, <2>3
<1> QED
  BY <1>1, <1>4, <1>6, <1>7

(* And every block of an expert is among those of some core, wherever the  *)
(* expert starts.                                                          *)
LEMMA ExpertCovered ==
    ASSUME NEW r \in Ranks, NEW e \in Experts, NEW start \in Aics,
           NEW b \in 0..(CoreLoops[r][e] - 1)
    PROVE  \E c \in Aics : \E n \in DOMAIN BlocksOfExpert(r, e, start, c) :
              BlocksOfExpert(r, e, start, c)[n] = <<e, b>>
<1> DEFINE N == CoreLoops[r][e]
           K == Cores
           m == b % K
           q == b \div K
           c == IF start + m < K THEN start + m ELSE start + m - K
<1>1. N \in Nat /\ K \in Nat \ {0} /\ b \in Nat /\ b < N /\ start \in 0..(K - 1)
  BY ExpertNumbers DEF Aics
<1>2. q \in Nat /\ m \in 0..(K - 1) /\ b = q * K + m
  BY <1>1, Division
<1>3. \A d \in Aics :
        BlocksOfExpert(r, e, start, d)
          = [n \in 1..((N - StartLoopIdx(start, d) + K - 1) \div K) |->
               <<e, StartLoopIdx(start, d) + (n - 1) * K>>]
  BY DEF BlocksOfExpert
<1> HIDE DEF N, K, m, q
<1>4. c \in Aics /\ StartLoopIdx(start, c) = m
  <2>1. Aics = 0..(K - 1) /\ StartLoopIdx(start, c) = IF c < start THEN c + K - start ELSE c - start
    BY DEF Aics, StartLoopIdx, K
  <2> QED
    BY <1>1, <1>2, <2>1
<1> HIDE DEF c
<1> DEFINE count == (N - m + K - 1) \div K
<1>5. q + 1 \in 1..count
  <2>1. N - m + K - 1 \in Nat
    BY <1>1, <1>2
  <2>2. (q + 1) * K = q * K + K /\ q * K \in Nat
    BY <1>1, <1>2
  <2>3. (q + 1) * K <= N - m + K - 1
    BY <1>1, <1>2, <2>2
  <2>4. q + 1 <= count /\ count \in Nat
    <3> DEFINE a == N - m + K - 1
    <3>1. a \in Nat /\ q + 1 \in Nat /\ (q + 1) * K <= a
      BY <1>2, <2>1, <2>3
    <3> HIDE DEF a
    <3> QED
      BY <1>1, <3>1, Division, DivisionMono DEF a
  <2> HIDE DEF count
  <2> QED
    BY <1>2, <2>4
<1>6. m + ((q + 1) - 1) * K = b
  BY <1>1, <1>2
<1>7. BlocksOfExpert(r, e, start, c) = [n \in 1..count |-> <<e, m + (n - 1) * K>>]
  BY <1>3, <1>4
<1> HIDE DEF count
<1>8. /\ q + 1 \in DOMAIN BlocksOfExpert(r, e, start, c)
      /\ BlocksOfExpert(r, e, start, c)[q + 1] = <<e, b>>
  BY <1>5, <1>6, <1>7
<1> QED
  BY <1>4, <1>8

(* So the blocks of a core are blocks of its rank. *)
LEMMA BlocksType ==
    ASSUME NEW r \in Ranks, NEW c \in Aics
    PROVE  /\ AicBlocks(r, c) \in Seq(BlocksOf(r))
           /\ Len(AicBlocks(r, c)) \in Nat
           /\ \A k \in 1..Len(AicBlocks(r, c)) : AicBlocks(r, c)[k] \in BlocksOf(r)
           /\ BlocksOf(r) \subseteq AllBlocks
<1> DEFINE ss == [e \in Experts |-> BlocksOfExpert(r, e, StartCoreIdx(r, e), c)]
           B == BlocksOf(r)
<1>1. AicBlocks(r, c) = FlattenSeq(ss)
  BY DEF AicBlocks
<1>2. \A e \in Experts : ss[e] \in Seq(B)
  BY StartType, ExpertBlocksType
<1>3. BlocksOf(r) \subseteq AllBlocks
  BY ExpertNumbers DEF BlocksOf, AllBlocks
<1> HIDE DEF B
<1>4. ss \in Seq(Seq(B))
  <2> DEFINE S == Seq(B)
  <2> HIDE DEF S
  <2>1. ss \in [Experts -> S]
    BY <1>2 DEF S
  <2> HIDE DEF ss
  <2>2. ss \in Seq(S)
    BY <2>1, ExpertNumbers
  <2> QED
    BY <2>2 DEF S
<1> HIDE DEF ss
<1>5. AicBlocks(r, c) \in Seq(B)
  BY <1>1, <1>4, Flattened
<1> QED
  BY <1>3, <1>5 DEF B

(* And every block of the rank is one of some core.                        *)
LEMMA BlocksCovered ==
    ASSUME NEW r \in Ranks, NEW x \in BlocksOf(r)
    PROVE  \E c \in Aics : x \in FirstOf(AicBlocks(r, c), Len(AicBlocks(r, c)))
<1>1. PICK e \in Experts : \E b \in 0..(CoreLoops[r][e] - 1) : x = <<e, b>>
  BY DEF BlocksOf
<1>2. PICK b \in 0..(CoreLoops[r][e] - 1) : x = <<e, b>>
  BY <1>1
<1>3. PICK c \in Aics : \E n \in DOMAIN BlocksOfExpert(r, e, StartCoreIdx(r, e), c) :
                           BlocksOfExpert(r, e, StartCoreIdx(r, e), c)[n] = x
  BY <1>2, StartType, ExpertCovered
<1> DEFINE ss == [f \in Experts |-> BlocksOfExpert(r, f, StartCoreIdx(r, f), c)]
           B == BlocksOf(r)
<1>4. AicBlocks(r, c) = FlattenSeq(ss)
  BY DEF AicBlocks
<1>5. \A f \in Experts : ss[f] \in Seq(B)
  BY StartType, ExpertBlocksType
<1>6. e \in DOMAIN ss /\ \E n \in DOMAIN ss[e] : ss[e][n] = x
  BY <1>3
<1> HIDE DEF B
<1>7. ss \in Seq(Seq(B))
  <2> DEFINE S == Seq(B)
  <2> HIDE DEF S
  <2>1. ss \in [Experts -> S]
    BY <1>5 DEF S
  <2> HIDE DEF ss
  <2>2. ss \in Seq(S)
    BY <2>1, ExpertNumbers
  <2> QED
    BY <2>2 DEF S
<1> HIDE DEF ss
<1>8. \E k \in DOMAIN FlattenSeq(ss) : FlattenSeq(ss)[k] = x
  BY <1>6, <1>7, Flattened
<1>9. PICK k \in DOMAIN AicBlocks(r, c) : AicBlocks(r, c)[k] = x
  BY <1>4, <1>8
<1>10. k \in 1..Len(AicBlocks(r, c))
  BY <1>9, BlocksType
<1> QED
  BY <1>9, <1>10 DEF FirstOf

(* A vector core works out the blocks of its cube core. *)
LEMMA SameBlocks ==
    ASSUME NEW v \in Aivs
    PROVE  /\ AicOf(v) \in Aics
           /\ \A r \in Ranks : AivBlocks(r, v) = AicBlocks(r, AicOf(v))
           /\ \A c \in Aics : v \in AivsOf(c) <=> c = AicOf(v)
BY SizeAssumption DEF Aivs, Aics, AicOf, AivsOf, AivBlocks, AicBlocks

-----------------------------------------------------------------------------
(* The elements of a sequence.                                             *)
LEMMA Elements ==
    ASSUME NEW S, NEW s \in Seq(S)
    PROVE  Len(s) \in Nat /\ DOMAIN s = 1..Len(s) /\ \A k \in DOMAIN s : s[k] \in S
OBVIOUS

(* What is a sequence. *)
LEMMA IsSequence ==
    ASSUME NEW S, NEW n \in Nat, NEW s \in [1..n -> S]
    PROVE  s \in Seq(S)
OBVIOUS

(* The cube core a block of a rank belongs to, and the blocks of a core.   *)
OwnerOf(r, b) == (StartCoreIdx(r, b[1]) + b[2]) % Cores

Owned(r, c) == {b \in BlocksOf(r) : OwnerOf(r, b) = c}

(* A core goes through no block but its own. *)
LEMMA ExpertOwned ==
    ASSUME NEW r \in Ranks, NEW e \in Experts, NEW c \in Aics
    PROVE  BlocksOfExpert(r, e, StartCoreIdx(r, e), c) \in Seq(Owned(r, c))
<1> DEFINE K == Cores
           start == StartCoreIdx(r, e)
           first == StartLoopIdx(start, c)
           count == (CoreLoops[r][e] - first + K - 1) \div K
           blocks == BlocksOfExpert(r, e, start, c)
<1>1. K \in Nat \ {0} /\ start \in 0..(K - 1) /\ c \in 0..(K - 1)
  BY StartType, ExpertNumbers DEF Aics
<1>2. first \in Nat /\ (start + first = c \/ start + first = c + K)
  BY <1>1 DEF StartLoopIdx
<1>3. blocks \in Seq(BlocksOf(r)) /\ blocks = [n \in 1..count |-> <<e, first + (n - 1) * K>>]
  BY StartType, ExpertBlocksType DEF BlocksOfExpert
<1>4. \A b \in BlocksOf(r) : b \in Owned(r, c) <=> OwnerOf(r, b) = c
  BY DEF Owned
<1>5. \A i : OwnerOf(r, <<e, i>>) = (start + i) % K
  BY DEF OwnerOf
<1> HIDE DEF K, start, first, count
<1>6. ASSUME NEW n \in 1..count
      PROVE  (start + (first + (n - 1) * K)) % K = c
  <2> DEFINE m == n - 1
  <2>1. m \in Nat
    OBVIOUS
  <2> HIDE DEF m
  <2>2. m * K \in Nat /\ (m + 1) * K = m * K + K
    BY <1>1, <2>1
  <2>3. (m * K + c) % K = c /\ ((m + 1) * K + c) % K = c
    <3>1. m + 1 \in Nat
      BY <2>1
    <3> QED
      BY <1>1, <2>1, <3>1, Quotient
  <2>4. \/ start + (first + m * K) = m * K + c
        \/ start + (first + m * K) = (m + 1) * K + c
    BY <1>1, <1>2, <2>2
  <2>5. (start + (first + m * K)) % K = c
    BY <2>3, <2>4
  <2> QED
    BY <2>5 DEF m
<1>7. Len(blocks) \in Nat /\ DOMAIN blocks = 1..Len(blocks) /\ DOMAIN blocks = 1..count
  <2> HIDE DEF blocks
  <2>1. Len(blocks) \in Nat /\ DOMAIN blocks = 1..Len(blocks)
    BY <1>3, Elements
  <2>2. DOMAIN blocks = 1..count
    BY <1>3
  <2> QED
    BY <2>1, <2>2
<1> HIDE DEF blocks
<1>8. ASSUME NEW n \in 1..Len(blocks)
      PROVE  blocks[n] \in Owned(r, c)
  <2>1. n \in 1..count
    BY <1>7
  <2>2. blocks[n] \in BlocksOf(r)
    BY <1>3, <1>7, Elements
  <2>3. blocks[n] = <<e, first + (n - 1) * K>>
    BY <1>3, <2>1
  <2> QED
    BY <1>4, <1>5, <1>6, <2>1, <2>2, <2>3
<1> DEFINE B == Owned(r, c)
<1>9. \A n \in 1..Len(blocks) : blocks[n] \in B
  BY <1>8
<1> HIDE DEF B
<1>10. blocks \in Seq(B)
  <2>1. blocks = [n \in 1..Len(blocks) |-> blocks[n]]
    BY <1>3, <1>7
  <2>2. blocks \in [1..Len(blocks) -> B]
    BY <1>9, <2>1
  <2> QED
    BY <1>7, <2>2, IsSequence
<1> QED
  BY <1>10 DEF blocks, start, B

(* So the blocks a core goes through are all of its own. *)
LEMMA BlocksOwned ==
    ASSUME NEW r \in Ranks, NEW c \in Aics
    PROVE  FirstOf(AicBlocks(r, c), Len(AicBlocks(r, c))) = Owned(r, c)
<1>1. ASSUME NEW d \in Aics
      PROVE  FirstOf(AicBlocks(r, d), Len(AicBlocks(r, d))) \subseteq Owned(r, d)
  <2> DEFINE ss == [e \in Experts |-> BlocksOfExpert(r, e, StartCoreIdx(r, e), d)]
             B == Owned(r, d)
  <2>1. AicBlocks(r, d) = FlattenSeq(ss)
    BY DEF AicBlocks
  <2>2. \A e \in Experts : ss[e] \in Seq(B)
    BY ExpertOwned
  <2> HIDE DEF B
  <2>3. ss \in Seq(Seq(B))
    <3> DEFINE S == Seq(B)
    <3> HIDE DEF S
    <3>1. ss \in [Experts -> S]
      BY <2>2 DEF S
    <3> HIDE DEF ss
    <3>2. ss \in Seq(S)
      BY <3>1, ExpertNumbers
    <3> QED
      BY <3>2 DEF S
  <2> HIDE DEF ss
  <2>4. AicBlocks(r, d) \in Seq(B)
    BY <2>1, <2>3, Flattened
  <2>5. \A k \in 1..Len(AicBlocks(r, d)) : AicBlocks(r, d)[k] \in B
    BY <2>4
  <2> QED
    BY <2>5 DEF FirstOf, B
<1>2. ASSUME NEW x \in Owned(r, c)
      PROVE  x \in FirstOf(AicBlocks(r, c), Len(AicBlocks(r, c)))
  <2>1. x \in BlocksOf(r) /\ OwnerOf(r, x) = c
    BY DEF Owned
  <2>2. PICK d \in Aics : x \in FirstOf(AicBlocks(r, d), Len(AicBlocks(r, d)))
    BY <2>1, BlocksCovered
  <2>3. x \in Owned(r, d)
    BY <1>1, <2>2
  <2>4. d = c
    BY <2>1, <2>3 DEF Owned
  <2> QED
    BY <2>2, <2>4
<1> QED
  BY <1>1, <1>2

(* The blocks of an expert that belong to a core.                          *)
OfExpert(r, e, c) == {b \in Owned(r, c) : b[1] = e}

(* They are as many as the core counts.                                    *)
LEMMA ExpertCount ==
    ASSUME NEW r \in Ranks, NEW e \in Experts, NEW c \in Aics
    PROVE  /\ IsFiniteSet(OfExpert(r, e, c))
           /\ Cardinality(OfExpert(r, e, c))
                = (CoreLoops[r][e] - StartLoopIdx(StartCoreIdx(r, e), c) + Cores - 1) \div Cores
<1> DEFINE K == Cores
           N == CoreLoops[r][e]
           start == StartCoreIdx(r, e)
           first == StartLoopIdx(start, c)
           count == (N - first + K - 1) \div K
           blocks == BlocksOfExpert(r, e, start, c)
           S == OfExpert(r, e, c)
<1>1. K \in Nat \ {0} /\ start \in 0..(K - 1) /\ first \in 0..(K - 1) /\ N \in Nat
  <2>1. K \in Nat \ {0} /\ start \in 0..(K - 1) /\ N \in Nat
    BY StartType, ExpertNumbers DEF Aics
  <2> QED
    BY <2>1 DEF StartLoopIdx, Aics
<1>2. blocks \in Seq(Owned(r, c)) /\ blocks = [n \in 1..count |-> <<e, first + (n - 1) * K>>]
  BY ExpertOwned DEF BlocksOfExpert
<1>3. S = {b \in Owned(r, c) : b[1] = e}
  BY DEF OfExpert
<1>4. ASSUME NEW x \in S
      PROVE  \E n \in DOMAIN blocks : blocks[n] = x
  <2>1. x \in Owned(r, c) /\ x[1] = e /\ x \in BlocksOf(r)
    BY DEF OfExpert, Owned
  <2>2. PICK i \in 0..(N - 1) : x = <<e, i>>
    BY <2>1 DEF BlocksOf
  <2>3. PICK d \in Aics : \E n \in DOMAIN BlocksOfExpert(r, e, start, d) :
                            BlocksOfExpert(r, e, start, d)[n] = x
    BY <2>2, StartType, ExpertCovered
  <2>4. BlocksOfExpert(r, e, start, d) \in Seq(Owned(r, d))
    BY ExpertOwned
  <2>5. PICK n \in DOMAIN BlocksOfExpert(r, e, start, d) :
                            BlocksOfExpert(r, e, start, d)[n] = x
    BY <2>3
  <2>6. x \in Owned(r, d)
    BY <2>4, <2>5
  <2>7. d = c
    BY <2>1, <2>6 DEF Owned
  <2> QED
    BY <2>5, <2>7
<1>5. N - first + K - 1 \in Nat
  BY <1>1
<1> HIDE DEF K, N, start, first, S
<1>6. count \in Nat
  BY <1>1, <1>5, Division
<1> HIDE DEF count, blocks
<1>7. DOMAIN blocks = 1..count /\ \A n \in 1..count : blocks[n] = <<e, first + (n - 1) * K>>
  BY <1>2
<1>8. \A n \in 1..count : blocks[n] \in S
  <2> DEFINE B == Owned(r, c)
  <2>0. blocks \in Seq(B)
    BY <1>2
  <2> HIDE DEF B
  <2>1. \A n \in 1..count : blocks[n] \in B
    BY <1>7, <2>0, Elements
  <2> USE DEF B
  <2> QED
    BY <1>3, <1>7, <2>1
<1>9. ASSUME NEW m \in 1..count, NEW n \in 1..count, blocks[m] = blocks[n]
      PROVE  m = n
  <2>1. first + (m - 1) * K = first + (n - 1) * K
    BY <1>7, <1>9
  <2>2. m \in Nat /\ n \in Nat /\ m - 1 \in Nat /\ n - 1 \in Nat
    OBVIOUS
  <2>3. (m - 1) * K + 0 = (n - 1) * K + 0
    <3>1. (m - 1) * K \in Nat /\ (n - 1) * K \in Nat
      BY <1>1, <2>2
    <3> QED
      BY <1>1, <2>1, <3>1
  <2>4. 0 \in 0..(K - 1)
    BY <1>1
  <2>5. m - 1 = n - 1
    BY <1>1, <2>2, <2>3, <2>4, Quotient
  <2> QED
    BY <2>2, <2>5
<1>10. blocks \in [1..count -> S]
  <2>1. blocks = [n \in 1..count |-> blocks[n]]
    BY <1>2, <1>7
  <2> QED
    BY <1>8, <2>1
<1>11. blocks \in Bijection(1..count, S)
  BY <1>4, <1>7, <1>9, <1>10 DEF Bijection, Injection, Surjection, IsInjective
<1>12. IsFiniteSet(1..count) /\ Cardinality(1..count) = count
  BY <1>6, FS_Interval
<1>13. IsFiniteSet(S) /\ Cardinality(S) = Cardinality(1..count)
  BY <1>11, <1>12, FS_Bijection DEF ExistsBijection
<1> QED
  BY <1>12, <1>13 DEF S, count, N, first, K, start

(* What a core counts.                                                     *)
CountOf(K, N, start, c) ==
    (N - (IF c < start THEN c + K - start ELSE c - start) + K - 1) \div K

(* An expert has so many blocks for a core: the blocks of the rounds that  *)
(* are full, one more if the last round gets as far, and one less if the   *)
(* first round begins behind it.                                           *)
LEMMA CountIs ==
    ASSUME NEW K \in Nat \ {0}, NEW N \in Nat, NEW start \in 0..(K - 1), NEW c \in 0..(K - 1)
    PROVE  /\ (start + N) \div K \in Nat
           /\ CountOf(K, N, start, c)
                = (start + N) \div K + (IF c < (start + N) % K THEN 1 ELSE 0)
                                     - (IF c < start THEN 1 ELSE 0)
<1> DEFINE Q == (start + N) \div K
           y == (start + N) % K
           a == N - (IF c < start THEN c + K - start ELSE c - start) + K - 1
<1>0. CountOf(K, N, start, c) = a \div K
  BY DEF CountOf
<1>1. start + N \in Nat
  OBVIOUS
<1>2. Q \in Nat /\ y \in 0..(K - 1) /\ start + N = Q * K + y
  BY <1>1, Division
<1> HIDE DEF Q, y
<1>3. Q * K \in Nat /\ (Q + 1) * K = Q * K + K /\ (Q - 1) * K = Q * K - K
  BY <1>2
<1>4. CASE c >= start /\ c < y
  <2>1. a = (Q + 1) * K + (y - c - 1)
    BY <1>2, <1>3, <1>4
  <2>2. y - c - 1 \in 0..(K - 1) /\ Q + 1 \in Nat
    BY <1>2, <1>4
  <2>3. a \div K = Q + 1
    <3> HIDE DEF a
    <3> QED
      BY <2>1, <2>2, Quotient
  <2> QED
    BY <1>0, <1>2, <1>4, <2>3 DEF Q, y
<1>5. CASE c >= start /\ ~(c < y)
  <2>1. a = Q * K + (y - c - 1 + K)
    BY <1>2, <1>3, <1>5
  <2>2. y - c - 1 + K \in 0..(K - 1)
    BY <1>2, <1>5
  <2>3. a \div K = Q
    <3> HIDE DEF a
    <3> QED
      BY <1>2, <2>1, <2>2, Quotient
  <2> QED
    BY <1>0, <1>2, <1>5, <2>3 DEF Q, y
<1>6. CASE c < start /\ c < y
  <2>1. a = Q * K + (y - c - 1)
    BY <1>2, <1>3, <1>6
  <2>2. y - c - 1 \in 0..(K - 1)
    BY <1>2, <1>6
  <2>3. a \div K = Q
    <3> HIDE DEF a
    <3> QED
      BY <1>2, <2>1, <2>2, Quotient
  <2> QED
    BY <1>0, <1>2, <1>6, <2>3 DEF Q, y
<1>7. CASE c < start /\ ~(c < y)
  <2>0. Q # 0
    <3> SUFFICES ASSUME Q = 0
                 PROVE  FALSE
      OBVIOUS
    <3>1. start + N = y
      BY <1>2
    <3> QED
      BY <1>2, <1>7, <3>1
  <2>1. a = (Q - 1) * K + (y - c - 1 + K)
    BY <1>2, <1>3, <1>7
  <2>2. y - c - 1 + K \in 0..(K - 1) /\ Q - 1 \in Nat
    BY <1>2, <1>7, <2>0
  <2>3. a \div K = Q - 1
    <3> HIDE DEF a
    <3> QED
      BY <2>1, <2>2, Quotient
  <2> QED
    BY <1>0, <1>2, <1>7, <2>3 DEF Q, y
<1> QED
  BY <1>0, <1>2, <1>4, <1>5, <1>6, <1>7

(* The blocks of a core in the first e experts, and where the next expert  *)
(* starts.  All cores have equally many, and those before that core one    *)
(* more.                                                                   *)
UpTo(r, c, e) == {b \in Owned(r, c) : b[1] <= e}

NextStart(r, e) == IF e = 0 THEN 0 ELSE (StartCoreIdx(r, e) + CoreLoops[r][e]) % Cores

EvenUpTo(r, e) ==
    \E q \in Nat : \A c \in Aics :
        /\ IsFiniteSet(UpTo(r, c, e))
        /\ Cardinality(UpTo(r, c, e)) = q + (IF c < NextStart(r, e) THEN 1 ELSE 0)

(* One more expert. *)
LEMMA OneMoreExpert ==
    ASSUME NEW r \in Ranks, NEW e \in Experts, EvenUpTo(r, e - 1)
    PROVE  EvenUpTo(r, e)
<1> DEFINE K == Cores
           N == CoreLoops[r][e]
           start == StartCoreIdx(r, e)
           Q == (start + N) \div K
           y == (start + N) % K
<1>1. K \in Nat \ {0} /\ start \in 0..(K - 1) /\ N \in Nat /\ Aics = 0..(K - 1) /\ e \in Nat \ {0}
  BY StartType, ExpertNumbers DEF Aics
<1>2. NextStart(r, e - 1) = start /\ NextStart(r, e) = y
  <2>1. NextStart(r, e - 1) = start
    BY <1>1, StartsFollow DEF NextStart
  <2> QED
    BY <1>1, <2>1 DEF NextStart
<1>3. PICK q \in Nat : \A c \in Aics :
         /\ IsFiniteSet(UpTo(r, c, e - 1))
         /\ Cardinality(UpTo(r, c, e - 1)) = q + (IF c < start THEN 1 ELSE 0)
  BY <1>2 DEF EvenUpTo
<1>4. Q \in Nat
  <2>1. start + N \in Nat
    BY <1>1
  <2> HIDE DEF start, N, K
  <2> QED
    BY <1>1, <2>1, Division
<1> HIDE DEF K, N, start, Q, y
<1>5. ASSUME NEW c \in Aics
      PROVE  /\ IsFiniteSet(UpTo(r, c, e))
             /\ Cardinality(UpTo(r, c, e)) = (q + Q) + (IF c < y THEN 1 ELSE 0)
  <2> DEFINE A == UpTo(r, c, e - 1)
             B == OfExpert(r, e, c)
  <2>1. UpTo(r, c, e) = A \cup B /\ A \cap B = {}
    <3>1. ASSUME NEW b \in Owned(r, c)
          PROVE  /\ b[1] <= e <=> b[1] <= e - 1 \/ b[1] = e
                 /\ b[1] <= e - 1 => b[1] # e
      <4>1. PICK f \in Experts : \E i \in 0..(CoreLoops[r][f] - 1) : b = <<f, i>>
        BY DEF Owned, BlocksOf
      <4>2. b[1] = f /\ f \in Nat
        BY <4>1, ExpertNumbers
      <4> QED
        BY <1>1, <4>2
    <3> QED
      BY <3>1 DEF UpTo, OfExpert
  <2>2. IsFiniteSet(A) /\ Cardinality(A) = q + (IF c < start THEN 1 ELSE 0)
    BY <1>3
  <2>3. IsFiniteSet(B) /\ Cardinality(B) = CountOf(K, N, start, c)
    BY ExpertCount DEF N, start, K, CountOf, StartLoopIdx
  <2>5. CountOf(K, N, start, c) = Q + (IF c < y THEN 1 ELSE 0) - (IF c < start THEN 1 ELSE 0)
    <3>1. c \in 0..(K - 1)
      BY <1>1
    <3> QED
      BY <1>1, <3>1, CountIs DEF Q, y
  <2> HIDE DEF A, B
  <2>6. IsFiniteSet(A \cup B) /\ Cardinality(A \cup B) = Cardinality(A) + Cardinality(B) - 0
    BY <2>1, <2>2, <2>3, FS_Union, FS_EmptySet
  <2>7. Cardinality(A \cup B) = (q + Q) + (IF c < y THEN 1 ELSE 0)
    BY <1>1, <1>4, <2>2, <2>3, <2>5, <2>6
  <2> QED
    BY <2>1, <2>6, <2>7
<1>6. q + Q \in Nat
  BY <1>4
<1> QED
  BY <1>2, <1>5, <1>6 DEF EvenUpTo

(* All cores of a rank have equally many blocks, give or take one. *)
LEMMA OwnedEvenly ==
    ASSUME NEW r \in Ranks
    PROVE  /\ \A c \in Aics : Cardinality(Owned(r, c)) \in Nat
           /\ \A c, d \in Aics : Cardinality(Owned(r, c)) <= Cardinality(Owned(r, d)) + 1
<1> DEFINE n == Len(CoreLoops[0])
           T == {e \in 0..n : ~EvenUpTo(r, e)}
<1>1. n \in Nat /\ Experts = 1..n /\ Aics \subseteq Nat
  BY ExpertNumbers DEF Aics
<1> HIDE DEF n
<1>2. T = {}
  <2> SUFFICES ASSUME T # {}
               PROVE  FALSE
    OBVIOUS
  <2>1. PICK e \in T : \A f \in T : e <= f
    <3>1. T \subseteq Nat
      BY <1>1
    <3> QED
      BY <3>1, Least
  <2>2. e \in 0..n /\ ~EvenUpTo(r, e)
    BY <2>1
  <2>3. e # 0
    <3>1. \A c \in Aics : UpTo(r, c, 0) = {}
      <4>1. ASSUME NEW c \in Aics, NEW b \in Owned(r, c)
            PROVE  ~(b[1] <= 0)
        <5>1. PICK f \in Experts : \E i \in 0..(CoreLoops[r][f] - 1) : b = <<f, i>>
          BY DEF Owned, BlocksOf
        <5> QED
          BY <1>1, <5>1
      <4> QED
        BY <4>1 DEF UpTo
    <3>2. NextStart(r, 0) = 0
      BY DEF NextStart
    <3>3. \A c \in Aics : ~(c < 0)
      BY <1>1
    <3>4. \A c \in Aics :
             /\ IsFiniteSet(UpTo(r, c, 0))
             /\ Cardinality(UpTo(r, c, 0)) = 0 + (IF c < NextStart(r, 0) THEN 1 ELSE 0)
      BY <3>1, <3>2, <3>3, FS_EmptySet
    <3>5. EvenUpTo(r, 0)
      BY <3>4 DEF EvenUpTo
    <3> QED
      BY <2>2, <3>5
  <2>4. e \in Experts /\ e - 1 \in 0..n /\ ~(e <= e - 1)
    BY <1>1, <2>2, <2>3
  <2>5. EvenUpTo(r, e - 1)
    BY <2>1, <2>4
  <2> QED
    BY <2>2, <2>4, <2>5, OneMoreExpert
<1>3. EvenUpTo(r, n)
  BY <1>1, <1>2
<1>4. \A c \in Aics : UpTo(r, c, n) = Owned(r, c)
  <2>1. ASSUME NEW c \in Aics, NEW b \in Owned(r, c)
        PROVE  b[1] <= n
    <3>1. PICK f \in Experts : \E i \in 0..(CoreLoops[r][f] - 1) : b = <<f, i>>
      BY DEF Owned, BlocksOf
    <3> QED
      BY <1>1, <3>1
  <2> QED
    BY <2>1 DEF UpTo
<1>5. PICK q \in Nat : \A c \in Aics :
         Cardinality(Owned(r, c)) = q + (IF c < NextStart(r, n) THEN 1 ELSE 0)
  BY <1>3, <1>4 DEF EvenUpTo
<1> QED
  BY <1>5

-----------------------------------------------------------------------------
(* What is said of a cube core depends only on where that core is, and     *)
(* holds of any more that is multiplied.                                   *)
LEMMA AicStays ==
    ASSUME NEW r \in Ranks, NEW c \in Aics, AicAt(r, c), MultipliedBy(r, c),
           aic'[r][c] = aic[r][c], aicTurn'[r][c] = aicTurn[r][c],
           setCount'[r][c] = setCount[r][c], multiplied[r] \subseteq multiplied'[r]
    PROVE  AicAt(r, c)' /\ MultipliedBy(r, c)'
BY DEF AicAt, MultipliedBy, AicHas

(* What is said of a vector core depends only on where that core is.       *)
LEMMA AivStays ==
    ASSUME NEW r \in Ranks, NEW v \in Aivs, AivAt(r, v),
           aiv'[r][v] = aiv[r][v], aivTurn'[r][v] = aivTurn[r][v], sent'[r][v] = sent[r][v]
    PROVE  AivAt(r, v)'
BY DEF AivAt

(* What is said of a flag depends only on the flag, its two counts and the *)
(* two cores.                                                              *)
LEMMA FlagStays ==
    ASSUME NEW r \in Ranks, NEW v \in Aivs, FlagOf(r, v),
           aicTurn'[r][AicOf(v)] = aicTurn[r][AicOf(v)],
           setCount'[r][AicOf(v)] = setCount[r][AicOf(v)],
           mmad'[r][v] = mmad[r][v], waitCount'[r][v] = waitCount[r][v],
           reverse'[r][v] = reverse[r][v], Taken(r, v)' = Taken(r, v)
    PROVE  FlagOf(r, v)'
BY DEF FlagOf

(* What a vector core has taken depends only on where it is.               *)
LEMMA TakenStays ==
    ASSUME NEW r \in Ranks, NEW v \in Aivs,
           aiv'[r][v] = aiv[r][v], aivTurn'[r][v] = aivTurn[r][v]
    PROVE  Taken(r, v)' = Taken(r, v)
BY DEF Taken

(* One more of the blocks of a core. *)
LEMMA FirstGrows ==
    ASSUME NEW blocks, NEW n \in Nat
    PROVE  FirstOf(blocks, n + 1) = FirstOf(blocks, n) \cup {blocks[n + 1]}
<1>1. 1..(n + 1) = 1..n \cup {n + 1}
  OBVIOUS
<1> QED
  BY <1>1 DEF FirstOf

(* None of the blocks of a core: where every core begins.                  *)
LEMMA NoneOf ==
    ASSUME NEW blocks
    PROVE  FirstOf(blocks, 0) = {}
BY DEF FirstOf

(* At the beginning no core has been through a block and no flag is set.   *)
THEOREM InitIInv == Init => IInv
<1> SUFFICES ASSUME Init
             PROVE  IInv
  OBVIOUS
<1>1. ReverseDepth \in Nat \ {0}
  BY ExpertNumbers
<1>2. ShapesOK
  <2>1. aic \in [Ranks -> [Aics -> AicPcs]] /\ aiv \in [Ranks -> [Aivs -> AivPcs]]
    BY DEF Init, Onward, AicPcs, AivPcs
  <2> QED
    BY <1>1, <2>1 DEF Init, Everywhere, ShapesOK
<1>3. CoresAt
  <2>1. ASSUME NEW r \in Ranks, NEW c \in Aics
        PROVE  AicAt(r, c) /\ MultipliedBy(r, c) /\ multiplied[r] \subseteq BlocksOf(r)
    <3>1. /\ aicTurn[r][c] = 0 /\ setCount[r][c] = 0 /\ multiplied[r] = {}
          /\ aic[r][c] = IF 0 < Len(AicBlocks(r, c)) THEN "multiply" ELSE "done"
      BY DEF Init, Everywhere, Onward
    <3>2. Len(AicBlocks(r, c)) \in Nat
      BY BlocksType
    <3>3. AicAt(r, c)
      BY <1>1, <3>1, <3>2 DEF AicAt
    <3>4. AicHas(r, c) = 0
      BY <3>1 DEF AicHas
    <3> QED
      BY <3>1, <3>3, <3>4, NoneOf DEF MultipliedBy
  <2>2. ASSUME NEW r \in Ranks, NEW v \in Aivs
        PROVE  AivAt(r, v)
    <3>1. /\ aivTurn[r][v] = 0 /\ sent[r][v] = {}
          /\ aiv[r][v] = IF 0 < Len(AivBlocks(r, v)) THEN "wait" ELSE "barrierAll"
      BY DEF Init, Everywhere, Onward
    <3>2. Len(AivBlocks(r, v)) \in Nat
      BY BlocksType, SameBlocks
    <3> QED
      BY <3>1, <3>2, NoneOf DEF AivAt
  <2> QED
    BY <2>1, <2>2 DEF CoresAt
<1>4. FlagsFollow
  <2>1. ASSUME NEW r \in Ranks, NEW v \in Aivs
        PROVE  FlagOf(r, v)
    <3>1. AicOf(v) \in Aics
      BY SameBlocks
    <3>2. /\ aicTurn[r][AicOf(v)] = 0 /\ setCount[r][AicOf(v)] = 0 /\ mmad[r][v] = 0
          /\ waitCount[r][v] = 0 /\ reverse[r][v] = 0 /\ Taken(r, v) = 0
      BY <3>1 DEF Init, Everywhere, Onward, Taken
    <3> QED
      BY <3>2 DEF FlagOf
  <2> QED
    BY <2>1 DEF FlagsFollow
<1>5. BarrierMet
  BY DEF Init, Onward, BarrierMet, PastBarrier
<1> QED
  BY <1>2, <1>3, <1>4, <1>5 DEF IInv

(* What is known of a cube core and of its vector cores. *)
LEMMA AicFacts ==
    ASSUME IInv, NEW r \in Ranks, NEW c \in Aics
    PROVE  /\ aicTurn[r][c] \in Nat /\ setCount[r][c] \in 0..ReverseDepth
           /\ ReverseDepth \in Nat \ {0} /\ Len(AicBlocks(r, c)) \in Nat
           /\ AicAt(r, c) /\ MultipliedBy(r, c) /\ multiplied[r] \subseteq BlocksOf(r)
BY ExpertNumbers, BlocksType DEF IInv, ShapesOK, CoresAt

(* What is known of a vector core and of its flag.                         *)
LEMMA AivFacts ==
    ASSUME IInv, NEW r \in Ranks, NEW v \in Aivs
    PROVE  /\ aivTurn[r][v] \in Nat /\ waitCount[r][v] \in 0..(ReverseDepth - 1)
           /\ mmad[r][v] \in 0..ReverseDepth /\ reverse[r][v] \in 0..1
           /\ ReverseDepth \in Nat \ {0} /\ Len(AivBlocks(r, v)) \in Nat
           /\ Taken(r, v) \in Nat
           /\ AivAt(r, v) /\ FlagOf(r, v)
<1>1. aivTurn[r][v] \in Nat
  BY DEF IInv, ShapesOK
<1>2. Taken(r, v) \in Nat
  BY <1>1 DEF Taken
<1> QED
  BY <1>1, <1>2, ExpertNumbers, BlocksType, SameBlocks DEF IInv, ShapesOK, CoresAt, FlagsFollow

(* A multiplied block is one more of the blocks of its cube core.          *)
LEMMA MultiplyKeeps ==
    ASSUME IInv, NEW r \in Ranks, NEW c \in Aics, Multiply(r, c)
    PROVE  IInv'
<1> USE DEF Multiply
<1>1. /\ aicTurn[r][c] \in Nat /\ aicTurn[r][c] < Len(AicBlocks(r, c))
      /\ AicBlock(r, c) \in BlocksOf(r) /\ AicBlock(r, c) \in AllBlocks
  <2>1. aicTurn[r][c] \in Nat /\ aicTurn[r][c] < Len(AicBlocks(r, c))
    BY AicFacts DEF AicAt
  <2>2. aicTurn[r][c] + 1 \in 1..Len(AicBlocks(r, c))
    BY <2>1, BlocksType
  <2> QED
    BY <2>1, <2>2, BlocksType DEF AicBlock
<1>2. /\ \A s \in Ranks, d \in Aics :
           aic'[s][d] = IF s = r /\ d = c THEN "set" ELSE aic[s][d]
      /\ \A s \in Ranks :
           multiplied'[s] = IF s = r THEN multiplied[r] \cup {AicBlock(r, c)} ELSE multiplied[s]
      /\ aicTurn' = aicTurn /\ setCount' = setCount
  BY DEF IInv, ShapesOK, flags
<1>3. ShapesOK'
  BY <1>1 DEF IInv, ShapesOK, AicPcs, flags
<1>4. CoresAt'
  <2>1. ASSUME NEW s \in Ranks, NEW d \in Aics
        PROVE  AicAt(s, d)' /\ MultipliedBy(s, d)' /\ multiplied'[s] \subseteq BlocksOf(s)
    <3>1. AicAt(s, d) /\ MultipliedBy(s, d) /\ multiplied[s] \subseteq BlocksOf(s)
      BY AicFacts
    <3>2. multiplied'[s] \subseteq BlocksOf(s) /\ multiplied[s] \subseteq multiplied'[s]
      BY <1>1, <1>2, <3>1
    <3>3. CASE s = r /\ d = c
      <4>1. AicAt(s, d)'
        BY <1>1, <1>2, <3>1, <3>3 DEF AicAt
      <4>2. AicHas(r, c) = aicTurn[r][c] /\ AicHas(r, c)' = aicTurn[r][c] + 1
        BY <1>1, <1>2 DEF AicHas
      <4>3. FirstOf(AicBlocks(r, c), aicTurn[r][c] + 1)
              = FirstOf(AicBlocks(r, c), aicTurn[r][c]) \cup {AicBlock(r, c)}
        BY <1>1, FirstGrows DEF AicBlock
      <4>4. MultipliedBy(s, d)'
        BY <1>2, <3>1, <3>3, <4>2, <4>3 DEF MultipliedBy
      <4> QED
        BY <3>2, <4>1, <4>4
    <3>4. CASE ~(s = r /\ d = c)
      BY <1>2, <3>1, <3>2, <3>4, AicStays
    <3> QED
      BY <3>3, <3>4
  <2>2. ASSUME NEW s \in Ranks, NEW v \in Aivs
        PROVE  AivAt(s, v)'
    BY AivFacts, AivStays
  <2> QED
    BY <2>1, <2>2 DEF CoresAt
<1>5. FlagsFollow'
  <2>1. ASSUME NEW s \in Ranks, NEW v \in Aivs
        PROVE  FlagOf(s, v)'
    BY AivFacts, FlagStays, TakenStays DEF flags
  <2> QED
    BY <2>1 DEF FlagsFollow
<1>6. BarrierMet'
  BY DEF IInv, BarrierMet
<1> QED
  BY <1>3, <1>4, <1>5, <1>6 DEF IInv

(* A set counts in the cube core and in the flags of both its vector       *)
(* cores.                                                                  *)
LEMMA SetMmadKeeps ==
    ASSUME IInv, NEW r \in Ranks, NEW c \in Aics, SetMmad(r, c)
    PROVE  IInv'
<1> USE DEF SetMmad
<1> DEFINE n == aicTurn[r][c]
           L == Len(AicBlocks(r, c))
           pcNext == IF setCount[r][c] + 1 >= ReverseDepth THEN "awaitAnswer"
                     ELSE IF n + 1 < L THEN "multiply" ELSE "done"
<1> HIDE DEF n, L
<1>1. /\ aic[r][c] = "set" /\ n \in Nat /\ L \in Nat /\ n < L
      /\ setCount[r][c] \in 0..ReverseDepth /\ setCount[r][c] # ReverseDepth
      /\ ReverseDepth \in Nat \ {0}
  BY AicFacts DEF AicAt, n, L
<1>2. /\ \A s \in Ranks, d \in Aics :
           aic'[s][d] = IF s = r /\ d = c THEN pcNext ELSE aic[s][d]
      /\ \A s \in Ranks, d \in Aics :
           aicTurn'[s][d] = IF s = r /\ d = c THEN n + 1 ELSE aicTurn[s][d]
      /\ \A s \in Ranks, d \in Aics :
           setCount'[s][d] = IF s = r /\ d = c THEN setCount[r][c] + 1 ELSE setCount[s][d]
      /\ \A s \in Ranks, v \in Aivs :
           mmad'[s][v] = IF s = r /\ AicOf(v) = c THEN mmad[s][v] + 1 ELSE mmad[s][v]
  <2>1. aic' = [aic EXCEPT ![r][c] = pcNext]
    BY DEF AicGoesOn, Onward, n, L
  <2>2. \A v \in Aivs : v \in AivsOf(c) <=> AicOf(v) = c
    BY SameBlocks
  <2>3. \A s \in Ranks, d \in Aics :
           aic'[s][d] = IF s = r /\ d = c THEN pcNext ELSE aic[s][d]
    BY <2>1 DEF IInv, ShapesOK
  <2> HIDE DEF pcNext
  <2> QED
    BY <2>2, <2>3 DEF IInv, ShapesOK, n
<1>3. \A v \in Aivs : AicOf(v) = c => mmad[r][v] + 1 \in 0..ReverseDepth
  <2>1. ASSUME NEW v \in Aivs, AicOf(v) = c
        PROVE  mmad[r][v] + 1 \in 0..ReverseDepth
    <3>1. /\ setCount[r][c] = mmad[r][v] + waitCount[r][v]
                              + (IF reverse[r][v] = 1 THEN ReverseDepth ELSE 0)
          /\ mmad[r][v] \in Nat /\ waitCount[r][v] \in Nat
      BY <2>1, AivFacts DEF FlagOf
    <3> QED
      BY <1>1, <3>1
  <2> QED
    BY <2>1
<1>4. ShapesOK'
  <2>1. aic' \in [Ranks -> [Aics -> AicPcs]]
    <3>1. aic' = [aic EXCEPT ![r][c] = pcNext] /\ pcNext \in AicPcs
      BY DEF AicGoesOn, Onward, n, L, AicPcs
    <3> HIDE DEF pcNext
    <3> QED
      BY <3>1 DEF IInv, ShapesOK
  <2>2. aicTurn' \in [Ranks -> [Aics -> Nat]]
    BY DEF IInv, ShapesOK
  <2>3. setCount' \in [Ranks -> [Aics -> 0..ReverseDepth]]
    <3>1. setCount[r][c] + 1 \in 0..ReverseDepth
      BY <1>1
    <3> QED
      BY <3>1 DEF IInv, ShapesOK
  <2>4. mmad' \in [Ranks -> [Aivs -> 0..ReverseDepth]]
    <3> DEFINE row == [v \in Aivs |-> IF v \in AivsOf(c) THEN mmad[r][v] + 1 ELSE mmad[r][v]]
    <3>1. row \in [Aivs -> 0..ReverseDepth]
      BY <1>3, SameBlocks DEF IInv, ShapesOK
    <3>2. mmad' = [mmad EXCEPT ![r] = row]
      OBVIOUS
    <3> HIDE DEF row
    <3> QED
      BY <3>1, <3>2 DEF IInv, ShapesOK
  <2> QED
    BY <2>1, <2>2, <2>3, <2>4 DEF IInv, ShapesOK
<1>5. CoresAt'
  <2>1. ASSUME NEW s \in Ranks, NEW d \in Aics
        PROVE  AicAt(s, d)' /\ MultipliedBy(s, d)' /\ multiplied'[s] \subseteq BlocksOf(s)
    <3>1. AicAt(s, d) /\ MultipliedBy(s, d) /\ multiplied[s] \subseteq BlocksOf(s)
      BY AicFacts
    <3>2. CASE s = r /\ d = c
      <4>1. aic'[r][c] = pcNext /\ aicTurn'[r][c] = n + 1 /\ setCount'[r][c] = setCount[r][c] + 1
        BY <1>2
      <4>2. AicAt(r, c)'
        BY <1>1, <4>1 DEF AicAt, L
      <4>3. AicHas(r, c) = n + 1 /\ AicHas(r, c)' = n + 1
        BY <1>1, <4>1 DEF AicHas, n
      <4> QED
        BY <3>1, <3>2, <4>2, <4>3 DEF MultipliedBy
    <3>3. CASE ~(s = r /\ d = c)
      <4>1. /\ aic'[s][d] = aic[s][d] /\ aicTurn'[s][d] = aicTurn[s][d]
            /\ setCount'[s][d] = setCount[s][d]
        BY <1>2, <3>3
      <4> QED
        BY <3>1, <4>1, AicStays
    <3> QED
      BY <3>2, <3>3
  <2>2. ASSUME NEW s \in Ranks, NEW v \in Aivs
        PROVE  AivAt(s, v)'
    BY AivFacts, AivStays
  <2> QED
    BY <2>1, <2>2 DEF CoresAt
<1>6. FlagsFollow'
  <2>1. ASSUME NEW s \in Ranks, NEW v \in Aivs
        PROVE  FlagOf(s, v)'
    <3>1. FlagOf(s, v) /\ Taken(s, v)' = Taken(s, v) /\ AicOf(v) \in Aics /\ Taken(s, v) \in Nat
      BY AivFacts, TakenStays, SameBlocks
    <3>2. CASE s = r /\ AicOf(v) = c
      <4>1. /\ mmad'[s][v] = mmad[s][v] + 1 /\ aicTurn'[s][AicOf(v)] = aicTurn[s][AicOf(v)] + 1
            /\ setCount'[s][AicOf(v)] = setCount[s][AicOf(v)] + 1
            /\ waitCount'[s][v] = waitCount[s][v] /\ reverse'[s][v] = reverse[s][v]
        BY <1>2, <3>1, <3>2 DEF n
      <4>2. /\ mmad[s][v] = aicTurn[s][AicOf(v)] - Taken(s, v)
            /\ setCount[s][AicOf(v)]
                 = mmad[s][v] + waitCount[s][v] + (IF reverse[s][v] = 1 THEN ReverseDepth ELSE 0)
        BY <3>1 DEF FlagOf
      <4>3. mmad[s][v] \in Nat /\ waitCount[s][v] \in Nat /\ aicTurn[s][AicOf(v)] \in Nat
        BY <3>1, AivFacts, AicFacts
      <4>4. mmad'[s][v] = aicTurn'[s][AicOf(v)] - Taken(s, v)'
        BY <3>1, <4>1, <4>2, <4>3
      <4>5. setCount'[s][AicOf(v)]
              = mmad'[s][v] + waitCount'[s][v] + (IF reverse'[s][v] = 1 THEN ReverseDepth ELSE 0)
        BY <1>1, <4>1, <4>2, <4>3
      <4> QED
        BY <4>4, <4>5 DEF FlagOf
    <3>3. CASE ~(s = r /\ AicOf(v) = c)
      <4>1. /\ mmad'[s][v] = mmad[s][v] /\ aicTurn'[s][AicOf(v)] = aicTurn[s][AicOf(v)]
            /\ setCount'[s][AicOf(v)] = setCount[s][AicOf(v)]
            /\ waitCount'[s][v] = waitCount[s][v] /\ reverse'[s][v] = reverse[s][v]
        BY <1>2, <3>1, <3>3
      <4> QED
        BY <3>1, <4>1, FlagStays
    <3> QED
      BY <3>2, <3>3
  <2> QED
    BY <2>1 DEF FlagsFollow
<1>7. BarrierMet'
  BY DEF IInv, BarrierMet
<1> QED
  BY <1>4, <1>5, <1>6, <1>7 DEF IInv

(* When both vector cores have answered, all sets have been taken, and the *)
(* counting begins anew on both sides.                                     *)
LEMMA AwaitAnswerKeeps ==
    ASSUME IInv, NEW r \in Ranks, NEW c \in Aics, AwaitAnswer(r, c)
    PROVE  IInv'
<1> USE DEF AwaitAnswer
<1> DEFINE n == aicTurn[r][c]
           L == Len(AicBlocks(r, c))
           pcNext == IF n < L THEN "multiply" ELSE "done"
<1> HIDE DEF n, L
<1>1. /\ aic[r][c] = "awaitAnswer" /\ n \in Nat /\ L \in Nat /\ n <= L
      /\ setCount[r][c] = ReverseDepth
      /\ ReverseDepth \in Nat \ {0}
  BY AicFacts DEF AicAt, n, L
<1>2. /\ \A s \in Ranks, d \in Aics :
           aic'[s][d] = IF s = r /\ d = c THEN pcNext ELSE aic[s][d]
      /\ \A s \in Ranks, d \in Aics :
           setCount'[s][d] = IF s = r /\ d = c THEN 0 ELSE setCount[s][d]
      /\ \A s \in Ranks, v \in Aivs :
           reverse'[s][v] = IF s = r /\ AicOf(v) = c THEN reverse[s][v] - 1 ELSE reverse[s][v]
  <2>1. aic' = [aic EXCEPT ![r][c] = pcNext]
    BY DEF AicGoesOn, Onward, n, L
  <2>2. \A v \in Aivs : v \in AivsOf(c) <=> AicOf(v) = c
    BY SameBlocks
  <2>3. \A s \in Ranks, d \in Aics :
           aic'[s][d] = IF s = r /\ d = c THEN pcNext ELSE aic[s][d]
    BY <2>1 DEF IInv, ShapesOK
  <2> HIDE DEF pcNext
  <2> QED
    BY <2>2, <2>3 DEF IInv, ShapesOK
<1>3. \A v \in Aivs : AicOf(v) = c => reverse[r][v] = 1
  BY SameBlocks, AivFacts
<1>4. ShapesOK'
  <2>1. aic' \in [Ranks -> [Aics -> AicPcs]]
    <3>1. aic' = [aic EXCEPT ![r][c] = pcNext] /\ pcNext \in AicPcs
      BY DEF AicGoesOn, Onward, n, L, AicPcs
    <3> HIDE DEF pcNext
    <3> QED
      BY <3>1 DEF IInv, ShapesOK
  <2>2. setCount' \in [Ranks -> [Aics -> 0..ReverseDepth]]
    BY <1>1 DEF IInv, ShapesOK
  <2>3. reverse' \in [Ranks -> [Aivs -> 0..1]]
    <3> DEFINE row == [v \in Aivs |-> IF v \in AivsOf(c) THEN reverse[r][v] - 1 ELSE reverse[r][v]]
    <3>1. row \in [Aivs -> 0..1]
      BY <1>3, SameBlocks DEF IInv, ShapesOK
    <3>2. reverse' = [reverse EXCEPT ![r] = row]
      OBVIOUS
    <3> HIDE DEF row
    <3> QED
      BY <3>1, <3>2 DEF IInv, ShapesOK
  <2> QED
    BY <2>1, <2>2, <2>3 DEF IInv, ShapesOK
<1>5. CoresAt'
  <2>1. ASSUME NEW s \in Ranks, NEW d \in Aics
        PROVE  AicAt(s, d)' /\ MultipliedBy(s, d)' /\ multiplied'[s] \subseteq BlocksOf(s)
    <3>1. AicAt(s, d) /\ MultipliedBy(s, d) /\ multiplied[s] \subseteq BlocksOf(s)
      BY AicFacts
    <3>2. CASE s = r /\ d = c
      <4>1. aic'[r][c] = pcNext /\ aicTurn'[r][c] = n /\ setCount'[r][c] = 0
        BY <1>2 DEF n
      <4>2. AicAt(r, c)'
        BY <1>1, <4>1 DEF AicAt, L
      <4>3. AicHas(r, c) = n /\ AicHas(r, c)' = n
        BY <1>1, <4>1 DEF AicHas, n
      <4> QED
        BY <3>1, <3>2, <4>2, <4>3 DEF MultipliedBy
    <3>3. CASE ~(s = r /\ d = c)
      <4>1. aic'[s][d] = aic[s][d] /\ setCount'[s][d] = setCount[s][d]
        BY <1>2, <3>3
      <4> QED
        BY <3>1, <4>1, AicStays
    <3> QED
      BY <3>2, <3>3
  <2>2. ASSUME NEW s \in Ranks, NEW v \in Aivs
        PROVE  AivAt(s, v)'
    BY AivFacts, AivStays
  <2> QED
    BY <2>1, <2>2 DEF CoresAt
<1>6. FlagsFollow'
  <2>1. ASSUME NEW s \in Ranks, NEW v \in Aivs
        PROVE  FlagOf(s, v)'
    <3>1. FlagOf(s, v) /\ Taken(s, v)' = Taken(s, v) /\ AicOf(v) \in Aics
      BY AivFacts, TakenStays, SameBlocks
    <3>2. CASE s = r /\ AicOf(v) = c
      <4>1. /\ setCount'[s][AicOf(v)] = 0 /\ reverse'[s][v] = 0 /\ reverse[s][v] = 1
            /\ setCount[s][AicOf(v)] = ReverseDepth
        BY <1>1, <1>2, <1>3, <3>1, <3>2
      <4>2. setCount[s][AicOf(v)] = mmad[s][v] + waitCount[s][v] + ReverseDepth
        BY <3>1, <4>1 DEF FlagOf
      <4>3. mmad[s][v] \in Nat /\ waitCount[s][v] \in Nat
        BY AivFacts
      <4>4. ReverseDepth = mmad[s][v] + waitCount[s][v] + ReverseDepth
        BY <4>1, <4>2
      <4>5. mmad[s][v] = 0 /\ waitCount[s][v] = 0
        <5>1. ReverseDepth \in Nat
          BY <1>1
        <5> QED
          BY <4>3, <4>4, <5>1
      <4>6. mmad'[s][v] = mmad[s][v] /\ waitCount'[s][v] = waitCount[s][v]
              /\ aicTurn' = aicTurn
        OBVIOUS
      <4> QED
        BY <3>1, <4>1, <4>5, <4>6 DEF FlagOf
    <3>3. CASE ~(s = r /\ AicOf(v) = c)
      <4>1. setCount'[s][AicOf(v)] = setCount[s][AicOf(v)] /\ reverse'[s][v] = reverse[s][v]
        BY <1>2, <3>1, <3>3
      <4> QED
        BY <3>1, <4>1, FlagStays
    <3> QED
      BY <3>2, <3>3
  <2> QED
    BY <2>1 DEF FlagsFollow
<1>7. BarrierMet'
  BY DEF IInv, BarrierMet
<1> QED
  BY <1>4, <1>5, <1>6, <1>7 DEF IInv

(* A taken set moves from the flag to the count of the vector core, and    *)
(* the last of a round from there to the answer.                           *)
LEMMA WaitMmadKeeps ==
    ASSUME IInv, NEW r \in Ranks, NEW v \in Aivs, WaitMmad(r, v)
    PROVE  IInv'
<1> USE DEF WaitMmad
<1> DEFINE full == waitCount[r][v] + 1 >= ReverseDepth
           waits == IF full THEN 0 ELSE waitCount[r][v] + 1
           answers == IF full THEN reverse[r][v] + 1 ELSE reverse[r][v]
<1>1. /\ aiv[r][v] = "wait" /\ mmad[r][v] \in 1..ReverseDepth
      /\ waitCount[r][v] \in 0..(ReverseDepth - 1) /\ reverse[r][v] \in 0..1
      /\ ReverseDepth \in Nat \ {0} /\ aivTurn[r][v] \in Nat
      /\ AicOf(v) \in Aics /\ setCount[r][AicOf(v)] \in 0..ReverseDepth
  BY AivFacts, AicFacts, SameBlocks
<1>2. /\ mmad' = [mmad EXCEPT ![r][v] = mmad[r][v] - 1]
      /\ waitCount' = [waitCount EXCEPT ![r][v] = waits]
      /\ reverse' = [reverse EXCEPT ![r][v] = answers]
      /\ aiv' = [aiv EXCEPT ![r][v] = "send"]
  BY DEF Answer, IInv, ShapesOK
<1>3. setCount[r][AicOf(v)]
        = mmad[r][v] + waitCount[r][v] + (IF reverse[r][v] = 1 THEN ReverseDepth ELSE 0)
  BY AivFacts DEF FlagOf
<1>4. reverse[r][v] = 0
  <2>1. SUFFICES ASSUME reverse[r][v] = 1
                 PROVE  FALSE
    BY <1>1
  <2>2. setCount[r][AicOf(v)] = mmad[r][v] + waitCount[r][v] + ReverseDepth
    BY <1>3, <2>1
  <2> QED
    BY <1>1, <2>2
<1>5. waits \in 0..(ReverseDepth - 1) /\ answers \in 0..1
  BY <1>1, <1>4
<1>6. mmad[r][v] + waitCount[r][v]
        = (mmad[r][v] - 1) + waits + (IF answers = 1 THEN ReverseDepth ELSE 0)
  <2>1. CASE full
    <3>1. waitCount[r][v] + 1 = ReverseDepth /\ waits = 0 /\ answers = 1
      BY <1>1, <1>4, <2>1
    <3> QED
      BY <1>1, <3>1
  <2>2. CASE ~full
    <3>1. waits = waitCount[r][v] + 1 /\ answers = 0
      BY <1>4, <2>2
    <3> QED
      BY <1>1, <3>1
  <2> QED
    BY <2>1, <2>2
<1> HIDE DEF full, waits, answers
<1>7. \A s \in Ranks, u \in Aivs :
        /\ aiv'[s][u] = IF s = r /\ u = v THEN "send" ELSE aiv[s][u]
        /\ mmad'[s][u] = IF s = r /\ u = v THEN mmad[r][v] - 1 ELSE mmad[s][u]
        /\ waitCount'[s][u] = IF s = r /\ u = v THEN waits ELSE waitCount[s][u]
        /\ reverse'[s][u] = IF s = r /\ u = v THEN answers ELSE reverse[s][u]
  BY <1>2 DEF IInv, ShapesOK
<1>8. ShapesOK'
  <2>1. mmad[r][v] - 1 \in 0..ReverseDepth
    BY <1>1
  <2> QED
    BY <1>2, <1>5, <2>1 DEF IInv, ShapesOK, AivPcs
<1>9. CoresAt'
  <2>1. ASSUME NEW s \in Ranks, NEW d \in Aics
        PROVE  AicAt(s, d)' /\ MultipliedBy(s, d)' /\ multiplied'[s] \subseteq BlocksOf(s)
    BY AicFacts, AicStays
  <2>2. ASSUME NEW s \in Ranks, NEW u \in Aivs
        PROVE  AivAt(s, u)'
    <3>1. AivAt(s, u)
      BY AivFacts
    <3>2. CASE s = r /\ u = v
      BY <1>1, <1>7, <3>1, <3>2 DEF AivAt
    <3>3. CASE ~(s = r /\ u = v)
      <4>1. aiv'[s][u] = aiv[s][u]
        BY <1>7, <3>3
      <4> QED
        BY <3>1, <4>1, AivStays
    <3> QED
      BY <3>2, <3>3
  <2> QED
    BY <2>1, <2>2 DEF CoresAt
<1>10. FlagsFollow'
  <2>1. ASSUME NEW s \in Ranks, NEW u \in Aivs
        PROVE  FlagOf(s, u)'
    <3>1. FlagOf(s, u) /\ AicOf(u) \in Aics
      BY AivFacts, SameBlocks
    <3>2. CASE s = r /\ u = v
      <4>1. Taken(r, v) = aivTurn[r][v] /\ Taken(r, v)' = aivTurn[r][v] + 1
        BY <1>1, <1>7 DEF Taken
      <4>2. mmad[r][v] = aicTurn[r][AicOf(v)] - aivTurn[r][v] /\ aicTurn[r][AicOf(v)] \in Nat
        BY <3>1, <3>2, <4>1, AicFacts DEF FlagOf
      <4>3. mmad[r][v] - 1 = aicTurn[r][AicOf(v)] - (aivTurn[r][v] + 1)
        BY <1>1, <4>2
      <4>4. /\ mmad'[r][v] = mmad[r][v] - 1 /\ waitCount'[r][v] = waits
            /\ reverse'[r][v] = answers
        BY <1>7
      <4>5. setCount[r][AicOf(v)] = mmad[r][v] + waitCount[r][v]
        <5>1. setCount[r][AicOf(v)] = mmad[r][v] + waitCount[r][v] + 0
          BY <1>3, <1>4
        <5> QED
          BY <1>1, <5>1
      <4>6. setCount[r][AicOf(v)]
              = (mmad[r][v] - 1) + waits + (IF answers = 1 THEN ReverseDepth ELSE 0)
        BY <1>6, <4>5
      <4>7. aicTurn' = aicTurn /\ setCount' = setCount
        OBVIOUS
      <4> QED
        BY <3>2, <4>1, <4>3, <4>4, <4>6, <4>7 DEF FlagOf
    <3>3. CASE ~(s = r /\ u = v)
      <4>1. /\ mmad'[s][u] = mmad[s][u] /\ waitCount'[s][u] = waitCount[s][u]
            /\ reverse'[s][u] = reverse[s][u] /\ aiv'[s][u] = aiv[s][u]
        BY <1>7, <3>3
      <4>2. Taken(s, u)' = Taken(s, u)
        BY <4>1, TakenStays
      <4> QED
        BY <3>1, <4>1, <4>2, FlagStays
    <3> QED
      BY <3>2, <3>3
  <2> QED
    BY <2>1 DEF FlagsFollow
<1>11. BarrierMet'
  <2>1. ~(\E s \in Ranks, u \in Aivs : aiv[s][u] \in PastBarrier)
    BY <1>1 DEF IInv, BarrierMet, PastBarrier
  <2> QED
    BY <1>7, <2>1 DEF BarrierMet, PastBarrier
<1> QED
  BY <1>8, <1>9, <1>10, <1>11 DEF IInv

(* A block that is sent is one more of the blocks of its vector core.      *)
LEMMA SendKeeps ==
    ASSUME IInv, NEW r \in Ranks, NEW v \in Aivs, Send(r, v)
    PROVE  IInv'
<1> USE DEF Send
<1> DEFINE n == aivTurn[r][v]
           L == Len(AivBlocks(r, v))
           pcNext == IF n + 1 < L THEN "wait" ELSE "barrierAll"
<1> HIDE DEF n, L
<1>1. /\ aiv[r][v] = "send" /\ n \in Nat /\ L \in Nat /\ n < L
      /\ sent[r][v] = FirstOf(AivBlocks(r, v), n)
  BY AivFacts DEF AivAt, n, L
<1>2. AivBlock(r, v) \in AllBlocks
  <2>1. n + 1 \in 1..L
    BY <1>1
  <2> QED
    BY <2>1, BlocksType, SameBlocks DEF AivBlock, n, L
<1>3. aiv' = [aiv EXCEPT ![r][v] = pcNext]
  BY DEF Onward, n, L
<1>4. \A s \in Ranks, u \in Aivs :
        /\ aiv'[s][u] = IF s = r /\ u = v THEN pcNext ELSE aiv[s][u]
        /\ aivTurn'[s][u] = IF s = r /\ u = v THEN n + 1 ELSE aivTurn[s][u]
        /\ sent'[s][u] = IF s = r /\ u = v THEN sent[r][v] \cup {AivBlock(r, v)} ELSE sent[s][u]
  <2> HIDE DEF pcNext
  <2> QED
    BY <1>3 DEF IInv, ShapesOK, n
<1>5. ShapesOK'
  <2>1. pcNext \in AivPcs
    BY DEF AivPcs
  <2> HIDE DEF pcNext
  <2> QED
    BY <1>1, <1>2, <1>3, <2>1 DEF IInv, ShapesOK, flags
<1>6. CoresAt'
  <2>1. ASSUME NEW s \in Ranks, NEW d \in Aics
        PROVE  AicAt(s, d)' /\ MultipliedBy(s, d)' /\ multiplied'[s] \subseteq BlocksOf(s)
    BY AicFacts, AicStays DEF flags
  <2>2. ASSUME NEW s \in Ranks, NEW u \in Aivs
        PROVE  AivAt(s, u)'
    <3>1. AivAt(s, u)
      BY AivFacts
    <3>2. CASE s = r /\ u = v
      <4>1. /\ aiv'[r][v] = pcNext /\ aivTurn'[r][v] = n + 1
            /\ sent'[r][v] = sent[r][v] \cup {AivBlock(r, v)}
        BY <1>4
      <4>2. FirstOf(AivBlocks(r, v), n + 1) = FirstOf(AivBlocks(r, v), n) \cup {AivBlock(r, v)}
        BY <1>1, FirstGrows DEF AivBlock, n
      <4>3. sent'[r][v] = FirstOf(AivBlocks(r, v), n + 1)
        BY <1>1, <4>1, <4>2
      <4>4. L = Len(AivBlocks(r, v))
        BY DEF L
      <4>5. CASE n + 1 < L
        <5>1. aiv'[r][v] = "wait" /\ n + 1 <= L
          BY <1>1, <4>1, <4>5
        <5> QED
          BY <3>2, <4>1, <4>3, <4>4, <4>5, <5>1 DEF AivAt
      <4>6. CASE ~(n + 1 < L)
        <5>1. aiv'[r][v] = "barrierAll" /\ n + 1 = L
          BY <1>1, <4>1, <4>6
        <5>2. n + 1 <= L
          BY <1>1, <5>1
        <5> QED
          BY <3>2, <4>1, <4>3, <4>4, <5>1, <5>2 DEF AivAt
      <4> QED
        BY <4>5, <4>6
    <3>3. CASE ~(s = r /\ u = v)
      <4>1. aiv'[s][u] = aiv[s][u] /\ aivTurn'[s][u] = aivTurn[s][u] /\ sent'[s][u] = sent[s][u]
        BY <1>4, <3>3
      <4> QED
        BY <3>1, <4>1, AivStays
    <3> QED
      BY <3>2, <3>3
  <2> QED
    BY <2>1, <2>2 DEF CoresAt
<1>7. FlagsFollow'
  <2>1. ASSUME NEW s \in Ranks, NEW u \in Aivs
        PROVE  FlagOf(s, u)'
    <3>1. Taken(s, u)' = Taken(s, u)
      <4>1. CASE s = r /\ u = v
        BY <1>1, <1>4, <4>1 DEF Taken, n
      <4>2. CASE ~(s = r /\ u = v)
        BY <1>4, <4>2, TakenStays
      <4> QED
        BY <4>1, <4>2
    <3> QED
      BY <3>1, AivFacts, FlagStays DEF flags
  <2> QED
    BY <2>1 DEF FlagsFollow
<1>8. BarrierMet'
  <2>1. ~(\E s \in Ranks, u \in Aivs : aiv[s][u] \in PastBarrier)
    BY <1>1 DEF IInv, BarrierMet, PastBarrier
  <2> QED
    BY <1>4, <2>1 DEF BarrierMet, PastBarrier
<1> QED
  BY <1>5, <1>6, <1>7, <1>8 DEF IInv

(* What the two instructions after the loop have in common. *)
LEMMA PastLoopKeeps ==
    ASSUME IInv, NEW r \in Ranks, NEW v \in Aivs,
           aiv[r][v] \notin {"wait", "send"}, aiv'[r][v] \notin {"wait", "send"},
           aivTurn' = aivTurn, aicTurn' = aicTurn, flags' = flags, sent' = sent
    PROVE  AivAt(r, v)' /\ FlagOf(r, v)'
<1>1. AivAt(r, v) /\ FlagOf(r, v)
  BY AivFacts
<1>2. Taken(r, v)' = Taken(r, v)
  BY DEF Taken
<1> QED
  BY <1>1, <1>2, FlagStays DEF AivAt, flags

(* All vector cores of all ranks leave the barrier together.               *)
LEMMA BarrierAllKeeps ==
    ASSUME IInv, BarrierAll
    PROVE  IInv'
<1> USE DEF BarrierAll
<1>1. \A s \in Ranks, u \in Aivs : aiv[s][u] = "barrierAll" /\ aiv'[s][u] = "copyOut"
  BY DEF Everywhere
<1>2. ShapesOK'
  BY DEF IInv, ShapesOK, flags, Everywhere, AivPcs
<1>3. CoresAt'
  <2>1. ASSUME NEW s \in Ranks, NEW d \in Aics
        PROVE  AicAt(s, d)' /\ MultipliedBy(s, d)' /\ multiplied'[s] \subseteq BlocksOf(s)
    BY AicFacts, AicStays DEF flags
  <2> QED
    BY <1>1, <2>1, PastLoopKeeps DEF CoresAt
<1>4. FlagsFollow'
  BY <1>1, PastLoopKeeps DEF FlagsFollow
<1>5. BarrierMet'
  BY <1>1 DEF BarrierMet, PastBarrier
<1> QED
  BY <1>2, <1>3, <1>4, <1>5 DEF IInv

(* A vector core that copies out is past the barrier, as all are.          *)
LEMMA CopyOutKeeps ==
    ASSUME IInv, NEW r \in Ranks, NEW v \in Aivs, CopyOut(r, v)
    PROVE  IInv'
<1> USE DEF CopyOut
<1>1. \A s \in Ranks, u \in Aivs : aiv'[s][u] = IF s = r /\ u = v THEN "done" ELSE aiv[s][u]
  BY DEF IInv, ShapesOK
<1>2. \A s \in Ranks, u \in Aivs : aiv[s][u] \in PastBarrier /\ aiv'[s][u] \in PastBarrier
  BY <1>1 DEF IInv, BarrierMet, PastBarrier
<1>3. ShapesOK'
  BY DEF IInv, ShapesOK, flags, AivPcs
<1>4. CoresAt'
  <2>1. ASSUME NEW s \in Ranks, NEW d \in Aics
        PROVE  AicAt(s, d)' /\ MultipliedBy(s, d)' /\ multiplied'[s] \subseteq BlocksOf(s)
    BY AicFacts, AicStays DEF flags
  <2> QED
    BY <1>2, <2>1, PastLoopKeeps DEF CoresAt, PastBarrier
<1>5. FlagsFollow'
  BY <1>2, PastLoopKeeps DEF FlagsFollow, PastBarrier
<1>6. BarrierMet'
  BY <1>2 DEF BarrierMet
<1> QED
  BY <1>3, <1>4, <1>5, <1>6 DEF IInv

(* Every step of a core keeps the flags to what the two sides have         *)
(* counted.                                                                *)
THEOREM NextIInv == IInv /\ [Next]_vars => IInv'
<1> SUFFICES ASSUME IInv, [Next]_vars
             PROVE  IInv'
  OBVIOUS
<1>1. CASE BarrierAll
  BY <1>1, BarrierAllKeeps
<1>2. ASSUME NEW r \in Ranks, NEW c \in Aics, Aic(r, c)
      PROVE  IInv'
  BY <1>2, MultiplyKeeps, SetMmadKeeps, AwaitAnswerKeeps DEF Aic
<1>3. ASSUME NEW r \in Ranks, NEW v \in Aivs, Aiv(r, v)
      PROVE  IInv'
  BY <1>3, WaitMmadKeeps, SendKeeps, CopyOutKeeps DEF Aiv
<1>4. CASE UNCHANGED vars
  <2>1. ShapesOK'
    BY <1>4 DEF IInv, ShapesOK, vars, flags
  <2>2. ASSUME NEW r \in Ranks, NEW c \in Aics
        PROVE  AicAt(r, c)' /\ MultipliedBy(r, c)' /\ multiplied'[r] \subseteq BlocksOf(r)
    BY <1>4, AicFacts, AicStays DEF vars, flags
  <2>3. ASSUME NEW r \in Ranks, NEW v \in Aivs
        PROVE  AivAt(r, v)' /\ FlagOf(r, v)'
    BY <1>4, AivFacts, AivStays, FlagStays, TakenStays DEF vars, flags
  <2>4. BarrierMet'
    BY <1>4 DEF IInv, BarrierMet, vars
  <2> QED
    BY <2>1, <2>2, <2>3, <2>4 DEF IInv, CoresAt, FlagsFollow
<1> QED
  BY <1>1, <1>2, <1>3, <1>4 DEF Next

(* So they are in every state of every behaviour.                          *)
THEOREM Invariance == Spec => []IInv
BY InitIInv, NextIInv, PTL DEF Spec

(* What a vector core has sent are blocks of its rank.                     *)
LEMMA FirstAreBlocks ==
    ASSUME IInv, NEW r \in Ranks, NEW v \in Aivs
    PROVE  sent[r][v] \subseteq BlocksOf(r)
<1>1. /\ sent[r][v] = FirstOf(AivBlocks(r, v), aivTurn[r][v])
      /\ aivTurn[r][v] <= Len(AivBlocks(r, v)) /\ aivTurn[r][v] \in Nat
  BY AivFacts DEF AivAt
<1>2. \A k \in 1..Len(AivBlocks(r, v)) : AivBlocks(r, v)[k] \in BlocksOf(r)
  BY BlocksType, SameBlocks
<1>3. 1..aivTurn[r][v] \subseteq 1..Len(AivBlocks(r, v))
  BY <1>1, AivFacts
<1> QED
  BY <1>1, <1>2, <1>3 DEF FirstOf

(* No core runs past its blocks, no flag is set more often than the flag's *)
(* depth, and no rank multiplies or sends a block it does not have.        *)
THEOREM TypeCorrect == Spec => []TypeOK
<1>1. IInv => TypeOK
  <2> SUFFICES ASSUME IInv
               PROVE  TypeOK
    OBVIOUS
  <2>1. ASSUME NEW r \in Ranks, NEW c \in Aics
        PROVE  /\ aic[r][c] \in {"multiply", "set", "awaitAnswer", "done"}
               /\ aicTurn[r][c] \in 0..Len(AicBlocks(r, c))
    BY AicFacts DEF IInv, ShapesOK, AicPcs, AicAt
  <2>2. ASSUME NEW r \in Ranks, NEW v \in Aivs
        PROVE  /\ aiv[r][v] \in {"wait", "send", "barrierAll", "copyOut", "done"}
               /\ aivTurn[r][v] \in 0..Len(AivBlocks(r, v))
               /\ sent[r][v] \subseteq BlocksOf(r)
    BY AivFacts, FirstAreBlocks DEF IInv, ShapesOK, AivPcs, AivAt
  <2>3. \A r \in Ranks : multiplied[r] \subseteq BlocksOf(r)
    BY AicFacts, SizeAssumption DEF Aics
  <2> QED
    BY <2>1, <2>2, <2>3 DEF TypeOK, IInv, ShapesOK
<1> QED
  BY <1>1, Invariance, PTL

(* For any sizes of the experts, any number of cores and any depth, the    *)
(* block a vector core sends has been multiplied: the n-th set is for the  *)
(* n-th block on both sides.                                               *)
THEOREM SendsOnlyMultiplied == Spec => []SendsMultiplied
<1>1. IInv => SendsMultiplied
  <2> SUFFICES ASSUME IInv, NEW r \in Ranks, NEW v \in Aivs, aiv[r][v] = "send"
               PROVE  AivBlock(r, v) \in multiplied[r]
    BY DEF SendsMultiplied
  <2> DEFINE c == AicOf(v)
             n == aivTurn[r][v]
  <2>1. c \in Aics /\ AivBlocks(r, v) = AicBlocks(r, c)
    BY SameBlocks
  <2> HIDE DEF c, n
  <2>2. /\ n \in Nat /\ mmad[r][v] \in Nat /\ aicTurn[r][c] \in Nat
        /\ MultipliedBy(r, c)
    BY <2>1, AivFacts, AicFacts DEF n
  <2>3. mmad[r][v] = aicTurn[r][c] - (n + 1)
    BY AivFacts DEF FlagOf, Taken, c, n
  <2>4. n + 1 \in 1..AicHas(r, c)
    <3>1. n + 1 <= aicTurn[r][c]
      BY <2>2, <2>3
    <3> QED
      BY <2>2, <3>1 DEF AicHas
  <2> QED
    BY <2>1, <2>2, <2>4 DEF MultipliedBy, FirstOf, AivBlock, n
<1> QED
  BY <1>1, Invariance, PTL

(* Past the barrier every rank has sent what it has. *)
LEMMA AllSent ==
    ASSUME IInv, NEW r \in Ranks, NEW v \in Aivs, aiv[r][v] = "copyOut", NEW s \in Ranks
    PROVE  UNION {sent[s][u] : u \in Aivs} = BlocksOf(s)
<1>1. \A u \in Aivs : sent[s][u] \subseteq BlocksOf(s)
  BY FirstAreBlocks
<1>2. ASSUME NEW x \in BlocksOf(s)
      PROVE  \E u \in Aivs : x \in sent[s][u]
  <2>1. PICK c \in Aics : x \in FirstOf(AicBlocks(s, c), Len(AicBlocks(s, c)))
    BY BlocksCovered
  <2>2. 2 * c \in Aivs /\ AicOf(2 * c) = c
    BY SizeAssumption DEF Aics, Aivs, AicOf
  <2>3. aiv[s][2 * c] \in PastBarrier
    BY <2>2 DEF IInv, BarrierMet, PastBarrier
  <2>4. AivBlocks(s, 2 * c) = AicBlocks(s, c)
    BY <2>2, SameBlocks
  <2>5. sent[s][2 * c] = FirstOf(AicBlocks(s, c), Len(AicBlocks(s, c)))
    BY <2>2, <2>3, <2>4, AivFacts DEF AivAt, PastBarrier
  <2> QED
    BY <2>1, <2>2, <2>5
<1> QED
  BY <1>1, <1>2

(* For any sizes of the experts, no rank has a block left to send when a   *)
(* vector core copies out.                                                 *)
THEOREM CopiesOutAllSent == Spec => []CopiesAllSent
<1>1. IInv => CopiesAllSent
  BY AllSent DEF CopiesAllSent
<1> QED
  BY <1>1, Invariance, PTL

(* When the loops of a rank are over, each vector core has sent just the   *)
(* blocks of its cube core.                                                *)
LEMMA SentAreOwned ==
    ASSUME IInv, NEW r \in Ranks, NEW v \in Aivs, aiv[r][v] \in {"barrierAll", "copyOut", "done"}
    PROVE  sent[r][v] = Owned(r, AicOf(v))
<1>1. AivBlocks(r, v) = AicBlocks(r, AicOf(v)) /\ AicOf(v) \in Aics
  BY SameBlocks
<1>2. sent[r][v] = FirstOf(AivBlocks(r, v), Len(AivBlocks(r, v)))
  BY AivFacts DEF AivAt
<1> QED
  BY <1>1, <1>2, BlocksOwned

(* For any sizes of the experts and any number of cores, every block is    *)
(* sent by the vector cores of one cube core, and no core has two more     *)
(* blocks than another: the start of an expert is where the last one       *)
(* stopped.                                                                *)
THEOREM DealsOutEvenly == Spec => []DealtOutEvenly
<1>1. IInv => DealtOutEvenly
  <2> SUFFICES ASSUME IInv, NEW r \in Ranks,
                      \A v \in Aivs : aiv[r][v] \in {"barrierAll", "copyOut", "done"}
               PROVE  /\ \A b \in BlocksOf(r) : \E c \in Aics :
                            {v \in Aivs : b \in sent[r][v]} = AivsOf(c)
                      /\ \A v, u \in Aivs : Cardinality(sent[r][v]) <= Cardinality(sent[r][u]) + 1
    BY DEF DealtOutEvenly
  <2>1. \A v \in Aivs : sent[r][v] = Owned(r, AicOf(v)) /\ AicOf(v) \in Aics
    BY SentAreOwned, SameBlocks
  <2>2. ASSUME NEW b \in BlocksOf(r)
        PROVE  \E c \in Aics : {v \in Aivs : b \in sent[r][v]} = AivsOf(c)
    <3>1. PICK c \in Aics : b \in FirstOf(AicBlocks(r, c), Len(AicBlocks(r, c)))
      BY BlocksCovered
    <3>2. b \in Owned(r, c)
      BY <3>1, BlocksOwned
    <3>3. \A v \in Aivs : b \in sent[r][v] <=> v \in AivsOf(c)
      <4>1. \A d : b \in Owned(r, d) <=> d = c
        BY <3>2 DEF Owned
      <4>2. \A v \in Aivs : v \in AivsOf(c) <=> c = AicOf(v)
        BY SameBlocks
      <4> QED
        BY <2>1, <4>1, <4>2
    <3>4. AivsOf(c) \subseteq Aivs
      BY SizeAssumption DEF Aics, Aivs, AivsOf
    <3> QED
      BY <3>3, <3>4
  <2>3. \A v, u \in Aivs : Cardinality(sent[r][v]) <= Cardinality(sent[r][u]) + 1
    BY <2>1, OwnedEvenly
  <2> QED
    BY <2>2, <2>3
<1> QED
  BY <1>1, Invariance, PTL

(* For any sizes of the experts and any depth, the kernel leaves no core   *)
(* flag set.                                                               *)
THEOREM EndsWithFlagsClear == Spec => []LeavesNoFlagSet
<1>1. IInv => LeavesNoFlagSet
  <2> SUFFICES ASSUME IInv, Ended, NEW r \in Ranks, NEW v \in Aivs
               PROVE  mmad[r][v] = 0 /\ reverse[r][v] = 0
    BY DEF LeavesNoFlagSet
  <2> DEFINE c == AicOf(v)
  <2>1. c \in Aics /\ AivBlocks(r, v) = AicBlocks(r, c)
    BY SameBlocks
  <2> HIDE DEF c
  <2>2. aic[r][c] = "done" /\ aiv[r][v] = "done"
    BY <2>1 DEF Ended
  <2>3. aicTurn[r][c] = aivTurn[r][v] /\ setCount[r][c] # ReverseDepth
    BY <2>1, <2>2, AicFacts, AivFacts DEF AicAt, AivAt
  <2>4. /\ mmad[r][v] = aicTurn[r][c] - aivTurn[r][v]
        /\ setCount[r][c]
             = mmad[r][v] + waitCount[r][v] + (IF reverse[r][v] = 1 THEN ReverseDepth ELSE 0)
    BY <2>2, AivFacts DEF FlagOf, Taken, c
  <2>5. /\ aicTurn[r][c] \in Nat /\ waitCount[r][v] \in Nat /\ reverse[r][v] \in 0..1
        /\ setCount[r][c] \in 0..ReverseDepth /\ ReverseDepth \in Nat /\ mmad[r][v] \in Nat
    BY <2>1, AicFacts, AivFacts
  <2>6. mmad[r][v] = 0
    BY <2>3, <2>4, <2>5
  <2>7. reverse[r][v] # 1
    <3> SUFFICES ASSUME reverse[r][v] = 1
                 PROVE  FALSE
      OBVIOUS
    <3>1. setCount[r][c] = mmad[r][v] + waitCount[r][v] + ReverseDepth
      BY <2>4
    <3> QED
      BY <2>3, <2>5, <3>1
  <2> QED
    BY <2>5, <2>6, <2>7
<1> QED
  BY <1>1, Invariance, PTL
==============================================================================
