---------------------------- MODULE BlockSwizzles -----------------------------
(***************************************************************************)
(* The swizzles: which block of a problem a task is about                  *)
(* (include/catlass/gemm/block/block_swizzle.hpp,                          *)
(* block_scheduler_l2_misplace_core.hpp, conv/block/block_swizzle.hpp).    *)
(*                                                                         *)
(* A problem s has a shape and a tile, both <<batches, M, N, K>> (for a    *)
(* convolution what the class has in their place), an offset and a         *)
(* direction, and a number of cores.  A block is a sequence of sets: the   *)
(* indices it covers along each axis.                                      *)
(***************************************************************************)
EXTENDS Alignment, Sequences, SequencesExt

CONSTANT L2_TILE_THRESHOLD

MIN_SPLIT_TILE_NUM == 4

MAX_SPLIT_TILE_NUM == 8

-----------------------------------------------------------------------------
(* Rows of tile blocks, each passed column by column, every other one      *)
(* backwards.                                                              *)
Zn(rows, cols, offset, i) ==
    LET tileBlockIdx == i \div (offset * cols)
        inTileBlockIdx == i % (offset * cols)
        nRow == IF tileBlockIdx = CeilDiv(rows, offset) - 1 THEN rows - offset * tileBlockIdx ELSE offset
        nIdx == inTileBlockIdx \div nRow
    IN <<tileBlockIdx * offset + (inTileBlockIdx % nRow),
         IF tileBlockIdx % 2 = 1 THEN cols - nIdx - 1 ELSE nIdx>>

Flip(c) == <<c[2], c[1]>>

Swizzled(rows, cols, s, i) ==
    IF s.direction = 0 THEN Zn(rows, cols, s.offset, i) ELSE Flip(Zn(cols, rows, s.offset, i))

(* A short last row of tile blocks is joined to the one before it, and     *)
(* each column is passed in the direction opposite to the last.            *)
Snake(rows, cols, offset, joins(_), i) ==
    LET tileBlockLoop == CeilDiv(rows, offset)
        tileBlockIdx == i \div (offset * cols)
        tailOffset == rows - (tileBlockLoop - 1) * offset
        joined == tileBlockLoop >= 2 /\ tileBlockIdx >= tileBlockLoop - 2 /\ joins(tailOffset)
        block == IF joined THEN ((rows - tailOffset) \div offset) - 1 ELSE tileBlockIdx
        inTileBlockIdx == IF joined THEN i - offset * cols * block ELSE i % (offset * cols)
        nRow == IF joined THEN offset + tailOffset
                ELSE IF tileBlockIdx = tileBlockLoop - 1 THEN rows - offset * tileBlockIdx
                ELSE offset
        along == inTileBlockIdx \div nRow
        nIdx == IF block % 2 = 1 THEN cols - along - 1 ELSE along
        down == inTileBlockIdx % nRow
    IN <<block * offset + (IF nIdx % 2 = 1 THEN nRow - down - 1 ELSE down), nIdx>>

SnakeSwizzled(rows, cols, s, i) ==
    IF s.direction = 0
    THEN Snake(rows, cols, s.offset, LAMBDA tail : tail <= s.offset \div 2, i)
    ELSE Flip(Snake(cols, rows, s.offset, LAMBDA tail : tail < s.offset \div 2, i))

-----------------------------------------------------------------------------
Loops(s) == [axis \in DOMAIN s.shape |-> CeilDiv(s.shape[axis], s.tile[axis])]

(* Block c of an axis: a tile, or what is left for the last one. *)
Extent(s, axis, c) ==
    LET first == c * s.tile[axis]
    IN first..(IF c = Loops(s)[axis] - 1 THEN s.shape[axis] - 1 ELSE first + s.tile[axis] - 1)

Along(s, batch, mn) ==
    <<{batch}, Extent(s, 2, mn[1]), Extent(s, 3, mn[2]), 0..(s.shape[4] - 1)>>

CoreLoops(s) == Loops(s)[2] * Loops(s)[3]

IdentityBlock(s, taskIdx) ==
    Along(s, taskIdx \div CoreLoops(s), Swizzled(Loops(s)[2], Loops(s)[3], s, taskIdx % CoreLoops(s)))

(* Without a scheduler: row by row. *)
InOrderBlock(s, taskIdx) == Along(s, 0, <<taskIdx \div Loops(s)[3], taskIdx % Loops(s)[3]>>)

(* offset and direction are given at run time: the code is repeated. *)
DynamicIdentityBlock(s, taskIdx) ==
    Along(s, taskIdx \div CoreLoops(s), Swizzled(Loops(s)[2], Loops(s)[3], s, taskIdx % CoreLoops(s)))

(* Mutant: every core is given the blocks of a core without a remainder. *)
InnerIdxWithoutTail(s, taskIdx) ==
    (taskIdx % s.cores) * (CoreLoops(s) \div s.cores) + (taskIdx \div s.cores)

(* Every core gets blocks that follow each other, so that it can keep A. *)
InnerIdx(s, taskIdx) ==
    LET coreIdx == taskIdx % s.cores
        loopsTail == CoreLoops(s) % s.cores
    IN coreIdx * (CoreLoops(s) \div s.cores) + (taskIdx \div s.cores)
       + (IF coreIdx < loopsTail THEN coreIdx ELSE loopsTail)

L1FullLoadBlock(s, taskIdx) == Along(s, 0, Swizzled(Loops(s)[2], Loops(s)[3], s, InnerIdx(s, taskIdx)))

-----------------------------------------------------------------------------
(* Groups: the first block of a group goes to the core after the one with  *)
(* the last block of the group before (startCoreIdx).                      *)
GroupProblem(s, m, n, k) == [s EXCEPT !.shape = <<1, m, n, k>>]

LoopsBefore(problems, g) ==
    FoldLeft(LAMBDA sum, p : sum + CoreLoops(p), 0, SubSeq(problems, 1, g - 1))

StartCoreIdx(s, problems, g) == LoopsBefore(problems, g) % s.cores

StartLoopIdx(s, problems, g, core) ==
    LET start == StartCoreIdx(s, problems, g)
    IN IF core < start THEN core + s.cores - start ELSE core - start

(* The group list has running sums. *)
InGroup(s, g) == s.groups[g] - (IF g = 1 THEN 0 ELSE s.groups[g - 1])

-----------------------------------------------------------------------------
(* K is cut into s.cores slices of whole tiles (splitkFactor). *)
SliceStart(s, slice) ==
    LET tiles == Loops(s)[4] IN
    IF slice < tiles % s.cores THEN (tiles \div s.cores + 1) * slice
    ELSE slice * (tiles \div s.cores) + (tiles % s.cores)

SliceLength(s, slice) ==
    (Loops(s)[4] \div s.cores + (IF slice < Loops(s)[4] % s.cores THEN 1 ELSE 0)) * s.tile[4]

SplitkSlice(s, taskIdx) == (taskIdx % (CoreLoops(s) * s.cores)) \div CoreLoops(s)

SplitkBlock(s, taskIdx) ==
    LET slice == SplitkSlice(s, taskIdx)
        first == SliceStart(s, slice) * s.tile[4]
        last == IF slice = s.cores - 1 THEN s.shape[4] - 1 ELSE first + SliceLength(s, slice) - 1
    IN [Along(s, taskIdx \div (CoreLoops(s) * s.cores), Swizzled(Loops(s)[2], Loops(s)[3], s, taskIdx % CoreLoops(s)))
        EXCEPT ![4] = first..last]

DynamicSplitkBlock(s, taskIdx) == SplitkBlock(s, taskIdx)

-----------------------------------------------------------------------------
(* A core passes its range of blocks once for every tile of K. *)
MNLoopRange(s, core) ==
    LET bPerCore == CeilDiv(CoreLoops(s), s.cores)
        full == CoreLoops(s) - s.cores * (bPerCore - 1)
    IN IF core < full THEN [start |-> core * bPerCore, len |-> bPerCore]
       ELSE [start |-> full * bPerCore + (core - full) * (bPerCore - 1), len |-> bPerCore - 1]

SingleCoreLoops(s, core) == Loops(s)[4] * MNLoopRange(s, core).len

IsAtomicAdd(s, core, loopIdx) == loopIdx \div MNLoopRange(s, core).len # 0

SingleCoreSplitkBlock(s, core, loopIdx) ==
    LET range == MNLoopRange(s, core)
        inner == range.start + (loopIdx % range.len)
    IN [Along(s, 0, SnakeSwizzled(Loops(s)[2], Loops(s)[3], s, inner))
        EXCEPT ![4] = Extent(s, 4, loopIdx \div range.len)]

DynamicSingleCoreSplitkBlock(s, core, loopIdx) == SingleCoreSplitkBlock(s, core, loopIdx)

-----------------------------------------------------------------------------
(* Stream-k: the blocks that are left over when every core has had the     *)
(* same number are cut along K, so that every core gets the same number of *)
(* tiles, which may be of two blocks.                                      *)
StreamkBlockNum(s) == CoreLoops(s) % s.cores

NormalBlockNum(s) == CoreLoops(s) - StreamkBlockNum(s)

KTileNumPerCore(s) == (StreamkBlockNum(s) * Loops(s)[4]) \div s.cores

KTileRemain(s) == (StreamkBlockNum(s) * Loops(s)[4]) % s.cores

StreamkCoreLoops(s) ==
    LET tiles == StreamkBlockNum(s) * Loops(s)[4]
    IN (CoreLoops(s) \div s.cores) * s.cores + (IF tiles < s.cores THEN tiles ELSE s.cores)

StreamkCoord(s, taskIdx) == Swizzled(Loops(s)[2], Loops(s)[3], s, taskIdx % StreamkCoreLoops(s))

(* GetStreamkBlockDec: the one or two blocks of a task. *)
StreamkBlocks(s, loopIdx) ==
    IF loopIdx < NormalBlockNum(s) THEN <<Along(s, 0, StreamkCoord(s, loopIdx))>>
    ELSE LET n == loopIdx - NormalBlockNum(s)
             tiles == Loops(s)[4]
             curKTileNum == KTileNumPerCore(s) + (IF n < KTileRemain(s) THEN 1 ELSE 0)
             kTileIdx == IF n < KTileRemain(s) THEN n * curKTileNum
                         ELSE n * KTileNumPerCore(s) + KTileRemain(s)
             first == (kTileIdx % tiles) * s.tile[4]
             beyond == ((kTileIdx % tiles) + curKTileNum) * s.tile[4]
             last == IF beyond > s.shape[4] THEN s.shape[4] - 1 ELSE beyond - 1
             Block(b, k) == [Along(s, 0, StreamkCoord(s, NormalBlockNum(s) + b)) EXCEPT ![4] = k]
         IN <<Block(kTileIdx \div tiles, first..last)>>
            \o (IF (kTileIdx % tiles) + curKTileNum > tiles
                THEN <<Block((kTileIdx + curKTileNum) \div tiles,
                             0..(((kTileIdx + curKTileNum) % tiles) * s.tile[4] - 1))>>
                ELSE <<>>)

DynamicStreamkBlocks(s, loopIdx) == StreamkBlocks(s, loopIdx)

(* GetCoreIdx: the core with the first tile of a block that was cut. *)
StreamkCoreIdx(s, b) ==
    LET before == b * Loops(s)[4]
        longer == KTileRemain(s) * (KTileNumPerCore(s) + 1)
    IN IF before > longer THEN KTileRemain(s) + (before - longer) \div KTileNumPerCore(s)
       ELSE before \div (KTileNumPerCore(s) + 1)

(* IsCross: does that core begin with the block before? *)
StreamkIsCross(s, b) ==
    LET before == b * Loops(s)[4]
        longer == KTileRemain(s) * (KTileNumPerCore(s) + 1)
    IN IF before > longer THEN (before - longer) % KTileNumPerCore(s) # 0
       ELSE before % (KTileNumPerCore(s) + 1) # 0

-----------------------------------------------------------------------------
(* BlockSchedulerL2MisplaceCore: the tiles of a problem beyond the size of *)
(* the L2 cache are passed L2 tile by L2 tile, and within one along its    *)
(* diagonal, so that no two cores read the same rows at once.              *)
TailNum(total, normal) ==
    IF normal = 0 THEN 0 ELSE IF total % normal = 0 THEN normal ELSE total % normal

TotalSize(m, n, k) == 2 * (m * k + k * n + m * n)

(* InitL2TileTail, for matrices that are not transposed: of the L2 tiles   *)
(* that fit, the last that conflicts least.                                *)
L2TileTail(s) ==
    LET m == Loops(s)[2]  n == Loops(s)[3]
        wide == s.tile[3] > s.tile[2]
        Least(a) == IF s.cores > a THEN a ELSE s.cores
        maxi == IF wide THEN Least(n) ELSE Least(m)
        maxj == IF wide THEN Least(m) ELSE Least(n)
        inner == IF wide THEN MIN_SPLIT_TILE_NUM ELSE MAX_SPLIT_TILE_NUM
        Down(from, to) == IF from < to THEN <<>> ELSE [x \in 1..(from - to + 1) |-> from + 1 - x]
        tried == FlattenSeq([x \in DOMAIN Down(maxi, MIN_SPLIT_TILE_NUM) |->
                   [y \in DOMAIN Down(maxj, inner) |->
                      LET i == Down(maxi, MIN_SPLIT_TILE_NUM)[x]  j == Down(maxj, inner)[y]
                      IN IF wide THEN <<j, i>> ELSE <<i, j>>]])
        Conflict(t) == <<CeilDiv(s.cores, TailNum(m, t[1])), CeilDiv(s.cores, TailNum(n, t[2]))>>
        Fits(t) == TotalSize(t[1] * s.tile[2], t[2] * s.tile[3], s.shape[4]) <= L2_TILE_THRESHOLD
        Better(so, t) ==
          IF Fits(t) /\ (so = <<>> \/ (/\ Conflict(so)[1] >= Conflict(t)[1]
                                       /\ Conflict(so)[2] >= Conflict(t)[2]))
          THEN t ELSE so
        best[i \in 0..Len(tried)] == IF i = 0 THEN <<>> ELSE Better(best[i - 1], tried[i])
        found == best[Len(tried)]
    IN IF found = <<>> THEN <<m, n>> ELSE found

(* InitL2Tile *)
L2Tile(s) ==
    LET m == Loops(s)[2]  n == Loops(s)[3]
    IN IF (m < MIN_SPLIT_TILE_NUM /\ n < MIN_SPLIT_TILE_NUM)
          \/ TotalSize(s.shape[2], s.shape[3], s.shape[4]) <= L2_TILE_THRESHOLD
       THEN <<m, n>> ELSE L2TileTail(s)

Gcd[p \in Nat \X Nat] == IF p[2] = 0 THEN p[1] ELSE Gcd[<<p[2], p[1] % p[2]>>]

(* MMLcm *)
Lcm(a, b) == IF a = 0 \/ b = 0 THEN 0 ELSE (a * b) \div Gcd[<<a, b>>]

MisplacedCoord(s, taskIdx) ==
    LET m == Loops(s)[2]  n == Loops(s)[3]
        tile == L2Tile(s)
        mL2 == CeilDiv(m, tile[1])  nL2 == CeilDiv(n, tile[2])
        tileIdx == taskIdx % (m * n)
        mL2Idx == tileIdx \div (tile[1] * n)
        rows == IF mL2Idx = mL2 - 1 THEN TailNum(m, tile[1]) ELSE tile[1]
        nL2Idx == (tileIdx % (tile[1] * n)) \div (rows * tile[2])
        cols == IF nL2Idx = nL2 - 1 THEN TailNum(n, tile[2]) ELSE tile[2]
        newBlockIdx == tileIdx - (mL2Idx * tile[1] * n + nL2Idx * tile[2] * rows)
    IN <<(newBlockIdx % rows) + mL2Idx * tile[1],
         ((newBlockIdx + newBlockIdx \div Lcm(rows, cols)) % cols) + nL2Idx * tile[2]>>

MisplacedBlock(s, taskIdx) == Along(s, taskIdx \div CoreLoops(s), MisplacedCoord(s, taskIdx))

-----------------------------------------------------------------------------
(* Convolutions.  In three dimensions the shape is <<n, d, c1, hw>> and    *)
(* s.tile the number of blocks along each axis that is asked for: it is    *)
(* cut to the shape, and the blocks are as large as that number needs.     *)
Conv3dLoops(s) == [axis \in 1..4 |-> IF s.shape[axis] < s.tile[axis] THEN s.shape[axis] ELSE s.tile[axis]]

Conv3dTile(s) == [axis \in 1..4 |-> CeilDiv(s.shape[axis], Conv3dLoops(s)[axis])]

Conv3dCoreLoops(s) == LET l == Conv3dLoops(s) IN l[1] * l[2] * l[3] * l[4]

Conv3dCoord(s, taskIdx) ==
    LET l == Conv3dLoops(s)
        mn == Swizzled(l[4], l[1] * l[2] * l[3], s, taskIdx % Conv3dCoreLoops(s))
    IN <<mn[2] \div (l[2] * l[3]), (mn[2] \div l[3]) % l[2], mn[2] % l[3], mn[1]>>

Conv3dBlock(s, taskIdx) ==
    [axis \in 1..4 |->
       LET c == Conv3dCoord(s, taskIdx)[axis]
           tile == Conv3dTile(s)[axis]
           actual == IF c = Conv3dLoops(s)[axis] - 1 THEN s.shape[axis] - c * tile ELSE tile
       IN (c * tile)..(c * tile + actual - 1)]

(* In two dimensions shape and tile are <<batches, ho, wo, cout>>. *)
Conv2dCoreLoops(s) == Loops(s)[2] * Loops(s)[3] * Loops(s)[4]

Conv2dBlock(s, taskIdx) ==
    LET l == Loops(s)
        mn == Swizzled(l[2] * l[3], l[4], s, taskIdx % Conv2dCoreLoops(s))
    IN <<{taskIdx \div Conv2dCoreLoops(s)}, Extent(s, 2, mn[1] \div l[3]),
         Extent(s, 3, mn[1] % l[3]), Extent(s, 4, mn[2])>>
===============================================================================
