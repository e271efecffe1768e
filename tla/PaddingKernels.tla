---------------------------- MODULE PaddingKernels ----------------------------
(***************************************************************************)
(* The kernels whose vector cores pad the operands before the cube cores   *)
(* multiply them, or take the padding off the result afterwards            *)
(* (padding_matmul.hpp, optimized_matmul.hpp, optimized_matmul_tla.hpp,    *)
(* dynamic_padding_common_matmul.hpp, single_core_slicek_matmul.hpp,       *)
(* dynamic_single_core_splitk_matmul.hpp).  How they pad is in Paddings.   *)
(*                                                                         *)
(* A problem s is one of BlockSwizzles, with cores = aics cube cores; padA *)
(* and padB say which operands are padded, removes that the result is left *)
(* in the workspace first.                                                 *)
(***************************************************************************)
EXTENDS BlockSwizzles, KernelInstructions, TLC

Operands(s, b) == {ARow(s, r) : r \in b[2]} \cup {BColumn(s, j) : j \in b[3]}

(* A row of a block in the result, or in its copy with padding. *)
Place(s, r, b) == <<IF s.removes THEN "WC" ELSE "C", r, Min(b[3])>>

Stored(s, b) ==
    LET rows == InOrder(b[2]) IN [i \in DOMAIN rows |-> <<Place(s, rows[i], b), <<rows[i], Min(b[3])>>>>]

(* RemovePaddingNDAndCast of the rows of the result that are given to a    *)
(* vector core, of every block they go through.                            *)
RemovePadding(s, rows, SourceOf(_, _), columns) ==
    VectorCore(EachOf(rows, LAMBDA i : EachOf(columns, LAMBDA x :
        VectorTile((i - 1) * Len(columns) + x, {SourceOf(rows[i], columns[x])}, <<"C", rows[i], columns[x]>>))))

(* When all cube cores have stored the result. *)
RemovePaddingC(s, core) ==
    LET columns == [n \in 1..Loops(s)[3] |-> (n - 1) * s.tile[3]]
        rows == PaddedRows(s.shape[2], SubBlockNum * s.aics, core[2])
    IN When(s.removes,
            AwaitPartners(core, 1) \o CrossCoreBarrier(core, "MTE3", AllAivs(s.aics))
            \o RemovePadding(s, rows, LAMBDA r, n : <<"WC", r, n>>, columns))

AicFinish(s, core) == When(s.removes, SetPartners(core, "FIX", 1))

-----------------------------------------------------------------------------
(* Blocks dealt out one by one. *)
Tasks(s, core) == TasksOf(core[2], CoreLoops(s), s.aics)

PaddingMatmulAic(s, core) ==
    LET tasks == Tasks(s, core)
    IN AwaitPartners(core, 0)
       \o CubeCore(EachOf(tasks, LAMBDA x :
            LET b == IdentityBlock(s, tasks[x]) IN CallMmad(x, Operands(s, b), Stored(s, b))))

PaddingMatmulAiv(s, core) ==
    Prologue(s, core) \o CrossCoreBarrier(core, "MTE3", AllAivs(s.aics)) \o SetPartners(core, "MTE3", 0)

Preloaded(s, core, BlockAt(_, _)) ==
    AwaitPadding(s, core, 0)
    \o CubeCore(NextPreloaded(Tasks(s, core), LAMBDA t : Operands(s, BlockAt(s, t)), LAMBDA t : Stored(s, BlockAt(s, t))))

OptimizedMatmulAic(s, core) == Preloaded(s, core, IdentityBlock)

OptimizedMatmulAiv(s, core) == Prologue(s, core) \o FinishPadding(s, core, 0)

OptimizedMatmulTlaAic(s, core) == Preloaded(s, core, IdentityBlock)

OptimizedMatmulTlaAiv(s, core) == Prologue(s, core) \o FinishPadding(s, core, 0)

DynamicPaddingCommonMatmulAic(s, core) == Preloaded(s, core, DynamicIdentityBlock) \o AicFinish(s, core)

DynamicPaddingCommonMatmulAiv(s, core) ==
    Prologue(s, core) \o FinishPadding(s, core, 0) \o RemovePaddingC(s, core)

-----------------------------------------------------------------------------
(* Single core split-k: a call is one L1 tile along k, and of the tiles of *)
(* the next call those are loaded that it has not in common with it.       *)
Splitk(blocks) ==
    INSTANCE BlockMmadSplitk
        WITH L1AStages <- 2, L1BStages <- 2, L0CStages <- 1, Blocks <- blocks, UnitFlag <- FALSE

(* The block reads the rows and columns of its tiles, and leaves its sum   *)
(* in PlaceOf(m, n).                                                       *)
TileRows(s, tile) ==
    IF tile[1] = "A" THEN {ARow(s, r) : r \in Extent(s, 2, tile[2])}
    ELSE {BColumn(s, j) : j \in Extent(s, 3, tile[3])}

InKernel(s, stream, PlaceOf(_, _)) ==
    LET Placed(b) == IF b[1] = "C" THEN PlaceOf(b[2], b[3]) ELSE b
    IN [i \in DOMAIN stream |->
          LET ins == stream[i]
          IN IF ins.op # "do" THEN ins
             ELSE IF ins.dst[1] \in {"L1A", "L1B"}
             THEN Do(ins.pipe, ins.dst, TileRows(s, ins.what), <<"apply", ins.what>>)
             ELSE [ins EXCEPT !.dst = Placed(@), !.srcs = {Placed(b) : b \in @}]]

(* m, n and k of a block, which is not cut any further. *)
CoordOf(s, b) ==
    [m |-> Min(b[2]) \div s.tile[2], n |-> Min(b[3]) \div s.tile[3], k |-> Min(b[4]) \div s.tile[4],
     mLoops |-> 1, nLoops |-> 1, kLoops |-> 1]

ResultOf(s, m, n) == <<IF s.removes THEN "WC" ELSE "C", m, n>>

SingleCoreCalls(s, core) ==
    [x \in 1..SingleCoreLoops(s, core[2]) |-> CoordOf(s, SingleCoreSplitkBlock(s, core[2], x - 1))]

SingleCore(s, core) ==
    AwaitPadding(s, core, 0)
    \o InKernel(s, Splitk(SingleCoreCalls(s, core))!Stream, LAMBDA m, n : ResultOf(s, m, n))

DynamicSingleCore(s, core) ==
    AwaitPadding(s, core, 0)
    \o InKernel(s, Splitk(SingleCoreCalls(s, core))!DynamicStream, LAMBDA m, n : ResultOf(s, m, n))

RemoveSplitk(s, core) ==
    When(s.removes,
         AwaitPartners(core, 1) \o CrossCoreBarrier(core, "MTE3", AllAivs(s.aics))
         \o RemovePadding(s, PaddedRows(s.shape[2], SubBlockNum * s.aics, core[2]),
                          LAMBDA r, n : <<"WC", r \div s.tile[2], n>>, [n \in 1..Loops(s)[3] |-> n - 1]))

SingleCoreSplitkMatmulAic(s, core) == SingleCore(s, core) \o AicFinish(s, core)

SingleCoreSplitkMatmulAiv(s, core) == Prologue(s, core) \o FinishPadding(s, core, 0) \o RemoveSplitk(s, core)

SmallKAic(s, core) == DynamicSingleCore(s, core)

SmallKAiv(s, core) == <<>>

PaddingSmallKAic(s, core) == DynamicSingleCore(s, core) \o AicFinish(s, core)

PaddingSmallKAiv(s, core) == Prologue(s, core) \o FinishPadding(s, core, 0) \o RemoveSplitk(s, core)

KLoopOuterAic(s, core) == DynamicSingleCore(s, core) \o AicFinish(s, core)

KLoopOuterAiv(s, core) == Prologue(s, core) \o FinishPadding(s, core, 0) \o RemoveSplitk(s, core)

-----------------------------------------------------------------------------
(* K loop in the middle: a cube core has a logic block of m1 times n1      *)
(* tiles at a time, which it adds up in one of its two slices of the       *)
(* workspace while its vector cores move the other one to the result.      *)
GMWC_BUFFER_NUM == 2

FlagMoveGmc(buffer) == 2 + buffer

LogicProblem(s) == [s EXCEPT !.tile = <<1, s.tile[2] * s.m1, s.tile[3] * s.n1, s.tile[4]>>]

LogicBlocks(s, i) ==
    LET tasks == TasksOf(i, CoreLoops(LogicProblem(s)), s.aics)
    IN [x \in DOMAIN tasks |-> DynamicIdentityBlock(LogicProblem(s), tasks[x])]

Buffer(x) == (x - 1) % GMWC_BUFFER_NUM

(* GetInnerCoord: A is kept for the n axis, or B for the m axis. *)
InnerCoord(s, b, i) ==
    LET m == CeilDiv(Cardinality(b[2]), s.tile[2])
        n == CeilDiv(Cardinality(b[3]), s.tile[3])
        k == CeilDiv(Cardinality(b[4]), s.tile[4])
        reuseL1A == s.m1 <= s.n1
        Coord(mIdx, nIdx, kIdx) ==
          [m |-> mIdx + Min(b[2]) \div s.tile[2], n |-> nIdx + Min(b[3]) \div s.tile[3], k |-> kIdx,
           mLoops |-> 1, nLoops |-> 1, kLoops |-> 1]
    IN IF reuseL1A THEN Coord(i \div (n * k), i % n, (i \div n) % k)
       ELSE Coord(i % m, i \div (m * k), (i \div m) % k)

InnerLoops(s, b) ==
    CeilDiv(Cardinality(b[2]), s.tile[2]) * CeilDiv(Cardinality(b[3]), s.tile[3])
    * CeilDiv(Cardinality(b[4]), s.tile[4])

InSlice(s, i, x, m, n) == <<"WC", i, Buffer(x), m % s.m1, n % s.n1>>

KLoopMiddleAic(s, core) ==
    LET logic == LogicBlocks(s, core[2])
        CallsOf(x) == [i \in 1..InnerLoops(s, logic[x]) |-> InnerCoord(s, logic[x], i - 1)]
        Before(x) == FoldLeftDomain(LAMBDA sum, y : sum + (IF y < x THEN InnerLoops(s, logic[y]) ELSE 0), 0, logic)
        calls == FlattenSeq([x \in DOMAIN logic |-> CallsOf(x)])
    IN AwaitPadding(s, core, 0)
       \o Splitk(calls)!DynamicConstructor
       \o EachOf(logic, LAMBDA x :
            AwaitPartners(core, FlagMoveGmc(Buffer(x)))
            \o For(Before(x) + 1, Before(x) + InnerLoops(s, logic[x]), LAMBDA c :
                 InKernel(s, Splitk(calls)!DynamicCall(c), LAMBDA m, n : InSlice(s, core[2], x, m, n)))
            \o SetPartners(core, "FIX", 1))
       \o AwaitPartners(core, FlagMoveGmc(0)) \o AwaitPartners(core, FlagMoveGmc(1))
       \o Splitk(calls)!DynamicDestructor

KLoopMiddleAiv(s, core) ==
    LET i == AicOf(core[2])[2]
        logic == LogicBlocks(s, i)
        Moved(x) ==
          LET b == logic[x]
              base == Min(b[2])
              share == PaddedRows(Cardinality(b[2]), SubBlockNum, SubBlockIdx(core[2]))
              columns == InOrder({j \div s.tile[3] : j \in b[3]})
          IN RemovePadding(s, [y \in DOMAIN share |-> base + share[y]],
                           LAMBDA r, n : InSlice(s, i, x, r \div s.tile[2], n), columns)
    IN Prologue(s, core) \o FinishPadding(s, core, 0)
       \o SetPartners(core, "MTE3", FlagMoveGmc(0)) \o SetPartners(core, "MTE3", FlagMoveGmc(1))
       \o EachOf(logic, LAMBDA x :
            AwaitPartners(core, 1) \o Moved(x) \o SetPartners(core, "MTE3", FlagMoveGmc(Buffer(x))))

-----------------------------------------------------------------------------
Expected(s) ==
    LET blocks == {IdentityBlock(s, t) : t \in 0..(CoreLoops(s) - 1)}
        rows == UNION {{<<b, r>> : r \in b[2]} : b \in blocks}
    IN [d \in {<<"C", w[2], Min(w[1][3])>> : w \in rows} |->
          LET w == CHOOSE v \in rows : v[2] = d[2] /\ Min(v[1][3]) = d[3]
              unpadded == [s EXCEPT !.padA = FALSE, !.padB = FALSE]
          IN ProductOf(Operands(unpadded, w[1]), <<w[2], d[3]>>)]

(* The sum of the products of the tiles along k, by blocks or by rows. *)
SumOf(s, m, n) ==
    LET unpadded == [s EXCEPT !.padA = FALSE, !.padB = FALSE]
        TileOf(tile) == SetToBag({<<"apply", tile, {SetToBag({b}) : b \in TileRows(unpadded, tile)}>>})
        PartOf(tile) == SetToBag({<<"part", <<0, 0>>, TileOf(tile)>>})
    IN SetToBag({<<"mmad", PartOf(<<"A", m, k>>), PartOf(<<"B", k, n>>)>> : k \in 0..(Loops(s)[4] - 1)})

ExpectedSums(s) ==
    IF s.removes \/ s.m1 > 0
    THEN [d \in {"C"} \X (0..(s.shape[2] - 1)) \X (0..(Loops(s)[3] - 1)) |-> SumOf(s, d[2] \div s.tile[2], d[3])]
    ELSE [d \in {"C"} \X (0..(Loops(s)[2] - 1)) \X (0..(Loops(s)[3] - 1)) |-> SumOf(s, d[2], d[3])]

PaddingProblem(m, n, k, aics, padA, padB, removes) ==
    [shape |-> <<1, m, n, k>>, tile |-> <<1, 2, 3, 2>>, offset |-> 2, direction |-> 1, cores |-> aics,
     aics |-> aics, padA |-> padA, padB |-> padB, removes |-> removes, m1 |-> 0, n1 |-> 0]

PaddingPrograms ==
    LET both == PaddingProblem(5, 7, 1, 2, TRUE, TRUE, FALSE)
        onlyB == PaddingProblem(5, 7, 1, 2, FALSE, TRUE, FALSE)
        removed == PaddingProblem(5, 4, 1, 2, TRUE, FALSE, TRUE)
        kept == PaddingProblem(3, 5, 2, 2, FALSE, FALSE, FALSE)
        small == PaddingProblem(5, 4, 2, 2, TRUE, FALSE, TRUE)
        outer == PaddingProblem(3, 4, 3, 2, FALSE, TRUE, TRUE)
        middle == [PaddingProblem(7, 5, 3, 1, TRUE, FALSE, FALSE) EXCEPT !.m1 = 1, !.n1 = 2]
        middleB == [PaddingProblem(7, 4, 4, 2, FALSE, FALSE, FALSE) EXCEPT !.m1 = 2, !.n1 = 1]
    IN "padding matmul" :> KernelProgram(both, PaddingMatmulAic, PaddingMatmulAiv, Expected(both))
       @@ "optimized matmul" :> KernelProgram(onlyB, OptimizedMatmulAic, OptimizedMatmulAiv, Expected(onlyB))
       @@ "optimized matmul tla" :>
         KernelProgram(both, OptimizedMatmulTlaAic, OptimizedMatmulTlaAiv, Expected(both))
       @@ "dynamic padding common" :>
         KernelProgram(removed, DynamicPaddingCommonMatmulAic, DynamicPaddingCommonMatmulAiv, Expected(removed))
       @@ "single core split-k kernel" :>
         KernelProgram(outer, SingleCoreSplitkMatmulAic, SingleCoreSplitkMatmulAiv, ExpectedSums(outer))
       @@ "small k" :> KernelProgram(kept, SmallKAic, SmallKAiv, ExpectedSums(kept))
       @@ "padding small k" :> KernelProgram(small, PaddingSmallKAic, PaddingSmallKAiv, ExpectedSums(small))
       @@ "k loop outer" :> KernelProgram(outer, KLoopOuterAic, KLoopOuterAiv, ExpectedSums(outer))
       @@ "k loop middle" :> KernelProgram(middle, KLoopMiddleAic, KLoopMiddleAiv, ExpectedSums(middle))
       @@ "k loop middle, B kept" :>
         KernelProgram(middleB, KLoopMiddleAic, KLoopMiddleAiv, ExpectedSums(middleB))
===============================================================================
