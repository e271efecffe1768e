--------------------------- MODULE EpilogueKernels ----------------------------
(***************************************************************************)
(* The kernels whose cube cores leave every block in the workspace for     *)
(* their vector cores, which make the result of it (include/catlass/gemm/  *)
(* kernel: matmul_epilogue, matmul_activation, quant_matmul, the grouped   *)
(* per-token dequantisations, the ones with a workspace of a few blocks    *)
(* that are used again, gemm and group_gemm).                              *)
(*                                                                         *)
(* A problem s is a list of groups, each a problem of BlockSwizzles, on so *)
(* many cube cores (aics, cores).  Workspace and result are looked at row  *)
(* by row of a block: a row of the result is <<"D", group, row, first      *)
(* column of the block>>.                                                  *)
(***************************************************************************)
EXTENDS BlockSwizzles, KernelInstructions, TLC

CONSTANT WORKSPACE_STAGES

(* The blocks of a cube core and its vector cores, in order.  A group      *)
(* begins with the core after the one with the last block of the group     *)
(* before.                                                                 *)
CoreBlocks(s, i, BlockAt(_, _)) ==
    FlattenSeq([g \in DOMAIN s.groups |->
      LET tasks == TasksOf(StartLoopIdx(s, s.groups, g, i), CoreLoops(s.groups[g]), s.aics)
      IN [x \in DOMAIN tasks |-> [g |-> g, b |-> BlockAt(s.groups[g], tasks[x])]]])

Blocks(s, i) == CoreBlocks(s, i, IdentityBlock)

Operands(s, x) == {<<"A", x.g, r>> : r \in x.b[2]} \cup {<<"B", x.g, j>> : j \in x.b[3]}

Label(x, r) == <<x.g, r, Min(x.b[3])>>

(* The rows of a block with the buffers they are stored in. *)
Stored(x, BufferOf(_)) ==
    LET rows == InOrder(x.b[2]) IN [i \in DOMAIN rows |-> <<BufferOf(rows[i]), Label(x, rows[i])>>]

(* A workspace as large as the results. *)
InWorkspace(x, r) == <<"W">> \o Label(x, r)

Result(x, r) == <<"D">> \o Label(x, r)

(* The vector cores of a cube core have one half of the rows each, or take *)
(* tiles of rows in turn (EpilogueIdentityTileSwizzle).                    *)
Halves(x, core) ==
    LET rows == InOrder(x.b[2])
        each == CeilDiv(Len(rows), SubBlockNum)
        sub == SubBlockIdx(core[2])
    IN SubSeq(rows, sub * each + 1, Min({(sub + 1) * each, Len(rows)}))

InTurn(x, core) ==
    LET rows == InOrder(x.b[2])
    IN EachOf(TasksOf(SubBlockIdx(core[2]), Len(rows), SubBlockNum), LAMBDA i :
         <<rows[SubBlockIdx(core[2]) + (i - 1) * SubBlockNum + 1]>>)

Epilogue(x, rows, SourcesOf(_)) == EachOf(rows, LAMBDA i : VectorTile(i, SourcesOf(rows[i]), Result(x, rows[i])))

-----------------------------------------------------------------------------
(* A flag for every block, and one back after a number of blocks.          *)
EveryBlock(s, core, Sources(_)) ==
    LET blocks == SelectSeq(Blocks(s, core[2]), LAMBDA x : x.b[4] # {})
    IN CubeCore(EachOf(blocks, LAMBDA n :
         LET x == blocks[n]
         IN CallMmad(n, Sources(x), Stored(x, LAMBDA r : InWorkspace(x, r)))
            \o SetFlagWithReverse(core, "FIX", 0, 1, n)))

EveryBlockOut(s, core, Rows(_, _), SourcesOf(_, _)) ==
    LET blocks == SelectSeq(Blocks(s, AicOf(core[2])[2]), LAMBDA x : x.b[4] # {})
    IN VectorCore(EachOf(blocks, LAMBDA n :
         LET x == blocks[n]
         IN WaitFlagWithReverse(core, "MTE3", 0, 1, n)
            \o Epilogue(x, Rows(x, core), LAMBDA r : SourcesOf(x, r))))

MatmulEpilogueAic(s, core) == EveryBlock(s, core, LAMBDA x : Operands(s, x))

(* X and D are the same matrix. *)
MatmulEpilogueAiv(s, core) ==
    EveryBlockOut(s, core, Halves, LAMBDA x, r : {InWorkspace(x, r), Result(x, r)})

MatmulActivationAic(s, core) == EveryBlock(s, core, LAMBDA x : Operands(s, x))

MatmulActivationAiv(s, core) == EveryBlockOut(s, core, Halves, LAMBDA x, r : {InWorkspace(x, r)})

(* A row has a scale for each of its columns, and one of its own. *)
Scales(x, r) == {<<"Scale", x.g, Min(x.b[3])>>, <<"PerTokenScale", x.g, r>>}

QuantMatmulAic(s, core) == EveryBlock(s, core, LAMBDA x : Operands(s, x))

QuantMatmulAiv(s, core) ==
    EveryBlockOut(s, core, InTurn, LAMBDA x, r : {InWorkspace(x, r)} \cup Scales(x, r))

(* A group without rows has no blocks, one without any k has blocks that   *)
(* both sides pass over: the block mmad never gets to its callback, and    *)
(* the epilogue returns before its own.                                    *)
SliceMPerTokenDequantAic(s, core) == EveryBlock(s, core, LAMBDA x : Operands(s, x))

SliceMPerTokenDequantAiv(s, core) ==
    EveryBlockOut(s, core, InTurn, LAMBDA x, r : {InWorkspace(x, r)} \cup Scales(x, r))

SliceKPerTokenDequantAic(s, core) == EveryBlock(s, core, LAMBDA x : Operands(s, x))

SliceKPerTokenDequantAiv(s, core) ==
    EveryBlockOut(s, core, InTurn, LAMBDA x, r : {InWorkspace(x, r)} \cup Scales(x, r))

-----------------------------------------------------------------------------
(* A workspace of WORKSPACE_STAGES blocks for every cube core.  Before it  *)
(* uses a stage again, it waits until its vector cores have read it.       *)
StageOf(n) == (n - 1) % WORKSPACE_STAGES

StoreFlag(stage) == 2 * stage

ComputeFlag(stage) == 2 * stage + 1

InStage(i, n, r, x) == <<"W", i, StageOf(n), r - Min(x.b[2])>>

AicWait(core, n) == When(n > WORKSPACE_STAGES, AwaitPartners(core, ComputeFlag(StageOf(n))))

AicSet(core, n) == SetPartners(core, "FIX", StoreFlag(StageOf(n)))

(* At the end, the stages that have not been waited for. *)
AwaitStages(core, blocks) ==
    LET used == Min({blocks, WORKSPACE_STAGES})
    IN For(blocks - used + 1, blocks, LAMBDA n : AwaitPartners(core, ComputeFlag(StageOf(n))))

MultiStage(s, core) ==
    LET blocks == Blocks(s, core[2])
    IN CubeCore(EachOf(blocks, LAMBDA n :
         LET x == blocks[n]
         IN AicWait(core, n)
            \o CallMmad(n, Operands(s, x), Stored(x, LAMBDA r : InStage(core[2], n, r, x)))
            \o AicSet(core, n)))
       \o AwaitStages(core, Len(blocks))

MultiStageOut(s, core) ==
    LET i == AicOf(core[2])[2]
        blocks == Blocks(s, i)
    IN VectorCore(EachOf(blocks, LAMBDA n :
         LET x == blocks[n]
         IN AwaitPartners(core, StoreFlag(StageOf(n)))
            \o Epilogue(x, InTurn(x, core), LAMBDA r : {InStage(i, n, r, x)} \cup Scales(x, r))
            \o SetPartners(core, "MTE3", ComputeFlag(StageOf(n)))))

QuantMatmulMultiStageAic(s, core) == MultiStage(s, core)

QuantMatmulMultiStageAiv(s, core) == MultiStageOut(s, core)

(* The stages run on from group to group. *)
SliceMMultiStageAic(s, core) == MultiStage(s, core)

SliceMMultiStageAiv(s, core) == MultiStageOut(s, core)

W4A4PerTokenPerChannelDequantAic(s, core) == MultiStage(s, core)

W4A4PerTokenPerChannelDequantAiv(s, core) == MultiStageOut(s, core)

(* With a block mmad that multiplies a tile only when the next ones have   *)
(* been asked for, waiting and setting are its callbacks.                  *)
Async ==
    INSTANCE BlockMmadPreloadAsync
        WITH Stages <- 2, PreloadStages <- 1, L0AStages <- 2, L0BStages <- 2, L0CStages <- 1,
             L1TileK <- 8, L0TileK <- 8, CallK <- <<8, 16, 8, 8>>, StartTile <- 0, UnitFlag <- FALSE

AsyncAic(s, core) ==
    LET stream == Async!CallbackStream([c \in 1..4 |-> AicWait(core, c)], [c \in 1..4 |-> AicSet(core, c)])
    IN [n \in DOMAIN stream |->
          LET ins == stream[n]
          IN IF ins.op = "do" /\ ins.dst[1] = "C" THEN [ins EXCEPT !.dst = <<"W", StageOf(ins.dst[2])>>] ELSE ins]
       \o AwaitStages(core, 4)

AsyncAiv(s, core) ==
    VectorCore(For(1, 4, LAMBDA c :
        AwaitPartners(core, StoreFlag(StageOf(c)))
        \o VectorTile(c, {<<"W", StageOf(c)>>}, <<"D", c, SubBlockIdx(core[2])>>)
        \o SetPartners(core, "MTE3", ComputeFlag(StageOf(c)))))

AsyncExpected == [d \in {"D"} \X (1..4) \X {0, 1} |-> Async!Product(d[2])]

-----------------------------------------------------------------------------
(* gemm and group_gemm: before a group is multiplied its operands are      *)
(* copied to the workspace, padded, by all vector cores (PaddingMatrixND): *)
(* each has rows that follow each other.  The blocks are dealt row by row, *)
(* a call loads the operands of the next one, and there are several        *)
(* accumulators.                                                           *)
L0CBlockNum == 2

PaddingMatrixND(src, dst, g, rows) ==
    << SetFlag("MTE3", "MTE2", 0), SetFlag("MTE3", "MTE2", 1) >>
    \o EachOf(rows, LAMBDA i :
         LET bufferIndex == (i - 1) % 2
         IN << WaitFlag("MTE3", "MTE2", bufferIndex),
               Copy("MTE2", <<"UB", "in", bufferIndex>>, <<src, g, rows[i]>>) >>
            \o Sync("MTE2", "MTE3", bufferIndex)
            \o << Copy("MTE3", <<dst, g, rows[i]>>, <<"UB", "in", bufferIndex>>),
                  SetFlag("MTE3", "MTE2", bufferIndex) >>)
    \o << WaitFlag("MTE3", "MTE2", 0), WaitFlag("MTE3", "MTE2", 1) >>

(* group_gemm.hpp has its own copy of it. *)
GroupPaddingMatrixND(src, dst, g, rows) == PaddingMatrixND(src, dst, g, rows)

PadGroup(s, core, g, Padding(_, _, _, _)) ==
    LET aivNum == SubBlockNum * s.aics
        p == s.groups[g]
    IN When(s.padA, Padding("A", "WA", g, PaddedRows(p.shape[2], aivNum, core[2])))
       \o When(s.padB, Padding("B", "WB", g, PaddedRows(p.shape[3], aivNum, core[2])))
       \o When(s.padA \/ s.padB,
               CrossCoreBarrier(core, "MTE3", AllAivs(s.aics)) \o SetPartners(core, "MTE3", 0))

PaddedOperands(s, x) ==
    {<<IF s.padA THEN "WA" ELSE "A", x.g, r>> : r \in x.b[2]}
    \cup {<<IF s.padB THEN "WB" ELSE "B", x.g, j>> : j \in x.b[3]}

GemmBlocks(s, i) == CoreBlocks(s, i, InOrderBlock)

OfGroup(blocks, g) == SelectSeq([n \in DOMAIN blocks |-> n], LAMBDA n : blocks[n].g = g)

(* The calls of a group; calls numbers the blocks of the core. *)
GemmGroup(s, core, blocks, calls) ==
    LET Ring(i) == (i - 1) % L0CBlockNum
        Sources(n) == PaddedOperands(s, blocks[n])
    IN For(0, L0CBlockNum - 1, LAMBDA i : << SetFlag("FIX", "M", i) >>)
       \o EachOf(calls, LAMBDA i :
            LET n == calls[i]
                dsts == Stored(blocks[n], LAMBDA r : InWorkspace(blocks[n], r))
            IN << WaitFlag("FIX", "M", Ring(i)) >>
               \o When(i = 1, LoadBlock(n, Sources(n)))
               \o When(i < Len(calls), LoadBlock(n + 1, Sources(n + 1)))
               \o << WaitFlag("MTE2", "M", n % 2), Copy("M", <<"L0C", Ring(i)>>, <<"L1", n % 2>>),
                     SetFlag("M", "MTE2", n % 2) >>
               \o Sync("M", "FIX", Ring(i))
               \o [j \in DOMAIN dsts |-> Do("FIX", dsts[j][1], {<<"L0C", Ring(i)>>}, <<"apply", dsts[j][2]>>)]
               \o SetFlagWithReverse(core, "FIX", 0, 1, n)
               \o << SetFlag("FIX", "M", Ring(i)) >>)
       \o For(0, L0CBlockNum - 1, LAMBDA i : << WaitFlag("FIX", "M", i) >>)

(* The block gemm's own buffers. *)
BlockGemm(stream) ==
    << SetFlag("M", "MTE2", 0), SetFlag("M", "MTE2", 1) >> \o stream
    \o << WaitFlag("M", "MTE2", 0), WaitFlag("M", "MTE2", 1) >>

KernelGemmAic(s, core) ==
    LET blocks == GemmBlocks(s, core[2])
    IN When(s.padA \/ s.padB, AwaitPartners(core, 0))
       \o BlockGemm(GemmGroup(s, core, blocks, OfGroup(blocks, 1)))

(* D = alpha * A * B + beta * X *)
GemmEpilogue(s, core, g) ==
    LET blocks == GemmBlocks(s, AicOf(core[2])[2])
        calls == OfGroup(blocks, g)
    IN VectorCore(EachOf(calls, LAMBDA i :
         LET x == blocks[calls[i]]
         IN WaitFlagWithReverse(core, "MTE3", 0, 1, calls[i])
            \o Epilogue(x, Halves(x, core), LAMBDA r : {InWorkspace(x, r), <<"X">> \o Label(x, r)})))

KernelGemmAiv(s, core) == PadGroup(s, core, 1, PaddingMatrixND) \o GemmEpilogue(s, core, 1)

KernelGroupGemmAic(s, core) ==
    LET blocks == GemmBlocks(s, core[2])
    IN BlockGemm(For(1, Len(s.groups), LAMBDA g :
         AwaitPartners(core, 0) \o GemmGroup(s, core, blocks, OfGroup(blocks, g))))

(* An epilogue object lives for a group. *)
KernelGroupGemmAiv(s, core) ==
    For(1, Len(s.groups), LAMBDA g : PadGroup(s, core, g, GroupPaddingMatrixND) \o GemmEpilogue(s, core, g))

-----------------------------------------------------------------------------
(* Every row of every block of the result is made of the product and of    *)
(* the other sources, each once.                                           *)
ExpectedOf(s, BlockAt(_, _), SourcesOf(_, _)) ==
    LET all == UNION {{[g |-> g, b |-> BlockAt(s.groups[g], t)] : t \in 0..(CoreLoops(s.groups[g]) - 1)} :
                      g \in DOMAIN s.groups}
        written == {x \in all : x.b[4] # {}}
        rows == UNION {{<<x, r>> : r \in x.b[2]} : x \in written}
    IN [d \in {Result(w[1], w[2]) : w \in rows} |->
          LET w == CHOOSE v \in rows : Result(v[1], v[2]) = d
          IN ProductOf(Operands(s, w[1]), Label(w[1], w[2])) (+) SetToBag(SourcesOf(w[1], w[2]))]

EpilogueProblem(shapes, aics, padA, padB) ==
    [groups |-> [g \in DOMAIN shapes |->
                   [shape |-> <<1>> \o shapes[g], tile |-> <<1, 2, 3, 2>>, offset |-> 2, direction |-> 1]],
     cores |-> aics, aics |-> aics, padA |-> padA, padB |-> padB]

(* An odd number of rows, more blocks than flags may be ahead, groups that *)
(* are empty.                                                              *)
EpiloguePrograms ==
    LET one == EpilogueProblem(<< <<5, 6, 1>> >>, 2, FALSE, FALSE)
        long == EpilogueProblem(<< <<3, 8, 1>> >>, 1, FALSE, FALSE)
        slicesOfM == EpilogueProblem(<< <<3, 4, 1>>, <<0, 4, 1>>, <<2, 4, 1>> >>, 2, FALSE, FALSE)
        slicesOfK == EpilogueProblem(<< <<3, 2, 2>>, <<3, 2, 0>>, <<3, 2, 1>> >>, 2, FALSE, FALSE)
        padded == EpilogueProblem(<< <<3, 5, 1>> >>, 2, TRUE, FALSE)
        groups == EpilogueProblem(<< <<3, 4, 1>>, <<2, 2, 1>> >>, 2, TRUE, TRUE)
        OfX(x, r) == {Result(x, r)}
        Nothing(x, r) == {}
        OfC(x, r) == {<<"X">> \o Label(x, r)}
        async == EpilogueProblem(<< >>, 1, FALSE, FALSE)
    IN "matmul epilogue" :>
         KernelProgram(one, MatmulEpilogueAic, MatmulEpilogueAiv, ExpectedOf(one, IdentityBlock, OfX))
       @@ "matmul activation" :>
         KernelProgram(long, MatmulActivationAic, MatmulActivationAiv, ExpectedOf(long, IdentityBlock, Nothing))
       @@ "quant matmul" :>
         KernelProgram(long, QuantMatmulAic, QuantMatmulAiv, ExpectedOf(long, IdentityBlock, Scales))
       @@ "grouped matmul slice M per token dequant" :>
         KernelProgram(slicesOfM, SliceMPerTokenDequantAic, SliceMPerTokenDequantAiv,
                       ExpectedOf(slicesOfM, IdentityBlock, Scales))
       @@ "grouped matmul slice K per token dequant" :>
         KernelProgram(slicesOfK, SliceKPerTokenDequantAic, SliceKPerTokenDequantAiv,
                       ExpectedOf(slicesOfK, IdentityBlock, Scales))
       @@ "quant matmul multi stage" :>
         KernelProgram(long, QuantMatmulMultiStageAic, QuantMatmulMultiStageAiv, ExpectedOf(long, IdentityBlock, Scales))
       @@ "grouped matmul slice M multi stage" :>
         KernelProgram(slicesOfM, SliceMMultiStageAic, SliceMMultiStageAiv,
                       ExpectedOf(slicesOfM, IdentityBlock, Scales))
       @@ "w4a4 matmul per token per channel dequant" :>
         KernelProgram(one, W4A4PerTokenPerChannelDequantAic, W4A4PerTokenPerChannelDequantAiv,
                       ExpectedOf(one, IdentityBlock, Scales))
       @@ "async multi stage" :> KernelProgram(async, AsyncAic, AsyncAiv, AsyncExpected)
       @@ "gemm" :> KernelProgram(padded, KernelGemmAic, KernelGemmAiv, ExpectedOf(padded, InOrderBlock, OfC))
       @@ "group gemm" :>
         KernelProgram(groups, KernelGroupGemmAic, KernelGroupGemmAiv, ExpectedOf(groups, InOrderBlock, OfC))
===============================================================================
