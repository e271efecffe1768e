---------------------------- MODULE BlockPrograms ----------------------------
(***************************************************************************)
(* The pipe programs of the block modules, side by side on PipeMachine:    *)
(* calls chosen so that buffers are handed over within a tile, from tile   *)
(* to tile and from call to call, with odd, even and empty loops.          *)
(***************************************************************************)
EXTENDS PipeMachine, PipeInstructions, TLC

(* Three calls of one object: a block of three L1 tiles the last of which  *)
(* is short, a block of one tile, and a block of two full tiles.           *)
Ks == <<20, 4, 16>>

Pingpong ==
    INSTANCE BlockMmadPingpong
        WITH Stages <- 2, L1TileK <- 8, L0TileK <- 4, CallK <- Ks, StartTile <- 0, UnitFlag <- FALSE,
             NewA <- <<TRUE, FALSE, TRUE>>

PingpongUnitFlag ==
    INSTANCE BlockMmadPingpong
        WITH Stages <- 2, L1TileK <- 8, L0TileK <- 4, CallK <- Ks, StartTile <- 0, UnitFlag <- TRUE,
             NewA <- <<TRUE, TRUE, FALSE>>

(* Without the unit flag the cores begin k at the same tile, with it this  *)
(* one begins at its second.                                               *)
Preload ==
    INSTANCE BlockMmadPreload
        WITH Stages <- 2, L1TileK <- 8, L0TileK <- 4, CallK <- Ks, StartTile <- 0, UnitFlag <- FALSE,
             SplitCalls <- {2}, L0CBlockNum <- 2, Abba <- TRUE

PreloadShuffled ==
    INSTANCE BlockMmadPreload
        WITH Stages <- 2, L1TileK <- 8, L0TileK <- 4, CallK <- Ks, StartTile <- 1, UnitFlag <- TRUE,
             SplitCalls <- {1, 3}, L0CBlockNum <- 1, Abba <- FALSE

(* A tile is multiplied one or two tiles after it has been asked for. *)
Async ==
    INSTANCE BlockMmadPreloadAsync
        WITH Stages <- 2, PreloadStages <- 1, L0AStages <- 2, L0BStages <- 2, L0CStages <- 2,
             L1TileK <- 8, L0TileK <- 4, CallK <- Ks, StartTile <- 0, UnitFlag <- FALSE

AsyncUnitFlag ==
    INSTANCE BlockMmadPreloadAsync
        WITH Stages <- 3, PreloadStages <- 2, L0AStages <- 2, L0BStages <- 4, L0CStages <- 1,
             L1TileK <- 8, L0TileK <- 4, CallK <- Ks, StartTile <- 1, UnitFlag <- TRUE

(* A snake through two blocks of m, two of n and two of k: what of the     *)
(* next block is on L1 already changes from call to call.                  *)
SnakeBlocks ==
    LET Block(m, n, k) ==
          [m |-> m, n |-> n, k |-> k, mLoops |-> 2 - m, nLoops |-> 2, kLoops |-> 3 - 2 * k]
    IN << Block(0, 0, 0), Block(0, 1, 0), Block(1, 1, 0), Block(1, 0, 0),
          Block(0, 0, 1), Block(0, 1, 1), Block(1, 1, 1), Block(1, 0, 1) >>

Splitk ==
    INSTANCE BlockMmadSplitk
        WITH L1AStages <- 2, L1BStages <- 1, L0CStages <- 2, Blocks <- SnakeBlocks, UnitFlag <- FALSE

SplitkUnitFlag ==
    INSTANCE BlockMmadSplitk
        WITH L1AStages <- 1, L1BStages <- 2, L0CStages <- 1, Blocks <- SnakeBlocks, UnitFlag <- TRUE

(* Blocks of one k tile, the last part of one of which is short. *)
Small ==
    INSTANCE BlockMmadPingpong
        WITH Stages <- 2, L1TileK <- 8, L0TileK <- 4, CallK <- <<8, 3, 8>>, StartTile <- 0, UnitFlag <- FALSE,
             NewA <- <<TRUE, FALSE, TRUE>>

SmallUnitFlag ==
    INSTANCE BlockMmadPingpong
        WITH Stages <- 2, L1TileK <- 8, L0TileK <- 4, CallK <- <<8, 3, 8>>, StartTile <- 0, UnitFlag <- TRUE,
             NewA <- <<TRUE, FALSE, TRUE>>

GemmShuffled ==
    INSTANCE BlockMmadPreload
        WITH Stages <- 2, L1TileK <- 8, L0TileK <- 4, CallK <- Ks, StartTile <- 1, UnitFlag <- FALSE,
             SplitCalls <- {}, L0CBlockNum <- 1, Abba <- FALSE

W4A4 ==
    INSTANCE BlockMmadPreloadAsync
        WITH Stages <- 2, PreloadStages <- 1, L0AStages <- 2, L0BStages <- 2, L0CStages <- 2,
             L1TileK <- 8, L0TileK <- 4, CallK <- Ks, StartTile <- 0, UnitFlag <- FALSE

(* Blocks of one tile, so that two blocks are pending. *)
W4A4UnitFlag ==
    INSTANCE BlockMmadPreloadAsync
        WITH Stages <- 3, PreloadStages <- 2, L0AStages <- 2, L0BStages <- 4, L0CStages <- 1,
             L1TileK <- 8, L0TileK <- 4, CallK <- <<20, 4, 4>>, StartTile <- 1, UnitFlag <- TRUE

VectorMmad == INSTANCE BlockMmadAiv WITH STAGES <- 2, MTiles <- <<1, 2, 3>>

(* Three blocks on two cube cores and their vector cores. *)
Widened ==
    INSTANCE BlockMmadPrologue
        WITH Stages <- 2, L1TileK <- 6, L0TileK <- 3, CallK <- <<15, 15>>, StartTile <- 0, UnitFlag <- FALSE,
             AicoreNum <- 2, CoreLoops <- 3, TilesPerLoop <- 2, REVERSE_DEPTH <- 2

(* Two slices of k, two small blocks. *)
Sliced ==
    INSTANCE BlockMmadSliceK
        WITH Stages <- 2, L1TileK <- 4, L0TileK <- 2, CallK <- <<6, 6, 3, 3, 6, 6, 3, 3>>, StartTile <- 0,
             UnitFlag <- FALSE, AicoreNum <- 2, CoreLoops <- 3, TilesPerLoop <- 1, REVERSE_DEPTH <- 2,
             SliceK <- <<6, 3>>, BlockM <- 3, BlockN <- 3, L1TileM <- 3, L1TileN <- 2

(* All of k is one slice. *)
SlicedOnce ==
    INSTANCE BlockMmadSliceK
        WITH Stages <- 2, L1TileK <- 4, L0TileK <- 2, CallK <- <<3, 3, 3, 3>>, StartTile <- 0, UnitFlag <- TRUE,
             AicoreNum <- 1, CoreLoops <- 2, TilesPerLoop <- 2, REVERSE_DEPTH <- 2,
             SliceK <- <<3>>, BlockM <- 3, BlockN <- 2, L1TileM <- 2, L1TileN <- 2

(* A block without rows between others. *)
BlockEpiloguesOf == INSTANCE BlockEpilogues WITH Tiles <- <<3, 0, 1, 4>>, UB_STAGES <- 2, REVERSE_DEPTH <- 2

(* Matrix times vector, with the epilogue of two vector cores. *)
GemvOf ==
    INSTANCE Gemv
        WITH Stages <- 2, L1TileK <- 8, L0TileK <- 4, CallK <- <<20, 20, 20>>, StartTile <- 1, UnitFlag <- FALSE,
             L0CTileNum <- 2, REVERSE_DEPTH <- 2

GemvVector ==
    INSTANCE Gemv
        WITH Stages <- 2, L1TileK <- 8, L0TileK <- 4, CallK <- <<20, 4, 16>>, StartTile <- 0, UnitFlag <- FALSE,
             L0CTileNum <- 1, REVERSE_DEPTH <- 2

(* Convolution: an odd number of tiles of the feature map and two of them  *)
(* to a filter tile.                                                       *)
Conv2d ==
    INSTANCE BlockConv2d
        WITH Stages <- 2, L1BStages <- 2, L0AStages <- 2, L0BStages <- 2, KFmapPerFilter <- 2, NParts <- 2,
             L1TileK <- 4, L0TileK <- 2, CallK <- <<18, 3, 8>>, StartTile <- 0, UnitFlag <- FALSE

Conv2dUnitFlag ==
    INSTANCE BlockConv2d
        WITH Stages <- 2, L1BStages <- 2, L0AStages <- 1, L0BStages <- 2, KFmapPerFilter <- 1, NParts <- 2,
             L1TileK <- 4, L0TileK <- 2, CallK <- <<10, 3, 8>>, StartTile <- 0, UnitFlag <- TRUE

(* Output tiles that share their operands on L1, or have them anew. *)
Wide ==
    << [batches |-> 1, depth |-> 1, m |-> <<2, 1>>, n |-> <<1>>],
       [batches |-> 1, depth |-> 1, m |-> <<1>>, n |-> <<2>>] >>

Deep ==
    << [batches |-> 1, depth |-> 1, m |-> <<1>>, n |-> <<1>>],
       [batches |-> 1, depth |-> 1, m |-> <<1>>, n |-> <<1, 1>>] >>

(* All of the feature map on L1 with one tile of padding, the feature map  *)
(* loaded ahead, both loaded ahead, and all of the filter on L1.           *)
Conv3dPadded ==
    INSTANCE BlockConv3d
        WITH L1AStages <- 2, L1BStages <- 1, UnitFlag <- FALSE, KLoops <- 3, MultiA <- 3, MultiB <- 2,
             Padded <- TRUE, FullPad <- {<<1, 2, 0>>}, ConvCalls <- Wide

Conv3dAhead ==
    INSTANCE BlockConv3d
        WITH L1AStages <- 2, L1BStages <- 1, UnitFlag <- TRUE, KLoops <- 6, MultiA <- 2, MultiB <- 4,
             Padded <- FALSE, FullPad <- {}, ConvCalls <- Deep

Conv3dBothAhead ==
    INSTANCE BlockConv3d
        WITH L1AStages <- 2, L1BStages <- 2, UnitFlag <- FALSE, KLoops <- 6, MultiA <- 2, MultiB <- 3,
             Padded <- FALSE, FullPad <- {}, ConvCalls <- Deep

Conv3dFilterKept ==
    INSTANCE BlockConv3d
        WITH L1AStages <- 2, L1BStages <- 2, UnitFlag <- FALSE, KLoops <- 3, MultiA <- 1, MultiB <- 3,
             Padded <- FALSE, FullPad <- {}, ConvCalls <- Wide

(* An odd and an even number of other ranks; eight ranks; calls with an    *)
(* odd number of tiles, an even number, and none at all, as for a vector   *)
(* core beyond the number of rows.                                         *)
Comm4 ==
    INSTANCE BlockComms WITH RankSize <- 4, RoundCount <- 3, CoreLoops <- 3, GatherLoops <- <<3, 4, 0>>

Comm5 ==
    INSTANCE BlockComms WITH RankSize <- 5, RoundCount <- 3, CoreLoops <- 3, GatherLoops <- <<3, 4, 0>>

(* Kernels: their cube and vector cores together. *)
Reduce ==
    INSTANCE ReduceKernels
        WITH COMPUTE_LENGTH <- 12, ELE_PER_VECTOR_BLOCK <- 2, KUnit <- 4, REVERSE_DEPTH <- 2, L2_TILE_THRESHOLD <- 0

Epilogues ==
    INSTANCE EpilogueKernels WITH WORKSPACE_STAGES <- 2, REVERSE_DEPTH <- 2, L2_TILE_THRESHOLD <- 0

PaddingKernelsOf == INSTANCE PaddingKernels WITH REVERSE_DEPTH <- 2, L2_TILE_THRESHOLD <- 0

(* Padding: rows that fit into a buffer and rows that do not, and four     *)
(* fractals to a buffer.                                                   *)
Padding16 ==
    INSTANCE Paddings
        WITH COMPUTE_LENGTH <- 16, ELE_NUM_PER_C0 <- 4, C0_NUM_PER_FRACTAL <- 4, VNCHW_SIZE <- 4, RowUnit <- 10

Padding64 ==
    INSTANCE Paddings
        WITH COMPUTE_LENGTH <- 64, ELE_NUM_PER_C0 <- 4, C0_NUM_PER_FRACTAL <- 4, VNCHW_SIZE <- 4, RowUnit <- 10

(* A ring of PRE_LAUNCH + 1 slots: three flags may be waiting. *)
FlashAttention ==
    INSTANCE FlashAttentionInfer
        WITH PAGE <- 4, STACK_NUM <- 2, MAX_UB_S_ELEM_NUM <- 8, REVERSE_DEPTH <- 2

ASSUME ParametersAssumption ==
    /\ PingpongUnitFlag!ParametersOK /\ Pingpong!ParametersOK
    /\ Preload!ParametersOK /\ PreloadShuffled!ParametersOK
    /\ Async!AsyncParametersOK /\ AsyncUnitFlag!AsyncParametersOK
    /\ Splitk!ParametersOK /\ SplitkUnitFlag!ParametersOK
    /\ Small!SmallParametersOK /\ SmallUnitFlag!SmallParametersOK
    /\ Preload!GemmParametersOK /\ GemmShuffled!GemmParametersOK
    /\ W4A4!AsyncParametersOK /\ W4A4UnitFlag!AsyncParametersOK
    /\ VectorMmad!ParametersOK
    /\ Widened!PrologueParametersOK
    /\ Sliced!SliceParametersOK /\ SlicedOnce!SliceParametersOK
    /\ GemvOf!GemvParametersOK /\ GemvVector!GemvParametersOK
    /\ Conv2d!Conv2dParametersOK /\ Conv2dUnitFlag!Conv2dParametersOK
    /\ Conv3dPadded!Conv3dParametersOK /\ Conv3dAhead!Conv3dParametersOK
    /\ Conv3dBothAhead!Conv3dParametersOK /\ Conv3dFilterKept!Conv3dParametersOK
    /\ BlockEpiloguesOf!ParametersOK
    /\ Comm4!CommParametersOK /\ Comm5!CommParametersOK
    /\ Padding64!ParametersOK
    /\ FlashAttention!FaParametersOK

(* One core, in all orders and in one. *)
AllOrders(stream, expected) == Loaded(On("core", stream), expected, TRUE)

OneOrder(stream, expected) == Loaded(On("core", stream), expected, FALSE)

BlockPrograms ==
    "pingpong" :> AllOrders(Pingpong!Stream, Pingpong!Expected)
    @@ "pingpong with unit flag" :> AllOrders(PingpongUnitFlag!Stream, PingpongUnitFlag!Expected)
    @@ "pingpong with tla tensors" :> OneOrder(Pingpong!TlaStream, Pingpong!Expected)
    @@ "pingpong with bias" :> OneOrder(Pingpong!BiasStream, Pingpong!BiasExpected)
    @@ "pingpong with bias and unit flag" :> OneOrder(PingpongUnitFlag!BiasStream, PingpongUnitFlag!BiasExpected)
    @@ "pingpong with all of A" :> OneOrder(Pingpong!FullLoadAStream, Pingpong!FullLoadAExpected)
    @@ "pingpong with all of A and unit flag" :>
         OneOrder(PingpongUnitFlag!FullLoadAStream, PingpongUnitFlag!FullLoadAExpected)
    @@ "preload" :> OneOrder(Preload!Stream, Preload!Expected)
    @@ "preload shuffled" :> OneOrder(PreloadShuffled!Stream, PreloadShuffled!Expected)
    @@ "preload tla" :> OneOrder(Preload!TlaStream, Preload!Expected)
    @@ "preload tla dynamic" :> OneOrder(PreloadShuffled!TlaDynamicStream, PreloadShuffled!Expected)
    @@ "streamk" :> OneOrder(Preload!StreamkStream, Preload!StreamkExpected)
    @@ "streamk shuffled" :> OneOrder(PreloadShuffled!StreamkStream, PreloadShuffled!StreamkExpected)
    @@ "dynamic common" :> OneOrder(Preload!DynamicStream, Preload!Expected)
    @@ "dynamic streamk" :> OneOrder(PreloadShuffled!DynamicStreamkStream, PreloadShuffled!StreamkExpected)
    @@ "async" :> OneOrder(Async!Stream, Async!Expected)
    @@ "async with unit flag" :> OneOrder(AsyncUnitFlag!Stream, AsyncUnitFlag!Expected)
    @@ "single core split-k" :> OneOrder(Splitk!Stream, Splitk!Expected)
    @@ "dynamic single core split-k" :> OneOrder(SplitkUnitFlag!DynamicStream, SplitkUnitFlag!Expected)
    @@ "small" :> OneOrder(Small!SmallStream, Small!Expected)
    @@ "small with unit flag" :> OneOrder(SmallUnitFlag!SmallStream, SmallUnitFlag!Expected)
    @@ "dynamic small" :> OneOrder(Small!DynamicSmallStream, Small!Expected)
    @@ "gemm block" :> OneOrder(Preload!GemmStream, Preload!Expected)
    @@ "gemm block shuffled" :> OneOrder(GemmShuffled!GemmStream, GemmShuffled!Expected)
    @@ "w4a4 block" :> OneOrder(W4A4!W4A4Stream, W4A4!W4A4Expected)
    @@ "w4a4 block with unit flag" :> OneOrder(W4A4UnitFlag!W4A4Stream, W4A4UnitFlag!W4A4Expected)
    @@ "vector mmad staged" :> OneOrder(VectorMmad!StagedStream, VectorMmad!StagedExpected)
    @@ "vector mmad simple" :> OneOrder(VectorMmad!SimpleStream, VectorMmad!SimpleExpected)
    @@ "vector mmad transposed" :> OneOrder(VectorMmad!TransStream, VectorMmad!TransExpected)
    @@ "w8a16" :> Widened!PrologueProgram(Widened!W8A16Aic, Widened!W8A16Aiv, Widened!Int8Wide)
    @@ "w4a8" :> Widened!PrologueProgram(Widened!W4A8Aic, Widened!W4A8Aiv, Widened!Int4Wide)
    @@ "fp8" :> Sliced!SliceProgram
    @@ "fp8 in one slice" :> SlicedOnce!SliceProgram
    @@ "gemv" :> GemvOf!GemvAicProgram
    @@ "gemv on vector cores" :> OneOrder(GemvVector!GemvAivStream, GemvVector!GemvAivExpected)
    @@ "conv2d" :> OneOrder(Conv2d!Conv2dStream, Conv2d!Conv2dExpected)
    @@ "conv2d with unit flag" :> OneOrder(Conv2dUnitFlag!Conv2dStream, Conv2dUnitFlag!Conv2dExpected)
    @@ "conv3d padded" :> OneOrder(Conv3dPadded!Conv3dStream, Conv3dPadded!Conv3dExpected)
    @@ "conv3d ahead" :> OneOrder(Conv3dAhead!Conv3dStream, Conv3dAhead!Conv3dExpected)
    @@ "conv3d both ahead" :> OneOrder(Conv3dBothAhead!Conv3dStream, Conv3dBothAhead!Conv3dExpected)
    @@ "conv3d filter kept" :> OneOrder(Conv3dFilterKept!Conv3dStream, Conv3dFilterKept!Conv3dExpected)
    @@ "reduce-scatter of 4" :> AllOrders(Comm4!ReduceScatterStream, Comm4!ReduceScatterExpected)
    @@ "reduce-scatter of 5" :> AllOrders(Comm5!ReduceScatterStream, Comm5!ReduceScatterExpected)
    @@ "all-gather" :> AllOrders(Comm4!AllGatherStream, Comm4!AllGatherExpected)
    @@ "all-reduce" :> AllOrders(Comm4!AllReduceStream, Comm4!AllReduceExpected)
    @@ BlockEpiloguesOf!BlockEpiloguePrograms
    @@ Reduce!ReducePrograms
    @@ Epilogues!EpiloguePrograms
    @@ PaddingKernelsOf!PaddingPrograms
    @@ Padding16!PaddingPipePrograms
    @@ Padding64!PaddingNZPrograms
    @@ FlashAttention!FlashAttentionPrograms

(* TLC evaluates the value of a constant once only if it is given by name, *)
(* and counts the evaluations inside of a constant only without a LET.     *)
AllPrograms == LET programs == BlockPrograms IN programs
==============================================================================
