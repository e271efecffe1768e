---------------------------- MODULE ReduceKernels -----------------------------
(***************************************************************************)
(* The kernels whose cube cores multiply parts of the k axis into a        *)
(* workspace, which the vector cores add up (splitk_matmul.hpp,            *)
(* padding_splitk_matmul.hpp, dynamic_padding_multi_core_splitk_matmul.hpp,*)
(* streamk_matmul.hpp, dynamic_padding_streamk_matmul.hpp).                *)
(*                                                                         *)
(* A problem s is one of BlockSwizzles, whose cores are the slices of a    *)
(* split-k and the cube cores of a stream-k; aics are the cube cores, padA *)
(* and padB say which operands the vector cores copy to the workspace      *)
(* first.  Workspace and result are looked at element by element.          *)
(***************************************************************************)
EXTENDS BlockSwizzles, KernelInstructions, TLC

CONSTANTS
    COMPUTE_LENGTH,         \* elements of a UB buffer
    ELE_PER_VECTOR_BLOCK,   \* elements a vector instruction takes at once
    KUnit                   \* stands for 1024 in GetSplitkFactor

Operands(s, b) == {ARow(s, r) : r \in b[2]} \cup {BColumn(s, j) : j \in b[3]}

Label(r, j, ks) == <<r, j, Min(ks), Max(ks)>>

(* The elements of a block with the buffers they are stored in. *)
Stored(b, BufferOf(_, _)) ==
    LET rows == InOrder(b[2])  columns == InOrder(b[3])
    IN FlattenSeq([x \in DOMAIN rows |->
         [y \in DOMAIN columns |-> <<BufferOf(rows[x], columns[y]), Label(rows[x], columns[y], b[4])>>]])

-----------------------------------------------------------------------------
GetSplitkFactor(s) ==
    LET k == s.shape[4]
        maxSplitkFactor == IF k <= KUnit THEN 2 ELSE IF k <= 2 * KUnit THEN 4
                           ELSE IF k <= 4 * KUnit THEN 8 ELSE 16
        base == CoreLoops(s)
        start == Max({1, Min({s.aics \div base, maxSplitkFactor})})
        Larger(f, i) ==
          IF /\ base < s.aics
             /\ f + 1 <= maxSplitkFactor
             /\ CeilDiv(base * f, s.aics) >= CeilDiv(base, s.aics) * f
          THEN f + 1 ELSE f
        found == Min({Loops(s)[4], FoldLeft(Larger, start, [i \in 1..16 |-> i])})
    IN IF k > 32 * KUnit THEN Max({found, 4}) ELSE IF k > 8 * KUnit THEN Max({found, 2}) ELSE found

PaddingGetSplitkFactor(s) == GetSplitkFactor(s)

(* SplitkReduceAdd with STAGES buffers: the vector core's share of the     *)
(* elements, tile by tile.                                                 *)
ReduceStages == 2

SplitkReduceAdd(s, core) ==
    LET elementCount == s.shape[2] * s.shape[3]
        splitkFactor == s.cores
        aivNum == SubBlockNum * s.aics
        wanted == Max({ELE_PER_VECTOR_BLOCK, RoundUp(elementCount \div aivNum, ELE_PER_VECTOR_BLOCK)})
        most == ((COMPUTE_LENGTH \div splitkFactor) \div ELE_PER_VECTOR_BLOCK) * ELE_PER_VECTOR_BLOCK
        taskPerAiv == Min({wanted, most})
        loops == CeilDiv(elementCount, taskPerAiv)
        Tile(x) ==
          LET loopIdx == core[2] + (x - 1) * aivNum
              tileLen == IF loopIdx = loops - 1 THEN elementCount - loopIdx * taskPerAiv ELSE taskPerAiv
              stage == (x - 1) % ReduceStages
              Acc(slice, e) == <<"UB", "acc", stage, slice, e>>
          IN << WaitFlag("MTE3", "MTE2", stage) >>
             \o For(0, splitkFactor - 1, LAMBDA slice : For(0, tileLen - 1, LAMBDA e :
                  << Copy("MTE2", Acc(slice, e), <<"W", slice, loopIdx * taskPerAiv + e>>) >>))
             \o Sync("MTE2", "V", stage)
             \o For(1, splitkFactor - 1, LAMBDA slice : For(0, tileLen - 1, LAMBDA e :
                  << Add("V", Acc(0, e), {Acc(0, e), Acc(slice, e)}) >>))
             \o Sync("V", "MTE3", stage)
             \o For(0, tileLen - 1, LAMBDA e :
                  << Copy("MTE3", <<"C", loopIdx * taskPerAiv + e>>, Acc(0, e)) >>)
             \o << SetFlag("MTE3", "MTE2", stage) >>
    IN For(0, ReduceStages - 1, LAMBDA i : << SetFlag("MTE3", "MTE2", i) >>)
       \o EachOf(TasksOf(core[2], loops, aivNum), Tile)
       \o For(0, ReduceStages - 1, LAMBDA i : << WaitFlag("MTE3", "MTE2", i) >>)

(* Every slice has a C of its own in the workspace. *)
SliceElements(s, t) ==
    Stored(SplitkBlock(s, t), LAMBDA r, j : <<"W", SplitkSlice(s, t), r * s.shape[3] + j>>)

SplitkTasks(s, core) == TasksOf(core[2], CoreLoops(s) * s.cores, s.aics)

SplitkCalls(s, core) ==
    LET tasks == SplitkTasks(s, core)
    IN EachOf(tasks, LAMBDA x :
         CallMmad(x, Operands(s, SplitkBlock(s, tasks[x])), SliceElements(s, tasks[x])))

SplitkMatmulAic(s, core) ==
    CubeCore(SplitkCalls(s, core)) \o SetPartners(core, "FIX", 0)

SplitkMatmulAiv(s, core) ==
    AwaitPartners(core, 0) \o CrossCoreBarrier(core, "MTE3", AllAivs(s.aics)) \o SplitkReduceAdd(s, core)

PaddingSplitkMatmulAic(s, core) ==
    AwaitPadding(s, core, 1) \o CubeCore(SplitkCalls(s, core)) \o SetPartners(core, "FIX", 0)

PaddingSplitkMatmulAiv(s, core) ==
    Prologue(s, core) \o FinishPadding(s, core, 1)
    \o AwaitPartners(core, 0) \o CrossCoreBarrier(core, "MTE3", AllAivs(s.aics)) \o SplitkReduceAdd(s, core)

(* Every call loads the operands of the next one. *)
DynamicPaddingMultiCoreSplitkMatmulAic(s, core) ==
    AwaitPadding(s, core, 0)
    \o CubeCore(NextPreloaded(SplitkTasks(s, core), LAMBDA t : Operands(s, DynamicSplitkBlock(s, t)),
                              LAMBDA t : SliceElements(s, t)))
    \o SetPartners(core, "FIX", 1)

DynamicPaddingMultiCoreSplitkMatmulAiv(s, core) ==
    Prologue(s, core) \o FinishPadding(s, core, 0)
    \o AwaitPartners(core, 1) \o CrossCoreBarrier(core, "MTE3", AllAivs(s.aics)) \o SplitkReduceAdd(s, core)

-----------------------------------------------------------------------------
(* Stream-k.  A cube core with a part of a cut block takes it before its   *)
(* last whole block, so that the vector cores can begin.                   *)
ActualLoopIdx(s, loopIdx, blockIdx) ==
    LET normal == NormalBlockNum(s)
        streamkCores == StreamkCoreLoops(s) - normal
    IN IF normal > 0 /\ loopIdx = normal - s.aics + blockIdx /\ blockIdx < streamkCores
       THEN normal + blockIdx
       ELSE IF normal > 0 /\ loopIdx >= normal THEN normal - s.aics + blockIdx
       ELSE loopIdx

(* The calls of a cube core: the parts of a cut block go to slot 2 * core  *)
(* of the workspace, what follows of the next cut block to 2 * core + 1.   *)
StreamkCallsOf(s, blockIdx, loopIdx) ==
    LET actual == ActualLoopIdx(s, loopIdx, blockIdx)
        blocks == StreamkBlocks(s, actual)
        streamk == actual >= NormalBlockNum(s)
        hasNext == loopIdx + s.aics < StreamkCoreLoops(s)
        InSlot(slot, b) ==
          Stored(b, LAMBDA r, j : <<"W", slot, (r % s.tile[2]) * s.tile[3] + (j % s.tile[3])>>)
        InC(b) == Stored(b, LAMBDA r, j : <<"C", r * s.shape[3] + j>>)
        next == IF hasNext THEN StreamkBlocks(s, ActualLoopIdx(s, loopIdx + s.aics, blockIdx))[1] ELSE <<>>
    IN [x \in DOMAIN blocks |->
          [block |-> blocks[x],
           dsts |-> IF streamk THEN InSlot(2 * blockIdx + x - 1, blocks[x]) ELSE InC(blocks[x]),
           first |-> loopIdx = blockIdx \/ x = 2,
           next |-> IF x = Len(blocks) THEN next ELSE <<>>,
           finish |-> x = Len(blocks) /\ (NormalBlockNum(s) = 0 \/ (streamk /\ actual # loopIdx))]]

StreamkCalls(s, core) ==
    LET loops == TasksOf(core[2], StreamkCoreLoops(s), s.aics)
        calls == FlattenSeq([x \in DOMAIN loops |-> StreamkCallsOf(s, core[2], loops[x])])
    IN EachOf(calls, LAMBDA x :
         LET c == calls[x]
         IN When(c.first, LoadBlock(x, Operands(s, c.block)))
            \o When(c.next # <<>>, LoadBlock(x + 1, Operands(s, c.next)))
            \o MultiplyBlock(x) \o StoreBlock(c.dsts)
            \o When(c.finish, SetPartners(core, "FIX", 1)))

(* A cube core without a part of a cut block says so at once. *)
StreamkMatmulAic(s, core) ==
    When(core[2] >= StreamkCoreLoops(s) - NormalBlockNum(s), SetPartners(core, "FIX", 1))
    \o CubeCore(StreamkCalls(s, core))

(* StreamkReduceAdd: the vector cores of the cube cores that begin with a  *)
(* part of a cut block add up its rows.                                    *)
StreamkReduceAdd(s, core) ==
    LET aicId == core[2] \div SubBlockNum
        Acc(slice, e) == <<"UB", "acc", slice, e>>
        Reduce(b) ==
          LET isHeadCross == StreamkIsCross(s, b)
              start == StreamkCoreIdx(s, b)
              end == StreamkCoreIdx(s, b + 1)
              laborCoreNum == (end - start) * SubBlockNum
              slices == end - start + (IF StreamkIsCross(s, b + 1) THEN 1 ELSE 0)
              block == Along(s, 0, StreamkCoord(s, NormalBlockNum(s) + b))
              m0 == Min(block[2])  n0 == Min(block[3])
              tileNum == Cardinality(block[2])  tileLen == Cardinality(block[3])
              tilePerCore == Min({CeilDiv(tileNum, laborCoreNum),
                                  (COMPUTE_LENGTH \div laborCoreNum) \div RoundUp(tileLen, ELE_PER_VECTOR_BLOCK)})
              loops == CeilDiv(tileNum, tilePerCore)
              Slot(slice) == IF isHeadCross /\ slice = 0 THEN start * 2 + 1 ELSE (slice + start) * 2
              Rows(x) ==
                LET loopIdx == core[2] - start * SubBlockNum + (x - 1) * laborCoreNum
                    tiles == IF loopIdx = loops - 1 THEN tileNum - loopIdx * tilePerCore ELSE tilePerCore
                    row == loopIdx * tilePerCore
                    Each(body(_, _)) ==
                      For(0, tiles - 1, LAMBDA i : For(0, tileLen - 1, LAMBDA j : body(i, j)))
                IN << WaitFlag("MTE3", "MTE2", 0) >>
                   \o For(0, slices - 1, LAMBDA slice : Each(LAMBDA i, j :
                        << Copy("MTE2", Acc(slice, i * tileLen + j),
                                <<"W", Slot(slice), (row + i) * s.tile[3] + j>>) >>))
                   \o Sync("MTE2", "V", 0)
                   \o For(1, slices - 1, LAMBDA slice : Each(LAMBDA i, j :
                        << Add("V", Acc(0, i * tileLen + j), {Acc(0, i * tileLen + j), Acc(slice, i * tileLen + j)}) >>))
                   \o Sync("V", "MTE3", 0)
                   \o Each(LAMBDA i, j :
                        << Copy("MTE3", <<"C", (m0 + row + i) * s.shape[3] + n0 + j>>, Acc(0, i * tileLen + j)) >>)
                   \o << SetFlag("MTE3", "MTE2", 0) >>
          IN When(aicId \in start..(end - 1),
                  EachOf(TasksOf(core[2] - start * SubBlockNum, loops, laborCoreNum), Rows))
    IN << SetFlag("MTE3", "MTE2", 0) >>
       \o For(0, StreamkBlockNum(s) - 1, Reduce)
       \o << WaitFlag("MTE3", "MTE2", 0) >>

StreamkMatmulAiv(s, core) ==
    AwaitPartners(core, 1) \o CrossCoreBarrier(core, "MTE2", AllAivs(s.aics)) \o StreamkReduceAdd(s, core)

DynamicStreamkReduceAdd(s, core) == StreamkReduceAdd(s, core)

DynamicPaddingStreamkMatmulAic(s, core) ==
    AwaitPadding(s, core, 0) \o StreamkMatmulAic(s, core)

DynamicPaddingStreamkMatmulAiv(s, core) ==
    Prologue(s, core) \o FinishPadding(s, core, 0)
    \o AwaitPartners(core, 1) \o CrossCoreBarrier(core, "MTE2", AllAivs(s.aics))
    \o DynamicStreamkReduceAdd(s, core)

-----------------------------------------------------------------------------
(* Every element of C is the sum of the products of all parts of k.  Of a  *)
(* split-k these are the slices, of a stream-k what each core had of it.   *)
SplitkExpected(s) ==
    [c \in {<<"C", e>> : e \in 0..(s.shape[2] * s.shape[3] - 1)} |->
       LET r == c[2] \div s.shape[3]  j == c[2] % s.shape[3]
           Parts == {t \in 0..(CoreLoops(s) * s.cores - 1) : r \in SplitkBlock(s, t)[2] /\ j \in SplitkBlock(s, t)[3]}
           Plain(b) == Operands([s EXCEPT !.padA = FALSE, !.padB = FALSE], b)
       IN FoldSet(LAMBDA t, sum :
            LET b == SplitkBlock(s, t) IN sum (+) ProductOf(Plain(b), Label(r, j, b[4])), EmptyBag, Parts)]

StreamkExpected(s) ==
    LET all == FlattenSeq([t \in 1..StreamkCoreLoops(s) |-> StreamkBlocks(s, t - 1)])
        Plain(b) == Operands([s EXCEPT !.padA = FALSE, !.padB = FALSE], b)
    IN [c \in {<<"C", e>> : e \in 0..(s.shape[2] * s.shape[3] - 1)} |->
          LET r == c[2] \div s.shape[3]  j == c[2] % s.shape[3]
          IN FoldLeft(LAMBDA sum, b :
               IF r \in b[2] /\ j \in b[3] THEN sum (+) ProductOf(Plain(b), Label(r, j, b[4])) ELSE sum,
               EmptyBag, all)]

Problem(shape, tile, slices, aics, padA, padB) ==
    [shape |-> <<1>> \o shape, tile |-> <<1>> \o tile, offset |-> 2, direction |-> 0, cores |-> slices,
     aics |-> aics, padA |-> padA, padB |-> padB]

SplitkProblem(shape, tile, aics, padA, padB, FactorOf(_)) ==
    LET s == Problem(shape, tile, 1, aics, padA, padB) IN [s EXCEPT !.cores = FactorOf(s)]

(* Several tasks for a core; an odd number of elements; fewer blocks than  *)
(* cores; a core that ends one cut block and begins the next.              *)
ReducePrograms ==
    LET split == SplitkProblem(<<3, 3, 5>>, <<2, 3, 2>>, 3, FALSE, FALSE, GetSplitkFactor)
        padded == SplitkProblem(<<3, 3, 5>>, <<2, 3, 2>>, 3, TRUE, TRUE, PaddingGetSplitkFactor)
        halfPadded == SplitkProblem(<<3, 4, 4>>, <<2, 2, 2>>, 2, FALSE, TRUE, GetSplitkFactor)
        stream == Problem(<<3, 9, 5>>, <<3, 2, 1>>, 3, 3, FALSE, FALSE)
        few == Problem(<<3, 4, 5>>, <<3, 2, 1>>, 3, 3, TRUE, FALSE)
    IN "splitk matmul" :> KernelProgram(split, SplitkMatmulAic, SplitkMatmulAiv, SplitkExpected(split))
       @@ "padding splitk matmul" :>
            KernelProgram(padded, PaddingSplitkMatmulAic, PaddingSplitkMatmulAiv, SplitkExpected(padded))
       @@ "dynamic padding multi core splitk matmul" :>
            KernelProgram(halfPadded, DynamicPaddingMultiCoreSplitkMatmulAic, DynamicPaddingMultiCoreSplitkMatmulAiv,
                    SplitkExpected(halfPadded))
       @@ "streamk matmul" :> KernelProgram(stream, StreamkMatmulAic, StreamkMatmulAiv, StreamkExpected(stream))
       @@ "dynamic padding streamk matmul" :>
            KernelProgram(few, DynamicPaddingStreamkMatmulAic, DynamicPaddingStreamkMatmulAiv, StreamkExpected(few))
===============================================================================
