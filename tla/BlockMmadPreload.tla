--------------------------- MODULE BlockMmadPreload ---------------------------
(***************************************************************************)
(* The blocks that load the first L1 tile of the next call while they      *)
(* multiply the last one of a call, so that only the very first call has   *)
(* to wait for a tile (include/catlass/gemm/block/block_mmad_preload.hpp,  *)
(* _preload_tla, _preload_tla_dynamic, _streamk, _dynamic_common,          *)
(* _dynamic_streamk and _gemm).  Every core begins k at another tile       *)
(* (StartTile), so that they do not all read the same part of memory.      *)
(***************************************************************************)
EXTENDS MmadTiles

CONSTANTS
    SplitCalls,     \* the calls with isSkBlock, whose result goes to the workspace
    L0CBlockNum,    \* l0CBlockNum of the gemm kernels: blocks that fit into L0C
    Abba            \* ENABLE_ABBA of the gemm block

GiveAccumulator == << SetFlag("FIX", "M", 0) >>

TakeAccumulator == << WaitFlag("FIX", "M", 0) >>

(* What is loaded before tile n is multiplied: it itself if it is the very *)
(* first (isFirstBlock), and the next tile of the call, or of the next     *)
(* call (hasNextBlock).                                                    *)
Loads(n) ==
    When(n = 1, LoadTile(n))
    \o When(~Tiles[n].last, LoadTile(n + 1))
    \o When(Tiles[n].last /\ Tiles[n].call < Len(CallK), LoadTile(n + 1))

Multiply(n) == TileMmads(n, FreshIds(n))

Loop(c, Loading(_), Multiplying(_)) ==
    For(FirstTile(c), LastTile(c), LAMBDA n : Loading(n) \o Multiplying(n))

(* MmadAtlasA2Preload *)
Constructor == GiveBuffers \o GiveAccumulator

Destructor == TakeBuffers \o TakeAccumulator

Call(c) == FixWait \o Loop(c, Loads, Multiply) \o CopyOut(<<"C", c>>)

Stream == Within(Constructor \o For(1, Len(CallK), Call) \o Destructor)

-----------------------------------------------------------------------------
(* BlockMmadTla<MmadPreload>: the first tile is loaded ahead of the loop,  *)
(* and the L0 list ids run on.                                             *)
TlaConstructor == GiveBuffers \o GiveAccumulator

TlaDestructor == TakeBuffers \o TakeAccumulator

TlaFirstLoad(c) == When(c = 1, LoadTile(1))

TlaLoads(n) ==
    When(~Tiles[n].last, LoadTile(n + 1))
    \o When(Tiles[n].last /\ Tiles[n].call < Len(CallK), LoadTile(n + 1))

TlaMultiply(n) == TileMmads(n, RunningIds(n))

TlaCall(c) == FixWait \o TlaFirstLoad(c) \o Loop(c, TlaLoads, TlaMultiply) \o CopyOut(<<"C", c>>)

TlaStream == Within(TlaConstructor \o For(1, Len(CallK), TlaCall) \o TlaDestructor)

-----------------------------------------------------------------------------
(* BlockMmadTla<MmadPreloadDynamic>: its tile shape is given at run time,  *)
(* and L0TileK is what then fits half of L0 (kPartLenMax).                 *)
TlaDynamicConstructor == GiveBuffers \o GiveAccumulator

TlaDynamicDestructor == TakeBuffers \o TakeAccumulator

TlaDynamicLoads(n) == TlaLoads(n)

TlaDynamicMultiply(n) == TileMmads(n, RunningIds(n))

TlaDynamicCall(c) ==
    FixWait \o TlaFirstLoad(c) \o Loop(c, TlaDynamicLoads, TlaDynamicMultiply) \o CopyOut(<<"C", c>>)

TlaDynamicStream == Within(TlaDynamicConstructor \o For(1, Len(CallK), TlaDynamicCall) \o TlaDynamicDestructor)

-----------------------------------------------------------------------------
(* MmadAtlasA2Streamk: a call may be about a part of a block's k axis, and *)
(* leaves it in the workspace W.  With the unit flag the event of the      *)
(* accumulator is not used at all.                                         *)
StreamkConstructor == GiveBuffers \o When(~UnitFlag, GiveAccumulator)

StreamkDestructor == TakeBuffers \o When(~UnitFlag, TakeAccumulator)

StreamkLoads(n) == Loads(n)

StreamkMultiply(n) == TileMmads(n, FreshIds(n))

StreamkCopyOut(c) == CopyOut(<<IF c \in SplitCalls THEN "W" ELSE "C", c>>)

StreamkCall(c) == FixWait \o Loop(c, StreamkLoads, StreamkMultiply) \o StreamkCopyOut(c)

StreamkStream == Within(StreamkConstructor \o For(1, Len(CallK), StreamkCall) \o StreamkDestructor)

StreamkExpected ==
    [b \in {<<IF c \in SplitCalls THEN "W" ELSE "C", c>> : c \in Calls} |-> Product(b[2])]

-----------------------------------------------------------------------------
(* MmadAtlasA2DynamicCommon and MmadAtlasA2DynamicStreamk: their tile      *)
(* shapes are given at run time.                                           *)
DynamicConstructor == GiveBuffers \o GiveAccumulator

DynamicDestructor == TakeBuffers \o TakeAccumulator

DynamicLoads(n) == Loads(n)

DynamicMultiply(n) == TileMmads(n, FreshIds(n))

DynamicCall(c) == FixWait \o Loop(c, DynamicLoads, DynamicMultiply) \o CopyOut(<<"C", c>>)

DynamicStream == Within(DynamicConstructor \o For(1, Len(CallK), DynamicCall) \o DynamicDestructor)

DynamicStreamkConstructor == GiveBuffers \o When(~UnitFlag, GiveAccumulator)

DynamicStreamkDestructor == TakeBuffers \o When(~UnitFlag, TakeAccumulator)

DynamicStreamkLoads(n) == Loads(n)

DynamicStreamkMultiply(n) == TileMmads(n, FreshIds(n))

DynamicStreamkCopyOut(c) == StreamkCopyOut(c)

DynamicStreamkCall(c) ==
    FixWait \o Loop(c, DynamicStreamkLoads, DynamicStreamkMultiply) \o DynamicStreamkCopyOut(c)

DynamicStreamkStream ==
    Within(DynamicStreamkConstructor \o For(1, Len(CallK), DynamicStreamkCall) \o DynamicStreamkDestructor)

-----------------------------------------------------------------------------
(* The block of the gemm kernels (block_mmad_gemm.hpp) waits for its L1    *)
(* events in other places, and may take A and B in turns.                  *)
GemmParametersOK ==
    /\ ParametersOK
    /\ Stages = 2 /\ ~UnitFlag
    /\ L0CBlockNum \in Nat \ {0} /\ Abba \in BOOLEAN

(* With ENABLE_ABBA B goes first in every second copy, so that one operand *)
(* is copied twice in a row.                                               *)
BFirst(tile) == Abba /\ tile % 2 = 0

InOrder(bFirst, a, b) == IF bFirst THEN b \o a ELSE a \o b

LoadGemm(n, bFirst) ==
    LET s == Ring(n - 1)
    IN InOrder(bFirst, LoadOperand("A", n, <<"L1A", s>>, EventA(s)), LoadOperand("B", n, <<"L1B", s>>, EventB(s)))

(* Within a block the parity of the next tile decides, before the first    *)
(* tile of the next block that of the last tile of this one.               *)
LoadNext(n) ==
    When(n < Len(Tiles),
         LoadGemm(n + 1, IF Tiles[n].last THEN BFirst(Tiles[n].k) ELSE BFirst(Tiles[n + 1].k + 1)))

GemmPart(n, p, l) ==
    LET s == Ring(n - 1)
        Part(l1, l0, event) ==
          << WaitFlag("M", "MTE1", event), Do("MTE1", <<l0, l>>, {<<l1, s>>}, <<"part", p>>),
             SetFlag("MTE1", "M", event) >>
        accumulator == <<"L0C", (Tiles[n].call - 1) % L0CBlockNum>>
    IN InOrder(BFirst(Tiles[n].k + p), Part("L1A", "L0A", EventA(l)), Part("L1B", "L0B", EventB(l)))
       \o When(p = Tiles[n].parts - 1, << SetFlag("MTE1", "MTE2", EventA(s)), SetFlag("MTE1", "MTE2", EventB(s)) >>)
       \o << WaitFlag("MTE1", "M", EventB(l)), WaitFlag("MTE1", "M", EventA(l)) >>
       \o Mmad(n, p, {<<"L0A", l>>, <<"L0B", l>>}, accumulator)
       \o << SetFlag("M", "MTE1", EventA(l)), SetFlag("M", "MTE1", EventB(l)) >>

GemmTile(n) ==
    LET s == Ring(n - 1)
        l == RunningIds(n)
    IN << WaitFlag("MTE2", "MTE1", EventA(s)), WaitFlag("MTE2", "MTE1", EventB(s)) >>
       \o For(0, Tiles[n].parts - 1, LAMBDA p : GemmPart(n, p, l[p]))

GemmConstructor == GiveBuffers

GemmDestructor == TakeBuffers

GemmCall(c) ==
    LET singleIdx == (c - 1) % L0CBlockNum
    IN For(FirstTile(c), LastTile(c), LAMBDA n : When(n = 1, LoadGemm(n, FALSE)) \o LoadNext(n) \o GemmTile(n))
       \o Sync("M", "FIX", singleIdx) \o << Copy("FIX", <<"C", c>>, <<"L0C", singleIdx>>) >>

(* The accumulators are handed over by the kernel. *)
InKernel(c) ==
    LET singleIdx == (c - 1) % L0CBlockNum
    IN << WaitFlag("FIX", "M", singleIdx) >> \o GemmCall(c) \o << SetFlag("FIX", "M", singleIdx) >>

GemmStream ==
    GemmConstructor
    \o For(0, L0CBlockNum - 1, LAMBDA i : << SetFlag("FIX", "M", i) >>)
    \o For(1, Len(CallK), InKernel)
    \o For(0, L0CBlockNum - 1, LAMBDA i : << WaitFlag("FIX", "M", i) >>)
    \o GemmDestructor
===============================================================================
