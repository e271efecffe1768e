--------------------------- MODULE BlockMmadPrologue ---------------------------
(***************************************************************************)
(* Blocks whose B is stored with fewer bits than the cube unit takes: the  *)
(* vector cores of a cube core widen one L1 tile of B after the other into *)
(* a ring of STAGES tiles of the workspace, and the cube core loads it     *)
(* from there (include/catlass/gemm/block/                                 *)
(* block_mmad_pingpong_with_prologue.hpp, gemm/tile/cast_int8_to_fp16.hpp, *)
(* cast_int4_to_int8.hpp, gemm/kernel/w8a16_matmul.hpp, w4a8_matmul.hpp).  *)
(*                                                                         *)
(* B is looked at row by row, <<"B", block, row>>.                         *)
(***************************************************************************)
EXTENDS MmadTiles, KernelInstructions

CONSTANTS
    AicoreNum,      \* cube cores
    CoreLoops,      \* blocks
    TilesPerLoop    \* rows that the vector cores widen at once

PrologueParametersOK ==
    /\ ParametersOK
    /\ AicoreNum \in Nat \ {0} /\ CoreLoops \in Nat /\ TilesPerLoop \in Nat \ {0}
    /\ CeilDiv(CoreLoops, AicoreNum) <= Len(CallK)
    /\ StartTile = 0

(* The block of the c-th call on a cube core. *)
BlockOf(aicoreIdx, c) == aicoreIdx + (c - 1) * AicoreNum

TasksOn(aicoreIdx) == Len(TasksOf(aicoreIdx, CoreLoops, AicoreNum))

(* The rows of B in tile n. *)
RowCount(n) == IF Tiles[n].last THEN CallK[Tiles[n].call] - Tiles[n].k * L1TileK ELSE L1TileK

Row(aicoreIdx, n, r) == <<"B", BlockOf(aicoreIdx, Tiles[n].call), Tiles[n].k * L1TileK + r>>

(* Row r of a tile of the workspace. *)
Slot(aicoreIdx, stage, r) == <<"WB", aicoreIdx, stage, r>>

CopyFinish(stage) == 2 * stage

PrologueFinish(stage) == 2 * stage + 1

-----------------------------------------------------------------------------
(* The tiles that widen: two buffers in, two out, used in turn, beginning  *)
(* with the first in every call.  rows is what the vector core has to do,  *)
(* each row with where it comes from and where it goes.                    *)
Passes(rows) ==
    [loop \in 1..CeilDiv(Len(rows), TilesPerLoop) |->
       SubSeq(rows, (loop - 1) * TilesPerLoop + 1, Min({loop * TilesPerLoop, Len(rows)}))]

WidenedInTurn(rows, Pass(_, _, _)) ==
    For(1, Len(Passes(rows)), LAMBDA loop :
        LET pass == Passes(rows)[loop]
            s == (loop - 1) % 2
        IN Pass(s, {pass[i][1] : i \in DOMAIN pass},
                [i \in DOMAIN pass |-> Do("MTE3", pass[i][2], {<<"UB", "out", s>>}, <<"apply", i>>)]))

Int8Constructor ==
    For(0, 1, LAMBDA i : << SetFlag("V", "MTE2", i), SetFlag("MTE3", "V", i) >>)

Int8Destructor ==
    For(0, 1, LAMBDA i : << WaitFlag("V", "MTE2", i), WaitFlag("MTE3", "V", i) >>)

Int8Pass(s, srcs, stores) ==
    << WaitFlag("V", "MTE2", s), Add("MTE2", <<"UB", "in", s>>, srcs) >> \o Sync("MTE2", "V", s)
    \o << WaitFlag("MTE3", "V", s), Vec(<<"UB", "out", s>>, {<<"UB", "in", s>>}, "Cast"),
          SetFlag("V", "MTE2", s),
          Vec(<<"UB", "out", s>>, {<<"UB", "out", s>>}, "Adds"),
          Vec(<<"UB", "out", s>>, {<<"UB", "out", s>>}, "Muls") >>
    \o Sync("V", "MTE3", s) \o stores \o << SetFlag("MTE3", "V", s) >>

Int8Tile(rows) == WidenedInTurn(rows, Int8Pass)

(* The scalar unit waits for the loads and the stores. *)
Int4Constructor ==
    For(0, 1, LAMBDA i : << SetFlag("V", "MTE2", i), SetFlag("MTE3", "S", i) >>)

Int4Destructor ==
    For(0, 1, LAMBDA i : << WaitFlag("V", "MTE2", i), WaitFlag("MTE3", "S", i) >>)

Int4Pass(s, srcs, stores) ==
    << WaitFlag("V", "MTE2", s), Add("MTE2", <<"UB", "in", s>>, srcs) >> \o Sync("MTE2", "S", s)
    \o << WaitFlag("MTE3", "S", s) >> \o Sync("S", "V", s)
    \o << Vec(<<"UB", "workspace", s>>, {<<"UB", "in", s>>}, "Cast"), SetFlag("V", "MTE2", s),
          Vec(<<"UB", "out", s>>, {<<"UB", "workspace", s>>}, "CastAgain") >>
    \o Sync("V", "MTE3", s) \o stores \o << SetFlag("MTE3", "S", s) >>

Int4Tile(rows) == WidenedInTurn(rows, Int4Pass)

-----------------------------------------------------------------------------
(* BlockMmad<MmadAtlasA2PingPongWithPrologue> on a cube core. *)
CubeConstructor(core) ==
    For(0, Stages - 1, LAMBDA i : SetPartners(core, "MTE2", CopyFinish(i)))
    \o GiveBuffers \o << SetFlag("FIX", "M", 0) >>

CubeDestructor == TakeBuffers \o << WaitFlag("FIX", "M", 0) >>

LoadWidened(core, n) ==
    LET s == Ring(n - 1)
    IN << WaitFlag("MTE1", "MTE2", EventA(s)),
          Load("MTE2", <<"L1A", s>>, <<"A", BlockOf(core[2], Tiles[n].call), Tiles[n].k>>),
          SetFlag("MTE2", "MTE1", EventA(s)), WaitFlag("MTE1", "MTE2", EventB(s)) >>
       \o AwaitPartners(core, PrologueFinish(s))
       \o << Add("MTE2", <<"L1B", s>>, {Slot(core[2], s, r) : r \in 0..(RowCount(n) - 1)}) >>
       \o SetPartners(core, "MTE2", CopyFinish(s))
       \o << SetFlag("MTE2", "MTE1", EventB(s)) >>

PrologueCall(core, c) ==
    LoadWidened(core, FirstTile(c)) \o FixWait
    \o For(FirstTile(c), LastTile(c), LAMBDA n :
         When(n < LastTile(c), LoadWidened(core, n + 1)) \o TileMmads(n, RunningIds(n)))
    \o CopyOut(<<"C", BlockOf(core[2], c)>>)

(* And on a vector core. *)
AivDestructor(core) == For(0, Stages - 1, LAMBDA i : AwaitPartners(core, CopyFinish(i)))

(* PrologueB, for the elements that B has in memory. *)
WidenTile(element, moves) == IF element = "int8" THEN Int8Tile(moves) ELSE Int4Tile(moves)

PrologueImpl(core, c, element) ==
    LET aic == AicOf(core[2])[2]
    IN For(FirstTile(c), LastTile(c), LAMBDA n :
         LET s == Ring(n - 1)
             rows == PaddedRows(RowCount(n), SubBlockNum, SubBlockIdx(core[2]))
         IN AwaitPartners(core, CopyFinish(s))
            \o WidenTile(element, [i \in DOMAIN rows |-> <<Row(aic, n, rows[i]), Slot(aic, s, rows[i])>>])
            \o SetPartners(core, "MTE3", PrologueFinish(s)))

-----------------------------------------------------------------------------
(* The kernels. *)
W8A16Aic(core) ==
    Within(CubeConstructor(core)
           \o For(1, TasksOn(core[2]), LAMBDA c : PrologueCall(core, c))
           \o CubeDestructor)

W8A16Aiv(core) ==
    Int8Constructor
    \o For(1, TasksOn(AicOf(core[2])[2]), LAMBDA c : PrologueImpl(core, c, "int8"))
    \o AivDestructor(core) \o Int8Destructor

W4A8Aiv(core) ==
    Int4Constructor
    \o For(1, TasksOn(AicOf(core[2])[2]), LAMBDA c : PrologueImpl(core, c, "int4"))
    \o AivDestructor(core) \o Int4Destructor

W4A8Aic(core) == W8A16Aic(core)

(* A block is the sum of the products of the parts of A and of the widened *)
(* rows of B, all rows of a tile of B being widened in parts.              *)
WidenedTile(aicoreIdx, n, Wide(_)) ==
    LET WidenedPass(pass) ==
          {<<"apply", i, {Wide(SetToBag({Row(aicoreIdx, n, pass[j]) : j \in DOMAIN pass}))}>> : i \in DOMAIN pass}
    IN SetToBag(UNION {LET rows == PaddedRows(RowCount(n), SubBlockNum, sub)
                       IN UNION {WidenedPass(Passes(rows)[loop]) : loop \in DOMAIN Passes(rows)} :
                       sub \in 0..(SubBlockNum - 1)})

PrologueExpected(Wide(_)) ==
    Table([b \in {<<"C", i>> : i \in 0..(CoreLoops - 1)} |->
       LET aicoreIdx == b[2] % AicoreNum
           c == b[2] \div AicoreNum + 1
           Of(contents, p) == SetToBag({<<"part", p, contents>>})
       IN SetToBag(UNION {LET A == NameOf(<<"A", b[2], Tiles[n].k>>)
                              B == WidenedTile(aicoreIdx, n, Wide)
                          IN {<<"mmad", Of(A, p), Of(B, p)>> : p \in 0..(Tiles[n].parts - 1)} :
                          n \in FirstTile(c)..LastTile(c)})])

Int8Wide(rows) == Applied("Muls", {Applied("Adds", {Applied("Cast", {rows})})})

Int4Wide(rows) == Applied("CastAgain", {Applied("Cast", {rows})})

PrologueProgram(AicStream(_), AivStream(_), Wide(_)) ==
    Loaded(Kernel(AicoreNum, LAMBDA core : IF core[1] = "aic" THEN AicStream(core) ELSE AivStream(core)),
           PrologueExpected(Wide), FALSE)
================================================================================
