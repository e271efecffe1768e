---------------------------- MODULE BlockMmadSliceK ----------------------------
(***************************************************************************)
(* The fp8 matmul: the vector cores widen one slice of k of A and B after  *)
(* the other into two slots of the workspace, one slice ahead of the cube  *)
(* core, which adds up the slices of its block in the workspace; when the  *)
(* block is done the vector cores narrow it to the result (include/catlass *)
(* /gemm/block/block_mmad_pingpong_slice_k_with_prologue.hpp, gemm/tile/   *)
(* cast_fp8_to_fp16.hpp, gemm/kernel/fp8_matmul.hpp).                      *)
(*                                                                         *)
(* Rows of A and columns of B (stored column by column) are told apart,    *)
(* and so are the rows of the result.                                      *)
(***************************************************************************)
EXTENDS BlockMmadPrologue, TLC

CONSTANTS
    SliceK,         \* k of each slice
    BlockM, BlockN, \* rows and columns of a block
    L1TileM, L1TileN

MLoop == CeilDiv(BlockM, L1TileM)

NLoop == CeilDiv(BlockN, L1TileN)

Slices == Len(SliceK)

SmallBlocks == MLoop * NLoop

(* Call c multiplies a slice of a small block. *)
SliceCall(t, l, i) == ((t - 1) * Slices + l - 1) * SmallBlocks + i

SliceParametersOK ==
    /\ ParametersOK /\ StartTile = 0
    /\ BlockM \in Nat \ {0} /\ BlockN \in Nat \ {0} /\ L1TileM \in Nat \ {0} /\ L1TileN \in Nat \ {0}
    /\ Len(CallK) = CeilDiv(CoreLoops, AicoreNum) * Slices * SmallBlocks
    /\ \A t \in 1..CeilDiv(CoreLoops, AicoreNum), l \in 1..Slices, i \in 1..SmallBlocks :
         CallK[SliceCall(t, l, i)] = SliceK[l]

(* The rows, and the columns, of small block i. *)
RowsOf(i) == LET m == (i - 1) \div NLoop IN {r \in 0..(BlockM - 1) : r \div L1TileM = m}

ColumnsOf(i) == LET n == (i - 1) % NLoop IN {j \in 0..(BlockN - 1) : j \div L1TileN = n}

Flag0(slot) == slot

Flag1(slot) == 2 + slot

Flag4 == 4

(* The slot of slice l of the t-th block of a core. *)
SlotOf(t, l) == ((t - 1) * Slices + l - 1) % 2

-----------------------------------------------------------------------------
(* Buffers of the vector unit by address: those of EpCastFp32ToFp16 lie    *)
(* over those of the tiles that widen.                                     *)
UB(cell) == <<"UB", "cell", cell>>

In(s) == UB(s)

Out(s) == UB(2 + s)

Workspace(s) == UB(4 + s)

Masks == UB(6)

CastIn(s) == IF s = 0 THEN <<UB(0), UB(1), UB(2)>> ELSE <<UB(3), UB(4)>>

CastOut(s) == UB(5 + s)

(* Arch::Resource: TPipe::Destroy waits for all pipes. *)
NewResource == BarrierAll(<<"MTE2", "V", "MTE3">>)

InitLocalMaskVec == << Do("V", Masks, {}, <<"masks">>) >>

Dequant(s) ==
    << Vec(Out(s), {In(s)}, "Cast"), Vec(Workspace(s), {Out(s), Masks}, "Sign"),
       Vec(Out(s), {Out(s), Masks}, "Rest"), Vec(Out(s), {Out(s), Workspace(s)}, "Or") >>

(* operator(): bufferIndex runs on from call to call. *)
Fp8Tile(rows, bufferIndex) ==
    For(1, Len(Passes(rows)), LAMBDA loop :
        LET pass == Passes(rows)[loop]
            s == (bufferIndex + loop - 1) % 2
        IN << WaitFlag("V", "MTE2", s), Add("MTE2", In(s), {pass[i][1] : i \in DOMAIN pass}) >>
           \o Sync("MTE2", "V", s) \o << WaitFlag("MTE3", "V", s) >> \o Dequant(s)
           \o Sync("V", "MTE3", s) \o << SetFlag("V", "MTE2", s) >>
           \o [i \in DOMAIN pass |-> Do("MTE3", pass[i][2], {Out(s)}, <<"apply", i>>)]
           \o << SetFlag("MTE3", "V", s) >>)

EpCastFp32ToFp16(rows) ==
    NewResource
    \o For(1, Len(Passes(rows)), LAMBDA loop :
         LET pass == Passes(rows)[loop]
             s == (loop - 1) % 2
             e == 2 + s
         IN << WaitFlag("V", "MTE2", e) >>
            \o << Add("MTE2", Head(CastIn(s)), UNION {pass[i][1] : i \in DOMAIN pass}) >>
            \o [i \in DOMAIN Tail(CastIn(s)) |-> Load("MTE2", Tail(CastIn(s))[i], <<"more of the rows">>)]
            \o Sync("MTE2", "V", e)
            \o << WaitFlag("MTE3", "V", e), Vec(CastOut(s), ToSet(CastIn(s)), "Rint") >>
            \o Sync("V", "MTE3", e) \o << SetFlag("V", "MTE2", e) >>
            \o [i \in DOMAIN pass |-> Do("MTE3", pass[i][2], {CastOut(s)}, <<"apply", i>>)]
            \o << SetFlag("MTE3", "V", e) >>)

-----------------------------------------------------------------------------
(* The vector cores. *)
AivSliceConstructor == For(0, 3, LAMBDA i : << SetFlag("V", "MTE2", i), SetFlag("MTE3", "V", i) >>)

AivSliceDestructor(core) ==
    For(0, 3, LAMBDA i : << WaitFlag("V", "MTE2", i), WaitFlag("MTE3", "V", i) >>)
    \o AwaitPartners(core, Flag0(0)) \o AwaitPartners(core, Flag0(1))

(* prologueA and prologueB for slice l of the t-th block, the q-th slice   *)
(* of all.                                                                 *)
WidenSlice(core, t, l) ==
    LET aic == AicOf(core[2])[2]
        sub == SubBlockIdx(core[2])
        q == (t - 1) * Slices + l - 1
        A == PaddedRows(BlockM, SubBlockNum, sub)
        B == PaddedRows(BlockN, SubBlockNum, sub)
        Of(operand, rows) ==
          [i \in DOMAIN rows |-> << <<operand, BlockOf(aic, t), l, rows[i]>>,
                                    <<"W" \o operand, aic, SlotOf(t, l), rows[i]>> >>]
    IN InitLocalMaskVec \o InitLocalMaskVec
       \o Fp8Tile(Of("A", A), q * (Len(Passes(A)) + Len(Passes(B))))
       \o Fp8Tile(Of("B", B), q * (Len(Passes(A)) + Len(Passes(B))) + Len(Passes(A)))

PrologueSlices(core, t, hasNextBlock) ==
    LET aic == AicOf(core[2])[2]
        Announce(l) == SetPartners(core, "MTE3", Flag1(SlotOf(t, l)))
        OtherSlot(l) == AwaitPartners(core, Flag0(1 - SlotOf(t, l)))
        rows == PaddedRows(BlockM, SubBlockNum, SubBlockIdx(core[2]))
    IN NewResource
       \o For(1, Slices, LAMBDA l :
            When(t = 1 /\ l = 1, AwaitPartners(core, Flag0(0)) \o WidenSlice(core, t, l))
            \o When(l < Slices, Announce(l) \o OtherSlot(l) \o WidenSlice(core, t, l + 1))
            \o When(l = Slices /\ hasNextBlock, Announce(l) \o OtherSlot(l) \o WidenSlice(core, t + 1, 1))
            \o When(l = Slices /\ ~hasNextBlock, Announce(l))
            \o When(l = Slices,
                    AwaitPartners(core, Flag4)
                    \o EpCastFp32ToFp16([i \in DOMAIN rows |->
                         << {<<"WC", aic, n, rows[i]>> : n \in 0..(NLoop - 1)}, <<"C", BlockOf(aic, t), rows[i]>> >>])))

Fp8Aiv(core) ==
    LET tasks == TasksOn(AicOf(core[2])[2])
    IN AivSliceConstructor \o For(1, tasks, LAMBDA t : PrologueSlices(core, t, t < tasks))
       \o AivSliceDestructor(core)

-----------------------------------------------------------------------------
(* The cube core. *)
AicSliceConstructor(core) ==
    GiveBuffers \o << SetFlag("FIX", "M", 0) >>
    \o SetPartners(core, "FIX", Flag0(0)) \o SetPartners(core, "FIX", Flag0(1))

AicSliceDestructor == TakeBuffers \o << WaitFlag("FIX", "M", 0) >>

LoadSlice(core, n, slot, i) ==
    LET s == Ring(n - 1)
        Widened(operand, rows, event) ==
          << WaitFlag("MTE1", "MTE2", event),
             Do("MTE2", <<"L1" \o operand, s>>, {<<"W" \o operand, core[2], slot, r>> : r \in rows},
                <<"part", Tiles[n].k>>),
             SetFlag("MTE2", "MTE1", event) >>
    IN Widened("A", RowsOf(i), EventA(s)) \o Widened("B", ColumnsOf(i), EventB(s))

(* The small block goes to the workspace, or is added to what is there. *)
StoreSlice(core, l, i) ==
    LET Cell(r) == <<"WC", core[2], (i - 1) % NLoop, r>>
        stores == SetToSeq({Add("FIX", Cell(r), {<<"L0C">>} \cup (IF l = 1 THEN {} ELSE {Cell(r)})) : r \in RowsOf(i)})
    IN IF UnitFlag
       THEN << WaitFlag("M", "FIX", UnitId) >> \o stores \o << SetFlag("FIX", "M", UnitId) >>
       ELSE Sync("M", "FIX", 0) \o stores \o << SetFlag("FIX", "M", 0) >>

SmallBlockMmad(core, t, l, i) ==
    LET c == SliceCall(t, l, i)
        slot == SlotOf(t, l)
    IN When(i = 1, LoadSlice(core, FirstTile(c), slot, i)) \o FixWait
       \o For(FirstTile(c), LastTile(c), LAMBDA n :
            When(n < LastTile(c), LoadSlice(core, n + 1, slot, i))
            \o When(n = LastTile(c) /\ i < SmallBlocks, LoadSlice(core, n + 1, slot, i + 1))
            \o TileMmads(n, RunningIds(n)))
       \o StoreSlice(core, l, i)

MNScalerMatmul(core, t) ==
    For(1, Slices, LAMBDA l :
        AwaitPartners(core, Flag1(SlotOf(t, l)))
        \o For(1, SmallBlocks, LAMBDA i : SmallBlockMmad(core, t, l, i))
        \o SetPartners(core, "FIX", Flag0(SlotOf(t, l)))
        \o When(l = Slices, SetPartners(core, "FIX", Flag4)))

Fp8Aic(core) ==
    Within(AicSliceConstructor(core)
           \o For(1, TasksOn(core[2]), LAMBDA t : MNScalerMatmul(core, t))
           \o AicSliceDestructor)

-----------------------------------------------------------------------------
(* The pass that takes row r of so many rows. *)
PassOf(size, r) ==
    CHOOSE pass \in UNION {ToSet(Passes(PaddedRows(size, SubBlockNum, sub))) : sub \in 0..(SubBlockNum - 1)} :
      r \in ToSet(pass)

(* What pass f has left in its row r. *)
RowOf(pass, r, f) == Applied(CHOOSE i \in DOMAIN pass : pass[i] = r, {f})

(* The rows of slice l of an operand of a block, widened. *)
WidenedRows(operand, size, block, l) ==
    LET masks == NameOf(<<"masks">>)
        Wide(contents) ==
          LET cast == Applied("Cast", {contents})
          IN Applied("Or", {Applied("Rest", {cast, masks}), Applied("Sign", {cast, masks})})
    IN Table([r \in 0..(size - 1) |->
         LET pass == PassOf(size, r)
         IN RowOf(pass, r, Wide(SetToBag({<<operand, block, l, pass[j]>> : j \in DOMAIN pass})))])

(* Small block i of a block: the products of the slices added up. *)
SmallSum(block, i) ==
    LET Sum(rows, row) == FoldSet(LAMBDA r, sum : row[r] (+) sum, EmptyBag, rows)
        Products(l) ==
          LET c == SliceCall(1, l, i)
              A == Sum(RowsOf(i), WidenedRows("A", BlockM, block, l))
              B == Sum(ColumnsOf(i), WidenedRows("B", BlockN, block, l))
              Part(k, p, tile) == SetToBag({<<"part", p, SetToBag({<<"part", k, tile>>})>>})
          IN UNION {{<<"mmad", Part(k, p, A), Part(k, p, B)>> : p \in 0..(PartCount(c, k) - 1)} :
                    k \in 0..(TileCount(c) - 1)}
    IN SetToBag(UNION {Products(l) : l \in 1..Slices})

(* A row of the result: what a pass took of the small blocks, narrowed. *)
SliceExpected ==
    LET sums == Table([bi \in (0..(CoreLoops - 1)) \X (1..SmallBlocks) |-> SmallSum(bi[1], bi[2])])
        Narrowed(block, pass) ==
          LET cells == {ri \in ToSet(pass) \X (1..SmallBlocks) : ri[1] \in RowsOf(ri[2])}
              taken == FoldSet(LAMBDA ri, sum : sums[block, ri[2]] (+) sum, EmptyBag, cells)
          IN Applied("Rint", {taken, NameOf(<<"more of the rows">>)})
    IN Table([b \in {<<"C", block, r>> : block \in 0..(CoreLoops - 1), r \in 0..(BlockM - 1)} |->
         LET pass == PassOf(BlockM, b[3]) IN RowOf(pass, b[3], Narrowed(b[2], pass))])

SliceProgram ==
    Loaded(Kernel(AicoreNum, LAMBDA core : IF core[1] = "aic" THEN Fp8Aic(core) ELSE Fp8Aiv(core)),
           SliceExpected, FALSE)
================================================================================
