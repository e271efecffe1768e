---------------------------- MODULE BlockEpilogues -----------------------------
(***************************************************************************)
(* The block epilogues (include/catlass/epilogue/block) on the UB of the   *)
(* two vector cores of a cube core: elementwise with one source and with   *)
(* none, the per-token dequantisations, gemm and gemv.                     *)
(*                                                                         *)
(* Call b is about block b of C.  The block consists of two halves, one    *)
(* for each core, or of Tiles[b] tiles, which the cores take in turn; a    *)
(* block without any k has no tiles.  Data types are such that nothing has *)
(* to be cast, unless the cast has a buffer of its own.                    *)
(***************************************************************************)
EXTENDS KernelInstructions, TLC

CONSTANTS
    Tiles,      \* Tiles[b]: the tiles of block b
    UB_STAGES

ParametersOK == UB_STAGES \in Nat \ {0} /\ \A b \in DOMAIN Tiles : Tiles[b] \in Nat

U(name) == <<"UB", name>>

Staged(name, s) == <<"UB", name, s>>

(* Part i of block b of a matrix. *)
Part(matrix, b, i) == <<matrix, b, i>>

(* Every call on the half of a core. *)
OnHalves(core, Call(_, _)) == EachOf(Tiles, LAMBDA b : Call(b, SubBlockIdx(core[2])))

-----------------------------------------------------------------------------
(* D = f(C, X), and D = f(C), which is cast afterwards. *)
ElemWiseFlags(Flag(_, _, _)) == << Flag("V", "MTE2", 0), Flag("MTE3", "V", 0) >>

OneSourceConstructor == ElemWiseFlags(SetFlag)

OneSourceDestructor == ElemWiseFlags(WaitFlag)

ElemWise(b, i, loads, calculation) ==
    << WaitFlag("V", "MTE2", 0) >> \o loads \o Sync("MTE2", "V", 0)
    \o << WaitFlag("MTE3", "V", 0) >> \o calculation
    \o << SetFlag("V", "MTE2", 0) >> \o Sync("V", "MTE3", 0)
    \o << Copy("MTE3", Part("D", b, i), U("D")), SetFlag("MTE3", "V", 0) >>

OneSource(b, i) ==
    ElemWise(b, i, << Load("MTE2", U("C"), Part("C", b, i)), Load("MTE2", U("X"), Part("X", b, i)) >>,
                   << Vec(U("D"), {U("C"), U("X")}, "f") >>)

OneSourceResult(b, i) == Applied("f", {NameOf(Part("C", b, i)), NameOf(Part("X", b, i))})

NoSourceConstructor == ElemWiseFlags(SetFlag)

NoSourceDestructor == ElemWiseFlags(WaitFlag)

NoSource(b, i) ==
    ElemWise(b, i, << Load("MTE2", U("C"), Part("C", b, i)) >>,
                   << Vec(U("X"), {U("C")}, "f"), Vec(U("D"), {U("X")}, "cast") >>)

NoSourceResult(b, i) == Applied("cast", {Applied("f", {NameOf(Part("C", b, i))})})

-----------------------------------------------------------------------------
(* Tiles of a block, and of the blocks before, that a core has taken. *)
TakenOf(tiles, core) == Len(TasksOf(SubBlockIdx(core[2]), tiles, SubBlockNum))

TakenBefore(b, core) == MapThenSumSet(LAMBDA c : TakenOf(Tiles[c], core), 1..(b - 1))

(* Every call on its tiles.  n counts the tiles of a core (ubListId). *)
OnTiles(core, Tile(_, _, _)) ==
    EachOf(Tiles, LAMBDA b :
      For(1, TakenOf(Tiles[b], core), LAMBDA x :
        Tile(b, SubBlockIdx(core[2]) + (x - 1) * SubBlockNum, TakenBefore(b, core) + x - 1)))

(* D = cast(C) * scale * scale of the token.  With UB_STAGES sets of       *)
(* buffers, and one set for the calculation.                               *)
DequantFlags(Flag(_, _, _)) ==
    For(0, UB_STAGES - 1, LAMBDA s :
      For(0, 2, LAMBDA e : << Flag("V", "MTE2", 3 * s + e) >>) \o << Flag("MTE3", "V", s) >>)

PerTokenDequantConstructor == DequantFlags(SetFlag)

PerTokenDequantDestructor == DequantFlags(WaitFlag)

LoadStaged(e, s, matrix, b, i) ==
    << WaitFlag("V", "MTE2", 3 * s + e), Load("MTE2", Staged(matrix, s), Part(matrix, b, i)),
       SetFlag("MTE2", "V", 3 * s + e) >>

LoadDequant(b, i, s) ==
    LoadStaged(0, s, "C", b, i) \o LoadStaged(1, s, "Scale", b, i) \o LoadStaged(2, s, "PerTokenScale", b, i)

(* Calculates from what is in a staged buffer, and gives it back. *)
FromStaged(e, s, ins) == << WaitFlag("MTE2", "V", 3 * s + e), ins, SetFlag("V", "MTE2", 3 * s + e) >>

StoreDequant(b, i, s, from) ==
    << WaitFlag("MTE3", "V", s), Vec(Staged("D", s), {from}, "cast") >> \o Sync("V", "MTE3", s)
    \o << Copy("MTE3", Part("D", b, i), Staged("D", s)), SetFlag("MTE3", "V", s) >>

PerTokenDequant(b, i, n) ==
    LET s == n % UB_STAGES
    IN LoadDequant(b, i, s)
       \o FromStaged(0, s, Copy("V", U("CFp32"), Staged("C", s)))
       \o FromStaged(1, s, Copy("V", U("ScaleFp32"), Staged("Scale", s)))
       \o FromStaged(2, s, Copy("V", U("PerTokenScaleFp32"), Staged("PerTokenScale", s)))
       \o << Vec(U("Mul"), {U("CFp32"), U("ScaleFp32")}, "mul"), Copy("V", U("Brcb"), U("PerTokenScaleFp32")),
             Vec(U("Mul"), {U("Mul"), U("Brcb")}, "mul") >>
       \o StoreDequant(b, i, s, U("Mul"))

(* Scales that are floats already. *)
FloatDequantConstructor == DequantFlags(SetFlag)

FloatDequantDestructor == DequantFlags(WaitFlag)

FloatDequant(b, i, n) ==
    LET s == n % UB_STAGES
    IN LoadDequant(b, i, s)
       \o FromStaged(0, s, Copy("V", U("CFp32"), Staged("C", s)))
       \o FromStaged(1, s, Vec(U("Mul"), {U("CFp32"), Staged("Scale", s)}, "mul"))
       \o FromStaged(2, s, Copy("V", U("Brcb"), Staged("PerTokenScale", s)))
       \o << Vec(U("CFp32"), {U("Mul"), U("Brcb")}, "mul") >>
       \o StoreDequant(b, i, s, U("CFp32"))

DequantResult(b, i) ==
    LET scaled == Applied("mul", {NameOf(Part("C", b, i)), NameOf(Part("Scale", b, i))})
    IN Applied("cast", {Applied("mul", {scaled, NameOf(Part("PerTokenScale", b, i))})})

(* One set of buffers: a tile is loaded when the one before is stored. *)
W4A4Constructor == << SetFlag("MTE3", "MTE2", 0) >>

W4A4Destructor == << WaitFlag("MTE3", "MTE2", 0) >>

W4A4(b, i) ==
    << WaitFlag("MTE3", "MTE2", 0), Load("MTE2", U("C"), Part("C", b, i)),
       Load("MTE2", U("PerTokenScale"), Part("PerTokenScale", b, i)) >>
    \o Sync("MTE2", "V", 0)
    \o << Copy("V", U("Fp32"), U("C")), Copy("V", U("Brcb"), U("PerTokenScale")),
          Vec(U("Fp32"), {U("Fp32"), U("Brcb")}, "mul"), Vec(U("D"), {U("Fp32")}, "cast") >>
    \o Sync("V", "MTE3", 0)
    \o << Copy("MTE3", Part("D", b, i), U("D")), SetFlag("MTE3", "MTE2", 0) >>

W4A4Result(b, i) ==
    Applied("cast", {Applied("mul", {NameOf(Part("C", b, i)), NameOf(Part("PerTokenScale", b, i))})})

-----------------------------------------------------------------------------
(* D = alpha * C + beta * X. *)
GemmFlags(Flag(_, _, _)) == << Flag("V", "MTE2", 0), Flag("V", "MTE2", 1), Flag("MTE3", "V", 0) >>

GemmConstructor == GemmFlags(SetFlag)

GemmDestructor == GemmFlags(WaitFlag)

Gemm(b, i) ==
    << WaitFlag("V", "MTE2", 1), Load("MTE2", U("X"), Part("X", b, i)) >> \o Sync("MTE2", "V", 1)
    \o << Vec(U("X"), {U("X")}, "beta"), WaitFlag("V", "MTE2", 0), Load("MTE2", U("C"), Part("C", b, i)) >>
    \o Sync("MTE2", "V", 0)
    \o << Vec(U("C"), {U("C")}, "alpha"), WaitFlag("MTE3", "V", 0), Add("V", U("D"), {U("C"), U("X")}),
          SetFlag("V", "MTE2", 0), SetFlag("V", "MTE2", 1) >>
    \o Sync("V", "MTE3", 0)
    \o << Copy("MTE3", Part("D", b, i), U("D")), SetFlag("MTE3", "V", 0) >>

(* Z = alpha * C + beta * Y. *)
GemvConstructor == << SetFlag("MTE3", "MTE2", 0) >>

GemvDestructor == << WaitFlag("MTE3", "MTE2", 0) >>

Gemv(b, i) ==
    << WaitFlag("MTE3", "MTE2", 0), Load("MTE2", U("C"), Part("C", b, i)) >> \o Sync("MTE2", "V", 0)
    \o << Vec(U("C"), {U("C")}, "alpha") >> \o Sync("V", "MTE2", 0)
    \o << Load("MTE2", U("Y"), Part("X", b, i)) >> \o Sync("MTE2", "V", 0)
    \o << Vec(U("Y"), {U("Y")}, "beta"), Add("V", U("Z"), {U("C"), U("Y")}) >> \o Sync("V", "MTE3", 0)
    \o << Copy("MTE3", Part("D", b, i), U("Z")), SetFlag("MTE3", "MTE2", 0) >>

GemmResult(b, i) ==
    Applied("alpha", {NameOf(Part("C", b, i))}) (+) Applied("beta", {NameOf(Part("X", b, i))})

-----------------------------------------------------------------------------
BlockEpiloguePrograms ==
    LET cores == << Aiv(0), Aiv(1) >>
        Program(constructor, Stream(_), destructor, parts, Result(_, _)) ==
          Loaded(Merged(cores, LAMBDA core : constructor \o Stream(core) \o destructor),
                 [d \in {Part("D", p[1], p[2]) : p \in parts} |-> Result(d[2], d[3])], FALSE)
        InHalves(constructor, Call(_, _), destructor, Result(_, _)) ==
          Program(constructor, LAMBDA core : OnHalves(core, Call), destructor,
                  (DOMAIN Tiles) \X (0..(SubBlockNum - 1)), Result)
        InTiles(constructor, Tile(_, _, _), destructor, Result(_, _)) ==
          Program(constructor, LAMBDA core : OnTiles(core, Tile), destructor,
                  UNION {{b} \X (0..(Tiles[b] - 1)) : b \in DOMAIN Tiles}, Result)
    IN "elementwise epilogue, one source" :>
         InHalves(OneSourceConstructor, OneSource, OneSourceDestructor, OneSourceResult)
       @@ "elementwise epilogue, no source" :>
         InHalves(NoSourceConstructor, NoSource, NoSourceDestructor, NoSourceResult)
       @@ "per-token dequantisation" :>
         InTiles(PerTokenDequantConstructor, PerTokenDequant, PerTokenDequantDestructor, DequantResult)
       @@ "per-token dequantisation with float scales" :>
         InTiles(FloatDequantConstructor, FloatDequant, FloatDequantDestructor, DequantResult)
       @@ "w4a4 dequantisation" :>
         InTiles(W4A4Constructor, LAMBDA b, i, n : W4A4(b, i), W4A4Destructor, W4A4Result)
       @@ "gemm epilogue" :> InHalves(GemmConstructor, Gemm, GemmDestructor, GemmResult)
       @@ "gemv epilogue" :> InHalves(GemvConstructor, Gemv, GemvDestructor, GemmResult)
===============================================================================
