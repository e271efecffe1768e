--------------------------------- MODULE Gemv ----------------------------------
(***************************************************************************)
(* Matrix times vector (include/catlass/gemv): the block of the cube core, *)
(* for which x is A and the matrix B, with the kernel whose vector cores   *)
(* add the product to z (block/block_gemv_aic.hpp,                         *)
(* kernel/kernel_gemv_aic.hpp), and the block of a vector core             *)
(* (block/block_gemv_aiv.hpp).                                             *)
(*                                                                         *)
(* CallK is actualShape.n() of the calls.                                  *)
(***************************************************************************)
EXTENDS MmadTiles, KernelInstructions

CONSTANT L0CTileNum     \* L0C_TILE_NUM of the cube core

GemvParametersOK == ParametersOK /\ Stages = 2 /\ ~UnitFlag /\ L0CTileNum \in Nat \ {0}

-----------------------------------------------------------------------------
(* BlockGemv on a cube core: one tile, of this block or of the next one,   *)
(* is loaded while another one is multiplied.                              *)
AicPart(n, p, l) ==
    LET s == Ring(n - 1)
        Part(l1, l0, event) ==
          << WaitFlag("M", "MTE1", event), Do("MTE1", <<l0, l>>, {<<l1, s>>}, <<"part", p>>),
             SetFlag("MTE1", "M", event) >>
    IN Part("L1A", "L0A", EventA(l)) \o Part("L1B", "L0B", EventB(l))
       \o << WaitFlag("MTE1", "M", EventB(l)), WaitFlag("MTE1", "M", EventA(l)) >>
       \o Mmad(n, p, {<<"L0A", l>>, <<"L0B", l>>}, <<"L0C", (Tiles[n].call - 1) % L0CTileNum>>)
       \o << SetFlag("M", "MTE1", EventA(l)), SetFlag("M", "MTE1", EventB(l)) >>

AicTile(n) ==
    LET s == Ring(n - 1)
        l == RunningIds(n)
    IN When(n = 1, LoadTile(n)) \o When(n < Len(Tiles), LoadTile(n + 1))
       \o << WaitFlag("MTE2", "MTE1", EventA(s)), WaitFlag("MTE2", "MTE1", EventB(s)) >>
       \o For(0, Tiles[n].parts - 1, LAMBDA p : AicPart(n, p, l[p]))
       \o << SetFlag("MTE1", "MTE2", EventA(s)), SetFlag("MTE1", "MTE2", EventB(s)) >>

AicConstructor == GiveBuffers

AicDestructor == TakeBuffers

(* The vector cores get half of the block each. *)
AicCall(c) ==
    LET singleIdx == (c - 1) % L0CTileNum
    IN For(FirstTile(c), LastTile(c), AicTile)
       \o Sync("M", "FIX", singleIdx)
       \o For(0, SubBlockNum - 1, LAMBDA sub : << Copy("FIX", <<"Y", c, sub>>, <<"L0C", singleIdx>>) >>)

GemvAic(core) ==
    AicConstructor
    \o For(0, L0CTileNum - 1, LAMBDA i : << SetFlag("FIX", "M", i) >>)
    \o For(1, Len(CallK), LAMBDA c :
         LET singleIdx == (c - 1) % L0CTileNum
         IN << WaitFlag("FIX", "M", singleIdx) >> \o AicCall(c)
            \o SetFlagWithReverse(core, "FIX", 0, 1, c) \o << SetFlag("FIX", "M", singleIdx) >>)
    \o For(0, L0CTileNum - 1, LAMBDA i : << WaitFlag("FIX", "M", i) >>)
    \o AicDestructor

(* The epilogue reads z and writes it (see BlockEpilogues for its inside). *)
GemvEpilogue(core) ==
    LET Part(name, c) == <<name, c, SubBlockIdx(core[2])>>
    IN VectorCore(For(1, Len(CallK), LAMBDA c :
         WaitFlagWithReverse(core, "MTE3", 0, 1, c)
         \o VectorTile(c, {Part("Y", c), Part("Z", c)}, Part("Z", c))))

GemvAicExpected ==
    [z \in {<<"Z", c, sub>> : c \in Calls, sub \in 0..(SubBlockNum - 1)} |-> Product(z[2]) (+) NameOf(z)]

GemvAicProgram ==
    Loaded(Kernel(1, LAMBDA core : IF core[1] = "aic" THEN GemvAic(core) ELSE GemvEpilogue(core)),
           Table(GemvAicExpected), FALSE)

-----------------------------------------------------------------------------
(* BlockGemv on a vector core.  The buffer of y goes from MTE2 to V and    *)
(* back under the event ids of the buffers of A.                           *)
AivConstructor ==
    For(0, Stages - 1, LAMBDA i :
        << SetFlag("V", "MTE2", EventA(i)), SetFlag("V", "MTE2", EventB(i)), SetFlag("MTE3", "MTE2", i) >>)

AivDestructor ==
    For(0, Stages - 1, LAMBDA i :
        << WaitFlag("V", "MTE2", EventA(i)), WaitFlag("V", "MTE2", EventB(i)), WaitFlag("MTE3", "MTE2", i) >>)

LoadVector(n) ==
    LET s == Ring(n - 1)
        Operand(name, event) ==
          << WaitFlag("V", "MTE2", event),
             Load("MTE2", <<"UB", name, s>>, <<name, Tiles[n].call, Tiles[n].k>>), SetFlag("MTE2", "V", event) >>
    IN Operand("X", EventB(s)) \o Operand("A", EventA(s))

(* tileVmad multiplies into a workspace and adds that up in y. *)
AivTile(n, o) ==
    LET s == Ring(n - 1)
    IN When(~Tiles[n].last, LoadVector(n + 1))
       \o << WaitFlag("MTE2", "V", EventB(s)), Vec(<<"UB", "X", s>>, {<<"UB", "X", s>>}, "alpha"),
             WaitFlag("MTE2", "V", EventA(s)),
             Vec(<<"UB", "W", s>>, {<<"UB", "X", s>>, <<"UB", "A", s>>}, "vmad"),
             Add("V", <<"UB", "Y", o>>, {<<"UB", "Y", o>>, <<"UB", "W", s>>}),
             SetFlag("V", "MTE2", EventA(s)), SetFlag("V", "MTE2", EventB(s)) >>

AivCall(c) ==
    LET o == Ring(c - 1)
    IN << WaitFlag("MTE3", "MTE2", o), Load("MTE2", <<"UB", "Y", o>>, <<"Y", c>>) >>
       \o Sync("MTE2", "V", o)
       \o << Vec(<<"UB", "Y", o>>, {<<"UB", "Y", o>>}, "beta") >>
       \o Sync("V", "MTE2", o)
       \o LoadVector(FirstTile(c))
       \o For(FirstTile(c), LastTile(c), LAMBDA n : AivTile(n, o))
       \o Sync("V", "MTE3", o)
       \o << Copy("MTE3", <<"Z", c>>, <<"UB", "Y", o>>), SetFlag("MTE3", "MTE2", o) >>

GemvAivStream == AivConstructor \o For(1, Len(CallK), AivCall) \o AivDestructor

GemvAivExpected ==
    LET Name(operand, c, k) == NameOf(<<operand, c, k>>)
        Tile(c, k) == <<"apply", "vmad", {Applied("alpha", {Name("X", c, k)}), Name("A", c, k)}>>
    IN [z \in {<<"Z", c>> : c \in Calls} |->
          Applied("beta", {NameOf(<<"Y", z[2]>>)})
          (+) SetToBag({Tile(z[2], k) : k \in 0..(TileCount(z[2]) - 1)})]
================================================================================
