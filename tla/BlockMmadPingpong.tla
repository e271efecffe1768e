-------------------------- MODULE BlockMmadPingpong --------------------------
(***************************************************************************)
(* The blocks that load the next L1 tile of a call while they multiply one *)
(* (include/catlass/gemm/block/block_mmad_pingpong.hpp and _tla, _bias and *)
(* _full_loadA).                                                           *)
(***************************************************************************)
EXTENDS MmadTiles

CONSTANT NewA   \* NewA[c]: needLoadL1 of call c, for the block that loads all of A

Constructor == GiveBuffers \o << SetFlag("FIX", "M", 0) >>

Destructor == TakeBuffers \o << WaitFlag("FIX", "M", 0) >>

(* The loop over the tiles: the tile after the one being multiplied is     *)
(* loaded first.                                                           *)
Pingpong(c, Loading(_), Multiplying(_)) ==
    For(FirstTile(c), LastTile(c), LAMBDA n :
        When(n < LastTile(c), Loading(n + 1)) \o Multiplying(n))

Multiply(n) == TileMmads(n, RunningIds(n))

(* operator() *)
Call(c) ==
    LoadTile(FirstTile(c)) \o FixWait \o Pingpong(c, LoadTile, Multiply) \o CopyOut(<<"C", c>>)

Stream == Within(Constructor \o For(1, Len(CallK), Call) \o Destructor)

-----------------------------------------------------------------------------
(* BlockMmadTla<MmadPingpong>: the same with tla tensors. *)
TlaConstructor == GiveBuffers \o << SetFlag("FIX", "M", 0) >>

TlaDestructor == TakeBuffers \o << WaitFlag("FIX", "M", 0) >>

TlaMultiply(n) == TileMmads(n, RunningIds(n))

TlaCall(c) ==
    LoadTile(FirstTile(c)) \o FixWait \o Pingpong(c, LoadTile, TlaMultiply) \o CopyOut(<<"C", c>>)

TlaStream == Within(TlaConstructor \o For(1, Len(CallK), TlaCall) \o TlaDestructor)

-----------------------------------------------------------------------------
(* MmadAtlasA2PingpongBias: the first tileMmad of a block starts from the  *)
(* bias, which goes from memory to L1 and on to the bias table.            *)
EventBias == 2 * Stages

BiasConstructor ==
    GiveBuffers
    \o << SetFlag("FIX", "M", 0), SetFlag("MTE1", "MTE2", EventBias), SetFlag("M", "MTE1", EventBias) >>

BiasDestructor ==
    TakeBuffers
    \o << WaitFlag("MTE1", "MTE2", EventBias), WaitFlag("M", "MTE1", EventBias), WaitFlag("FIX", "M", 0) >>

LoadBias(c) ==
    << WaitFlag("MTE1", "MTE2", EventBias), Load("MTE2", <<"L1", "bias">>, <<"bias", c>>),
       SetFlag("MTE2", "MTE1", EventBias) >>

BiasToTable ==
    << WaitFlag("MTE2", "MTE1", EventBias), WaitFlag("M", "MTE1", EventBias),
       Copy("MTE1", <<"BT">>, <<"L1", "bias">>), SetFlag("MTE1", "MTE2", EventBias) >>

BiasMultiply(n) ==
    LET l == RunningIds(n)
        Inputs(p) == {<<"L0A", l[p]>>, <<"L0B", l[p]>>} \cup (IF InitC(n, p) THEN {<<"BT">>} ELSE {})
    IN For(0, Tiles[n].parts - 1, LAMBDA p :
           LoadPartA(n, p, l[p]) \o LoadPartB(n, p, l[p])
           \o When(InitC(n, p), BiasToTable)
           \o Sync("MTE1", "M", 0)
           \o Mmad(n, p, Inputs(p), <<"L0C">>)
           \o When(InitC(n, p), << SetFlag("M", "MTE1", EventBias) >>)
           \o << SetFlag("M", "MTE1", EventB(l[p])), SetFlag("M", "MTE1", EventA(l[p])) >>)

BiasCall(c) ==
    LET n == FirstTile(c)  s == Ring(n - 1)
    IN LoadOperand("A", n, <<"L1A", s>>, EventA(s)) \o LoadBias(c)
       \o LoadOperand("B", n, <<"L1B", s>>, EventB(s)) \o FixWait
       \o Pingpong(c, LoadTile, BiasMultiply) \o CopyOut(<<"C", c>>)

BiasStream == Within(BiasConstructor \o For(1, Len(CallK), BiasCall) \o BiasDestructor)

BiasExpected == [b \in DOMAIN Expected |-> Expected[b] (+) SetToBag({<<"bias", b[2]>>})]

-----------------------------------------------------------------------------
(* MmadAtlasA2FullLoadA: all of A is loaded at once, and only when a call  *)
(* has another A than the one before (see KernelLoops); only B alternates. *)
(* The events of A are set and waited for on the spot.                     *)
FullLoadAConstructor ==
    For(0, Stages - 1, LAMBDA i :
        << SetFlag("MTE1", "MTE2", EventB(i)),
           SetFlag("M", "MTE1", EventA(i)), SetFlag("M", "MTE1", EventB(i)) >>)
    \o << SetFlag("FIX", "M", 0) >>

FullLoadADestructor ==
    For(0, Stages - 1, LAMBDA i :
        << WaitFlag("MTE1", "MTE2", EventB(i)),
           WaitFlag("M", "MTE1", EventA(i)), WaitFlag("M", "MTE1", EventB(i)) >>)
    \o << WaitFlag("FIX", "M", 0) >>

LoadAllA(c) ==
    Sync("MTE1", "MTE2", EventA(0)) \o << Load("MTE2", <<"L1A">>, <<"A", c>>) >>
    \o Sync("MTE2", "MTE1", EventA(0))

LoadTileB(n) == LoadOperand("B", n, <<"L1B", Ring(n - 1)>>, EventB(Ring(n - 1)))

FullLoadAMultiply(n) ==
    LET l == RunningIds(n)
    IN For(0, Tiles[n].parts - 1, LAMBDA p :
           << WaitFlag("M", "MTE1", EventA(l[p])),
              Do("MTE1", <<"L0A", l[p]>>, {<<"L1A">>}, <<"part", <<Tiles[n].k, p>> >>) >>
           \o LoadPartB(n, p, l[p])
           \o Sync("MTE1", "M", 0)
           \o Mmad(n, p, {<<"L0A", l[p]>>, <<"L0B", l[p]>>}, <<"L0C">>)
           \o << SetFlag("M", "MTE1", EventB(l[p])), SetFlag("M", "MTE1", EventA(l[p])) >>)

FullLoadACall(c) ==
    When(NewA[c], LoadAllA(c))
    \o LoadTileB(FirstTile(c)) \o FixWait
    \o Pingpong(c, LoadTileB, FullLoadAMultiply) \o CopyOut(<<"C", c>>)

FullLoadAStream ==
    Within(FullLoadAConstructor \o For(1, Len(CallK), FullLoadACall) \o FullLoadADestructor)

(* The A of a call is the last one that was loaded. *)
FullLoadAExpected ==
    LET LoadedA(c) == Max({b \in 1..c : NewA[b]})
        PartA(c, k, p) == SetToBag({<<"part", <<k, p>>, SetToBag({<<"A", LoadedA(c)>>})>>})
        PartB(c, k, p) == SetToBag({<<"part", p, SetToBag({<<"B", c, k>>})>>})
    IN [b \in {<<"C", c>> : c \in Calls} |->
          SetToBag(UNION {{<<"mmad", PartA(b[2], k, p), PartB(b[2], k, p)>> : p \in 0..(PartCount(b[2], k) - 1)} :
                          k \in 0..(TileCount(b[2]) - 1)})]

-----------------------------------------------------------------------------
(***************************************************************************)
(* Blocks whose calls have a k that fits into one L1 tile                  *)
(* (include/catlass/gemm/block/block_mmad_small.hpp and                    *)
(* block_mmad_dynamic_small.hpp): its parts are copied to L0 in turn.      *)
(***************************************************************************)
SmallParametersOK ==
    /\ ParametersOK
    /\ \A n \in DOMAIN Tiles : Tiles[n].first /\ Tiles[n].last

(* l1ListId is never moved on: the first pair of L1 buffers is used.       *)
LoadSmall(n) ==
    LoadOperand("A", n, <<"L1A", 0>>, EventA(0)) \o LoadOperand("B", n, <<"L1B", 0>>, EventB(0))

PartOfSmall(n, p, l) ==
    LoadPart(n, p, <<"L1A", 0>>, EventA(0), <<"L0A", l>>, EventA(l))
    \o LoadPart(n, p, <<"L1B", 0>>, EventB(0), <<"L0B", l>>, EventB(l))
    \o Sync("MTE1", "M", 0)
    \o Mmad(n, p, {<<"L0A", l>>, <<"L0B", l>>}, <<"L0C">>)
    \o << SetFlag("M", "MTE1", EventB(l)), SetFlag("M", "MTE1", EventA(l)) >>

SmallMultiply(n) ==
    LET l == RunningIds(n) IN For(0, Tiles[n].parts - 1, LAMBDA p : PartOfSmall(n, p, l[p]))

SmallConstructor == GiveBuffers \o When(~UnitFlag, << SetFlag("FIX", "M", 0) >>)

SmallDestructor == TakeBuffers \o FixWait

(* operator(); call c is tile c. *)
SmallCall(c) == FixWait \o LoadSmall(c) \o SmallMultiply(c) \o CopyOut(<<"C", c>>)

SmallStream == Within(SmallConstructor \o For(1, Len(CallK), SmallCall) \o SmallDestructor)

-----------------------------------------------------------------------------
(* MmadAtlasA2DynamicSmall: the same with tile shapes known at run time;   *)
(* the length of a part is what fits into L0.                              *)
DynamicSmallConstructor == SmallConstructor

DynamicSmallDestructor == SmallDestructor

DynamicSmallMultiply(n) ==
    LET l == RunningIds(n) IN For(0, Tiles[n].parts - 1, LAMBDA p : PartOfSmall(n, p, l[p]))

DynamicSmallCall(c) == FixWait \o LoadSmall(c) \o DynamicSmallMultiply(c) \o CopyOut(<<"C", c>>)

DynamicSmallStream ==
    Within(DynamicSmallConstructor \o For(1, Len(CallK), DynamicSmallCall) \o DynamicSmallDestructor)
==============================================================================
