------------------------- MODULE BlockMmadPreloadAsync -------------------------
(***************************************************************************)
(* The blocks that multiply a tile only when PreloadStages further tiles   *)
(* have been asked for (include/catlass/gemm/block/                        *)
(* block_mmad_preload_async.hpp and _preload_async_with_callback.hpp).     *)
(* What is pending outlives a call: the last tiles of a block are          *)
(* multiplied, and the block is stored, during the next call or in         *)
(* SynchronizeBlock, and the caller hears of it by its callback.           *)
(***************************************************************************)
EXTENDS MmadTiles

CONSTANTS PreloadStages, L0AStages, L0BStages, L0CStages

AsyncParametersOK ==
    /\ ParametersOK
    /\ PreloadStages \in 1..(Stages - 1)
    /\ {L0AStages, L0BStages, L0CStages} \subseteq Nat \ {0}

L0AEvent(i) == i

L0BEvent(i) == i + L0AStages

(* InitL1, InitL0A, InitL0B, InitL0C. *)
InitL1 ==
    For(0, Stages - 1, LAMBDA i :
        << SetFlag("MTE1", "MTE2", EventA(i)), SetFlag("MTE1", "MTE2", EventB(i)) >>)

InitL0A == For(0, L0AStages - 1, LAMBDA i : << SetFlag("M", "MTE1", L0AEvent(i)) >>)

InitL0B == For(0, L0BStages - 1, LAMBDA i : << SetFlag("M", "MTE1", L0BEvent(i)) >>)

InitL0C == For(0, L0CStages - 1, LAMBDA i : << SetFlag("FIX", "M", i) >>)

Constructor == InitL1 \o InitL0A \o InitL0B \o InitL0C

TakeAll ==
    For(0, Stages - 1, LAMBDA i :
        << WaitFlag("MTE1", "MTE2", EventA(i)), WaitFlag("MTE1", "MTE2", EventB(i)) >>)
    \o For(0, L0AStages - 1, LAMBDA i : << WaitFlag("M", "MTE1", L0AEvent(i)) >>)
    \o For(0, L0BStages - 1, LAMBDA i : << WaitFlag("M", "MTE1", L0BEvent(i)) >>)
    \o For(0, L0CStages - 1, LAMBDA i : << WaitFlag("FIX", "M", i) >>)

(* The L0C buffers are used in turn by the calls, the L0A and L0B buffers  *)
(* by the parts.  The unit flag belongs to a buffer.                       *)
Accumulator(n) == (Tiles[n].call - 1) % L0CStages

UnitFlagId(n) == -1 - Accumulator(n)

PartMmad(n, p, a, b) ==
    LET s == Ring(n - 1)
        c == Accumulator(n)
        last == Tiles[n].last /\ p = Tiles[n].parts - 1
    IN LoadPart(n, p, <<"L1A", s>>, EventA(s), <<"L0A", a>>, L0AEvent(a))
       \o LoadPart(n, p, <<"L1B", s>>, EventB(s), <<"L0B", b>>, L0BEvent(b))
       \o Sync("MTE1", "M", 0)
       \o When(UnitFlag /\ InitC(n, p), << WaitFlag("FIX", "M", UnitFlagId(n)) >>)
       \o << Do("M", <<"L0C", c>>,
                {<<"L0A", a>>, <<"L0B", b>>} \cup (IF InitC(n, p) THEN {} ELSE {<<"L0C", c>>}), <<"mmad">>) >>
       \o When(UnitFlag /\ last, << SetFlag("M", "FIX", UnitFlagId(n)) >>)
       \o << SetFlag("M", "MTE1", L0BEvent(b)), SetFlag("M", "MTE1", L0AEvent(a)) >>

TileParts(n) ==
    For(0, Tiles[n].parts - 1, LAMBDA p :
        PartMmad(n, p, (PartsBefore(n) + p) % L0AStages, (PartsBefore(n) + p) % L0BStages))

FixpipeOf(n) ==
    LET c == Accumulator(n)
        store == << Copy("FIX", <<"C", Tiles[n].call>>, <<"L0C", c>>) >>
    IN IF UnitFlag
       THEN << WaitFlag("M", "FIX", UnitFlagId(n)) >> \o store \o << SetFlag("FIX", "M", UnitFlagId(n)) >>
       ELSE Sync("M", "FIX", c) \o store \o << SetFlag("FIX", "M", c) >>

WithinAll(stream) ==
    When(UnitFlag, For(1, L0CStages, LAMBDA i : << SetFlag("FIX", "M", -i) >>)) \o stream
    \o When(UnitFlag, For(1, L0CStages, LAMBDA i : << WaitFlag("FIX", "M", -i) >>))

(* L1TileMmad of tile n; callbacks[c] is the one handed over with call c,  *)
(* for when its block has been stored.                                     *)
L1TileMmad(n, callbacks) ==
    When(~UnitFlag /\ Tiles[n].first, << WaitFlag("FIX", "M", Accumulator(n)) >>)
    \o TileParts(n)
    \o When(Tiles[n].last, FixpipeOf(n) \o callbacks[Tiles[n].call])

(* Tile n is asked for; the oldest of the pending ones is multiplied when  *)
(* there are PreloadStages of them.                                        *)
LoadAndPostpone(n, callbacks) ==
    LoadTile(n) \o When(n > PreloadStages, L1TileMmad(n - PreloadStages, callbacks))

Call(c, callbacks) == For(FirstTile(c), LastTile(c), LAMBDA n : LoadAndPostpone(n, callbacks))

(* What is still pending. *)
FirstPending == Len(Tiles) - (IF Len(Tiles) < PreloadStages THEN Len(Tiles) ELSE PreloadStages) + 1

SynchronizeBlock(callbacks) == For(FirstPending, Len(Tiles), LAMBDA n : L1TileMmad(n, callbacks))

Destructor(callbacks) == SynchronizeBlock(callbacks) \o TakeAll

(* Callback{} *)
NoCallbacks == [c \in DOMAIN CallK |-> <<>>]

Stream ==
    WithinAll(Constructor \o For(1, Len(CallK), LAMBDA c : Call(c, NoCallbacks)) \o Destructor(NoCallbacks))

-----------------------------------------------------------------------------
(* MmadAtlasA2PreloadAsyncWithCallback: the caller is called before the    *)
(* result is stored, to make sure that there is room for it, and after.    *)
CallbackInitL1 == InitL1

CallbackInitL0 == InitL0A \o InitL0B \o InitL0C

CallbackConstructor == CallbackInitL1 \o CallbackInitL0

CallbackTakeAll == TakeAll

CallbackL1TileMmad(n, before, after) ==
    When(~UnitFlag /\ Tiles[n].first, << WaitFlag("FIX", "M", Accumulator(n)) >>)
    \o TileParts(n)
    \o When(Tiles[n].last, before[Tiles[n].call] \o FixpipeOf(n) \o after[Tiles[n].call])

CallbackCall(c, before, after) ==
    For(FirstTile(c), LastTile(c), LAMBDA n :
        LoadTile(n) \o When(n > PreloadStages, CallbackL1TileMmad(n - PreloadStages, before, after)))

CallbackSynchronizeBlock(before, after) ==
    For(FirstPending, Len(Tiles), LAMBDA n : CallbackL1TileMmad(n, before, after))

CallbackDestructor(before, after) == CallbackSynchronizeBlock(before, after) \o CallbackTakeAll

CallbackStream(before, after) ==
    WithinAll(CallbackConstructor \o For(1, Len(CallK), LAMBDA c : CallbackCall(c, before, after))
              \o CallbackDestructor(before, after))

-----------------------------------------------------------------------------
(***************************************************************************)
(* The asynchronous block for 4 bit operands (include/catlass/gemm/block/  *)
(* block_mmad_w4a4_per_token_per_channel_dequant.hpp): the scale of a call *)
(* is loaded to L1 when the call begins and goes to the fixpipe's buffer   *)
(* when its block is stored, one or more calls later.                      *)
(***************************************************************************)
(* The scale buffers are used in turn by the calls. *)
ScaleBuffer(c) == (c - 1) % Stages

W4A4InitL1 == InitL1 \o For(0, Stages - 1, LAMBDA i : << SetFlag("FIX", "MTE2", i) >>)

W4A4InitL0 == InitL0A \o InitL0B \o InitL0C

W4A4Constructor == W4A4InitL1 \o W4A4InitL0

W4A4TakeAll == TakeAll \o For(0, Stages - 1, LAMBDA i : << WaitFlag("FIX", "MTE2", i) >>)

LoadScale(c) ==
    LET s == ScaleBuffer(c)
    IN << WaitFlag("FIX", "MTE2", s), Load("MTE2", <<"L1", s>>, <<"scale", c>>), SetFlag("MTE2", "FIX", s) >>

W4A4Fixpipe(n) ==
    LET c == Accumulator(n)
        s == ScaleBuffer(Tiles[n].call)
        store == << WaitFlag("MTE2", "FIX", s), Copy("FIX", <<"FB">>, <<"L1", s>>), SetFlag("FIX", "MTE2", s),
                    Do("FIX", <<"C", Tiles[n].call>>, {<<"L0C", c>>, <<"FB">>}, <<"apply", "scaled">>) >>
    IN IF UnitFlag
       THEN << WaitFlag("M", "FIX", UnitFlagId(n)) >> \o store \o << SetFlag("FIX", "M", UnitFlagId(n)) >>
       ELSE Sync("M", "FIX", c) \o store \o << SetFlag("FIX", "M", c) >>

(* L1TileMmad; the callbacks of the kernel are in EpilogueKernels. *)
W4A4L1TileMmad(n) ==
    When(~UnitFlag /\ Tiles[n].first, << WaitFlag("FIX", "M", Accumulator(n)) >>)
    \o TileParts(n)
    \o When(Tiles[n].last, W4A4Fixpipe(n))

W4A4Call(c) ==
    LoadScale(c)
    \o For(FirstTile(c), LastTile(c), LAMBDA n :
         LoadTile(n) \o When(n > PreloadStages, W4A4L1TileMmad(n - PreloadStages)))

(* What is pending when the calls are done; the destructor does not do it. *)
W4A4SynchronizeBlock == For(FirstPending, Len(Tiles), W4A4L1TileMmad)

W4A4Stream ==
    WithinAll(W4A4Constructor \o For(1, Len(CallK), W4A4Call) \o W4A4SynchronizeBlock \o W4A4TakeAll)

W4A4Expected ==
    [b \in DOMAIN Expected |-> Applied("scaled", {Expected[b], NameOf(<<"scale", b[2]>>)})]
==============================================================================
