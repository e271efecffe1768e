------------------------------ MODULE BlockConv3d ------------------------------
(***************************************************************************)
(* The block of the 3d convolution (include/catlass/conv/block/            *)
(* block_conv3d_pingpong_bias.hpp).  A call goes through output tiles, and *)
(* for each through the k axis, of which L1 holds several parts at a time: *)
(* loaded when they are needed, or ahead into a second buffer for the      *)
(* feature map alone or for the filter too.                                *)
(***************************************************************************)
EXTENDS PipeInstructions

CONSTANTS
    L1AStages, L1BStages, UnitFlag,
    KLoops,         \* ddr2l0LoopK: parts of the k axis
    MultiA, MultiB, \* multiKAL1, multiKBL1: of which a tile on L1 has so many
    Padded,         \* L0ASet2dFlag
    FullPad,        \* <<d, m, k>> of the tiles of the feature map that are all padding
    ConvCalls       \* of each call: the batches, the depth, and the L0 tiles
                    \* of each L1 tile along the rows and the channels

Conv3dParametersOK ==
    /\ L1AStages \in {1, 2} /\ L1BStages \in {1, 2} /\ UnitFlag \in BOOLEAN
    /\ MultiA \in 1..KLoops /\ MultiB \in 1..KLoops
    /\ FullPad # {} => Padded
    \* what preloading the filter needs and the code does not look at
    /\ (L1BStages = 2 /\ MultiB < KLoops) => KLoops % MultiB = 0

(* Which of them is on L1 as a whole, and whether tiles are loaded ahead. *)
FullA == MultiA = KLoops

FullB == MultiB = KLoops

PreloadsA == L1AStages = 2 /\ ~FullA /\ ~Padded /\ KLoops % MultiA = 0

PreloadsAll == PreloadsA /\ L1BStages = 2 /\ ~FullB

-----------------------------------------------------------------------------
(* The output tiles in the order of IterateNFirst, with what each needs to *)
(* have loaded.                                                            *)
OutputTiles ==
    FlattenSeq([c \in DOMAIN ConvCalls |->
      LET call == ConvCalls[c]
          Tile(b, d, m, n, m0, n0) ==
            << [call |-> c, batch |-> b, d |-> d, m |-> m, n |-> n, m0 |-> m0, n0 |-> n0,
                loadA |-> n = 1 /\ m0 = 1 /\ n0 = 1, loadB |-> m0 = 1 /\ n0 = 1] >>
      IN For(1, call.batches, LAMBDA b : For(1, call.depth, LAMBDA d :
         For(1, Len(call.m), LAMBDA m : For(1, Len(call.n), LAMBDA n :
         For(1, call.m[m], LAMBDA m0 : For(1, call.n[n], LAMBDA n0 : Tile(b, d, m, n, m0, n0)))))))])

FmapTile(o, k) == <<"A", o.call, o.batch, o.d, o.m, k>>

FilterTile(o, k) == <<"B", o.call, o.n, k>>

AllPadding(o, kIter) == <<o.d, o.m, kIter \div MultiA>> \in FullPad

(* l1AListId and l1BListId go on when the next tile is begun, those of the *)
(* filter only if it is loaded ahead.                                      *)
Switches(multi, k) == \/ k = KLoops - multi
                      \/ k < KLoops - multi /\ k % multi = 0

SwitchesUpto(multi, k) == Cardinality({i \in 1..k : Switches(multi, i)})

SlotA(t, k) ==
    (IF PreloadsA THEN (t - 1) * SwitchesUpto(MultiA, KLoops - 1) + SwitchesUpto(MultiA, k) ELSE 0) % L1AStages

SlotB(t, k) ==
    (IF PreloadsAll THEN (t - 1) * SwitchesUpto(MultiB, KLoops - 1) + SwitchesUpto(MultiB, k) ELSE 0) % L1BStages

-----------------------------------------------------------------------------
L1AEvent(i) == i

L1BEvent(i) == i + L1AStages

L1BiasEvent == L1AStages + L1BStages

L0AEvent(i) == i

L0BEvent(i) == i + 2

L0BiasEvent == 4

UnitId == -1

Conv3dConstructor ==
    For(0, 1, LAMBDA i : << SetFlag("M", "MTE1", L0AEvent(i)), SetFlag("M", "MTE1", L0BEvent(i)) >>)
    \o << SetFlag("FIX", "M", 0) >>
    \o For(0, L1AStages - 1, LAMBDA i : << SetFlag("MTE1", "MTE2", L1AEvent(i)) >>)
    \o For(0, L1BStages - 1, LAMBDA i : << SetFlag("MTE1", "MTE2", L1BEvent(i)) >>)
    \o << SetFlag("MTE1", "MTE2", L1BiasEvent), SetFlag("M", "MTE1", L0BiasEvent) >>

Conv3dDestructor ==
    For(0, 1, LAMBDA i : << WaitFlag("M", "MTE1", L0AEvent(i)), WaitFlag("M", "MTE1", L0BEvent(i)) >>)
    \o << WaitFlag("FIX", "M", 0) >>
    \o For(0, L1AStages - 1, LAMBDA i : << WaitFlag("MTE1", "MTE2", L1AEvent(i)) >>)
    \o For(0, L1BStages - 1, LAMBDA i : << WaitFlag("MTE1", "MTE2", L1BEvent(i)) >>)
    \o << WaitFlag("MTE1", "MTE2", L1BiasEvent), WaitFlag("M", "MTE1", L0BiasEvent) >>

(* LoadAL1Process and LoadBL1Process: padding is not loaded. *)
LoadA(o, k, slot) ==
    When(<<o.d, o.m, k>> \notin FullPad, << Load("MTE2", <<"L1A", slot>>, FmapTile(o, k)) >>)

LoadB(o, k, slot) == << Load("MTE2", <<"L1B", slot>>, FilterTile(o, k)) >>

LoadBias(o) ==
    << WaitFlag("MTE1", "MTE2", L1BiasEvent), Load("MTE2", <<"L1", "bias">>, <<"bias", o.call, o.n, o.n0>>) >>
    \o Sync("MTE2", "MTE1", L1BiasEvent)
    \o << WaitFlag("M", "MTE1", L0BiasEvent), Copy("MTE1", <<"BT">>, <<"L1", "bias">>) >>
    \o Sync("MTE1", "M", L0BiasEvent)
    \o << SetFlag("MTE1", "MTE2", L1BiasEvent) >>

(* ReduceKL0AL0BPingPong: one part of the k axis. *)
ReducePart(t, o, kIter) ==
    LET l == kIter % 2
        inputs == {<<"L0A", l>>, <<"L0B", l>>, IF kIter = 0 THEN <<"BT">> ELSE <<"L0C">>}
        fmap == IF AllPadding(o, kIter) THEN Load("MTE1", <<"L0A", l>>, <<"zero">>)
                ELSE Do("MTE1", <<"L0A", l>>, {<<"L1A", SlotA(t, kIter)>>}, <<"part", <<kIter % MultiA, o.m0>> >>)
    IN << WaitFlag("M", "MTE1", L0AEvent(l)), WaitFlag("M", "MTE1", L0BEvent(l)), fmap,
          Do("MTE1", <<"L0B", l>>, {<<"L1B", SlotB(t, kIter)>>}, <<"part", <<kIter % MultiB, o.n0>> >>),
          SetFlag("MTE1", "M", L0AEvent(l)), SetFlag("MTE1", "M", L0BEvent(l)),
          WaitFlag("MTE1", "M", L0AEvent(l)), WaitFlag("MTE1", "M", L0BEvent(l)) >>
       \o When(UnitFlag /\ kIter = 0, << WaitFlag("FIX", "M", UnitId) >>)
       \o << Do("M", <<"L0C">>, inputs, <<"mmad">>) >>
       \o When(UnitFlag /\ kIter = KLoops - 1, << SetFlag("M", "FIX", UnitId) >>)
       \o << SetFlag("M", "MTE1", L0AEvent(l)), SetFlag("M", "MTE1", L0BEvent(l)) >>

(* A load when the tile is needed: every pipe is waited for. *)
LoadNow(load, event) ==
    BarrierAll(<<"MTE2", "MTE1", "M", "FIX">>) \o Sync("MTE1", "MTE2", event) \o load \o Sync("MTE2", "MTE1", event)

LoadBNow(t, o, kIter) ==
    When((kIter = 0 /\ o.loadB) \/ (~FullB /\ kIter % MultiB = 0),
         LoadNow(LoadB(o, kIter \div MultiB, SlotB(t, kIter)), L1BEvent(SlotB(t, kIter))))

ReduceK(t, o) ==
    For(0, KLoops - 1, LAMBDA kIter :
        When((kIter = 0 /\ o.loadA) \/ (~FullA /\ kIter % MultiA = 0),
             LoadNow(LoadA(o, kIter \div MultiA, SlotA(t, kIter)), L1AEvent(SlotA(t, kIter))))
        \o LoadBNow(t, o, kIter)
        \o ReducePart(t, o, kIter))

(* The next tile of an operand is begun, and the buffer of the one before  *)
(* given back or loaded with the one after it.  Slot(k) is the buffer in   *)
(* use at k.                                                               *)
Advance(multi, kIter, Slot(_), Event(_), LoadInto(_, _)) ==
    LET old == Slot(kIter - 1)
    IN When(Switches(multi, kIter),
            << SetFlag("MTE1", "MTE2", Event(old)) >>
            \o When(kIter # KLoops - multi,
                    << WaitFlag("MTE1", "MTE2", Event(old)) >> \o LoadInto(kIter \div multi + 1, old)
                    \o << SetFlag("MTE2", "MTE1", Event(old)) >>)
            \o << WaitFlag("MTE2", "MTE1", Event(Slot(kIter))) >>)

AdvanceA(t, o, kIter) ==
    Advance(MultiA, kIter, LAMBDA k : SlotA(t, k), L1AEvent, LAMBDA k, slot : LoadA(o, k, slot))

AdvanceB(t, o, kIter) ==
    Advance(MultiB, kIter, LAMBDA k : SlotB(t, k), L1BEvent, LAMBDA k, slot : LoadB(o, k, slot))

FirstOf(slot, Event(_), load) ==
    << WaitFlag("MTE1", "MTE2", Event(slot)) >> \o load \o Sync("MTE2", "MTE1", Event(slot))

SecondOf(slot, Event(_), load) ==
    << WaitFlag("MTE1", "MTE2", Event(slot)) >> \o load \o << SetFlag("MTE2", "MTE1", Event(slot)) >>

NextA(t) == (SlotA(t, 0) + 1) % L1AStages

NextB(t) == (SlotB(t, 0) + 1) % L1BStages

ReduceKPreloadDbFmap(t, o) ==
    LET b == SlotB(t, 0)
    IN FirstOf(SlotA(t, 0), L1AEvent, LoadA(o, 0, SlotA(t, 0)))
       \o When(o.loadB \/ ~FullB,
               Sync("MTE1", "MTE2", L1BEvent(b)) \o LoadB(o, 0, b) \o Sync("MTE2", "MTE1", L1BEvent(b)))
       \o ReducePart(t, o, 0)
       \o SecondOf(NextA(t), L1AEvent, LoadA(o, 1, NextA(t)))
       \o For(1, KLoops - 1, LAMBDA kIter :
              AdvanceA(t, o, kIter) \o LoadBNow(t, o, kIter) \o ReducePart(t, o, kIter))
       \o << SetFlag("MTE1", "MTE2", L1AEvent(SlotA(t, KLoops - 1))) >>

ReduceKPreloadDbAll(t, o) ==
    FirstOf(SlotA(t, 0), L1AEvent, LoadA(o, 0, SlotA(t, 0)))
    \o FirstOf(SlotB(t, 0), L1BEvent, LoadB(o, 0, SlotB(t, 0)))
    \o SecondOf(NextA(t), L1AEvent, LoadA(o, 1, NextA(t)))
    \o SecondOf(NextB(t), L1BEvent, LoadB(o, 1, NextB(t)))
    \o ReducePart(t, o, 0)
    \o For(1, KLoops - 1, LAMBDA kIter :
           AdvanceA(t, o, kIter) \o AdvanceB(t, o, kIter) \o ReducePart(t, o, kIter))
    \o << SetFlag("MTE1", "MTE2", L1AEvent(SlotA(t, KLoops - 1))),
          SetFlag("MTE1", "MTE2", L1BEvent(SlotB(t, KLoops - 1))) >>

Output(o) == <<"C", o.call, o.batch, o.d, o.m, o.n, o.m0, o.n0>>

OutputTile(t) ==
    LET o == OutputTiles[t]
        reduce == IF PreloadsAll THEN ReduceKPreloadDbAll(t, o)
                  ELSE IF PreloadsA THEN ReduceKPreloadDbFmap(t, o)
                  ELSE ReduceK(t, o)
    IN LoadBias(o) \o When(~UnitFlag, << WaitFlag("FIX", "M", 0) >>)
       \o reduce \o << SetFlag("M", "MTE1", L0BiasEvent) >>
       \o (IF UnitFlag
           THEN << WaitFlag("M", "FIX", UnitId), Copy("FIX", Output(o), <<"L0C">>), SetFlag("FIX", "M", UnitId) >>
           ELSE Sync("M", "FIX", 0) \o << Copy("FIX", Output(o), <<"L0C">>), SetFlag("FIX", "M", 0) >>)

Conv3dStream ==
    When(UnitFlag, << SetFlag("FIX", "M", UnitId) >>)
    \o Conv3dConstructor \o For(1, Len(OutputTiles), OutputTile) \o Conv3dDestructor
    \o When(UnitFlag, << WaitFlag("FIX", "M", UnitId) >>)

(* The bias and the product of every part of the k axis. *)
Conv3dExpected ==
    LET Of(name, part) == SetToBag({<<"part", part, SetToBag({name})>>})
        Fmap(o, k) == IF AllPadding(o, k) THEN NameOf(<<"zero">>)
                      ELSE Of(FmapTile(o, k \div MultiA), <<k % MultiA, o.m0>>)
        Mmad(o, k) == <<"mmad", Fmap(o, k), Of(FilterTile(o, k \div MultiB), <<k % MultiB, o.n0>>)>>
        TileOf(c) == CHOOSE o \in Range(OutputTiles) : Output(o) = c
    IN [c \in {Output(o) : o \in Range(OutputTiles)} |->
          NameOf(<<"bias", c[2], c[6], c[8]>>) (+)
          SetToBag({Mmad(TileOf(c), k) : k \in 0..(KLoops - 1)})]
================================================================================
