------------------------------ MODULE BlockConv2d ------------------------------
(***************************************************************************)
(* The block of the 2d convolution (include/catlass/conv/block/            *)
(* block_conv2d_pingpong.hpp).  The input channels are the k axis, CallK   *)
(* is actualShape.cin1() of the calls and L1TileK FmapL1TileShape::Cin1; a *)
(* filter tile has the channels of several tiles of the feature map.       *)
(***************************************************************************)
EXTENDS MmadTiles

CONSTANTS       \* Stages is L1A_STAGES
    L1BStages, L0AStages, L0BStages,
    KFmapPerFilter, \* K_FMAP_PER_FILTER
    NParts          \* nPartLoop

Conv2dParametersOK ==
    /\ ParametersOK
    /\ Stages = 2   \* a tile is loaded before the one in use is given back
    /\ {L1BStages, L0AStages, L0BStages} \subseteq {1, 2}
    /\ KFmapPerFilter \in Nat \ {0} /\ NParts \in Nat \ {0}
    /\ StartTile = 0

FmapIdx(n) == Tiles[n].k % KFmapPerFilter

LastOfFilter(n) == FmapIdx(n) = KFmapPerFilter - 1

(* l1BListId goes on only after a filter tile all of whose channels have   *)
(* been used.                                                              *)
FilterSlot(n) == Cardinality({m \in 1..(n - 1) : LastOfFilter(m)}) % L1BStages

L1AEvent(i) == i

L1BEvent(i) == i + Stages

L0AEvent(i) == i

L0BEvent(i) == i + L0AStages

Conv2dConstructor ==
    For(0, Stages - 1, LAMBDA i : << SetFlag("MTE1", "MTE2", L1AEvent(i)) >>)
    \o For(0, L1BStages - 1, LAMBDA i : << SetFlag("MTE1", "MTE2", L1BEvent(i)) >>)
    \o For(0, L0AStages - 1, LAMBDA i : << SetFlag("M", "MTE1", L0AEvent(i)) >>)
    \o For(0, L0BStages - 1, LAMBDA i : << SetFlag("M", "MTE1", L0BEvent(i)) >>)
    \o << SetFlag("FIX", "M", 0) >>

Conv2dDestructor ==
    For(0, Stages - 1, LAMBDA i : << WaitFlag("MTE1", "MTE2", L1AEvent(i)) >>)
    \o For(0, L1BStages - 1, LAMBDA i : << WaitFlag("MTE1", "MTE2", L1BEvent(i)) >>)
    \o For(0, L0AStages - 1, LAMBDA i : << WaitFlag("M", "MTE1", L0AEvent(i)) >>)
    \o For(0, L0BStages - 1, LAMBDA i : << WaitFlag("M", "MTE1", L0BEvent(i)) >>)
    \o << WaitFlag("FIX", "M", 0) >>

LoadFmap(n) == LoadOperand("A", n, <<"L1A", Ring(n - 1)>>, L1AEvent(Ring(n - 1)))

(* The filter tile that tile n begins. *)
LoadFilter(n) ==
    LET s == FilterSlot(n)
    IN << WaitFlag("MTE1", "MTE2", L1BEvent(s)),
          Load("MTE2", <<"L1B", s>>, <<"B", Tiles[n].call, Tiles[n].k \div KFmapPerFilter>>),
          SetFlag("MTE2", "MTE1", L1BEvent(s)) >>

(* With the unit flag each part of the accumulator has its own. *)
PartFlag(q) == UnitId - q

Conv2dMmad(n, p, q, l0A, l0B) ==
    LET inputs == {<<"L0A", l0A>>, <<"L0B", l0B>>}
        accumulator == <<"L0C", q>>
    IN When(UnitFlag /\ InitC(n, p), << WaitFlag("FIX", "M", PartFlag(q)) >>)
       \o << Do("M", accumulator, inputs \cup (IF InitC(n, p) THEN {} ELSE {accumulator}), <<"mmad">>) >>
       \o When(UnitFlag /\ Tiles[n].last /\ p = Tiles[n].parts - 1, << SetFlag("M", "FIX", PartFlag(q)) >>)

(* Part p of the channels of tile n: one load of the feature map for all   *)
(* parts of the output channels.                                           *)
Conv2dPart(n, p) ==
    LET s == Ring(n - 1)
        f == FilterSlot(n)
        count == PartsBefore(n) + p
        l0A == count % L0AStages
        lastPart == p = Tiles[n].parts - 1
        NPart(q) ==
          LET l0B == (count * NParts + q) % L0BStages
          IN << WaitFlag("M", "MTE1", L0BEvent(l0B)) >>
             \o When(FmapIdx(n) = 0 /\ p = 0 /\ q = 0, << WaitFlag("MTE2", "MTE1", L1BEvent(f)) >>)
             \o << Do("MTE1", <<"L0B", l0B>>, {<<"L1B", f>>}, <<"part", <<FmapIdx(n), p, q>> >>) >>
             \o When((LastOfFilter(n) \/ Tiles[n].last) /\ lastPart /\ q = NParts - 1,
                     << SetFlag("MTE1", "MTE2", L1BEvent(f)) >>)
             \o Sync("MTE1", "M", 0) \o Conv2dMmad(n, p, q, l0A, l0B)
             \o << SetFlag("M", "MTE1", L0BEvent(l0B)) >>
    IN << WaitFlag("M", "MTE1", L0AEvent(l0A)) >>
       \o When(p = 0, << WaitFlag("MTE2", "MTE1", L1AEvent(s)) >>)
       \o << Do("MTE1", <<"L0A", l0A>>, {<<"L1A", s>>}, <<"part", p>>) >>
       \o When(lastPart, << SetFlag("MTE1", "MTE2", L1AEvent(s)) >>)
       \o For(0, NParts - 1, NPart)
       \o << SetFlag("M", "MTE1", L0AEvent(l0A)) >>

Conv2dTile(n) ==
    When(~Tiles[n].last, LoadFmap(n + 1) \o When(LastOfFilter(n), LoadFilter(n + 1)))
    \o For(0, Tiles[n].parts - 1, LAMBDA p : Conv2dPart(n, p))

Conv2dCopyOut(c) ==
    LET Part(q) == Copy("FIX", <<"C", c, q>>, <<"L0C", q>>)
    IN IF UnitFlag
       THEN For(0, NParts - 1, LAMBDA q :
              << WaitFlag("M", "FIX", PartFlag(q)), Part(q), SetFlag("FIX", "M", PartFlag(q)) >>)
       ELSE Sync("M", "FIX", 0) \o For(0, NParts - 1, LAMBDA q : << Part(q) >>) \o << SetFlag("FIX", "M", 0) >>

Conv2dCall(c) ==
    LoadFmap(FirstTile(c)) \o LoadFilter(FirstTile(c)) \o FixWait
    \o For(FirstTile(c), LastTile(c), Conv2dTile) \o Conv2dCopyOut(c)

Conv2dStream ==
    LET ofParts == [q \in 0..(NParts - 1) |-> PartFlag(q)]
    IN When(UnitFlag, For(0, NParts - 1, LAMBDA q : << SetFlag("FIX", "M", ofParts[q]) >>))
       \o Conv2dConstructor \o For(1, Len(CallK), Conv2dCall) \o Conv2dDestructor
       \o When(UnitFlag, For(0, NParts - 1, LAMBDA q : << WaitFlag("FIX", "M", ofParts[q]) >>))

(* Every channel of the feature map with its channel of the filter. *)
Conv2dExpected ==
    LET Of(name, part) == SetToBag({<<"part", part, SetToBag({name})>>})
        Mmads(c, q, k) ==
          {<<"mmad", Of(<<"A", c, k>>, p), Of(<<"B", c, k \div KFmapPerFilter>>, <<k % KFmapPerFilter, p, q>>)>> :
             p \in 0..(PartCount(c, k) - 1)}
    IN [b \in {<<"C", c, q>> : c \in Calls, q \in 0..(NParts - 1)} |->
          SetToBag(UNION {Mmads(b[2], b[3], k) : k \in 0..(TileCount(b[2]) - 1)})]
================================================================================
