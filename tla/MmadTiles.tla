------------------------------ MODULE MmadTiles -------------------------------
(***************************************************************************)
(* What the block mmads have in common: a call multiplies one block, whose *)
(* k axis is cut into L1 tiles and these into L0 parts.  A and B have      *)
(* buffers of their own on L1 and on L0, used in turn, and the products    *)
(* are summed up in L0C.  The modules of the blocks build the instruction  *)
(* stream of a whole life of an object: constructor, calls, destructor.    *)
(*                                                                         *)
(* static_asserts of the classes make the m and n part loops run once: the *)
(* L0 tile is as wide as the L1 tile on both axes.                         *)
(***************************************************************************)
EXTENDS PipeInstructions

CONSTANTS
    Stages,         \* STAGES
    L1TileK,        \* L1TileShape::K
    L0TileK,        \* L0TileShape::K
    CallK,          \* CallK[c]: actualShape.k() of the c-th call of operator()
    StartTile,      \* AscendC::GetBlockIdx() with ENABLE_SHUFFLE_K, otherwise 0
    UnitFlag        \* ENABLE_UNIT_FLAG

ParametersOK ==
    /\ Stages \in Nat \ {0}
    /\ L0TileK \in 1..L1TileK
    /\ \A c \in DOMAIN CallK : CallK[c] \in Nat \ {0}
    /\ StartTile \in Nat
    /\ UnitFlag \in BOOLEAN

Calls == DOMAIN CallK

TileCount(c) == CeilDiv(CallK[c], L1TileK)

(* Its kActual, in L0 parts. *)
PartCount(c, k) ==
    CeilDiv(IF k < TileCount(c) - 1 THEN L1TileK ELSE CallK[c] - k * L1TileK, L0TileK)

(* The tiles in the order in which they are used: tile k of call c. *)
Tiles ==
    FlattenSeq([c \in Calls |->
      [i \in 1..TileCount(c) |->
         LET k == (StartTile + i - 1) % TileCount(c)
         IN [call |-> c, k |-> k, parts |-> PartCount(c, k),
             first |-> i = 1, last |-> i = TileCount(c)]]])

(* Tiles and L0 parts before the n-th tile: list ids that run on from call *)
(* to call are the number of buffers used so far, mod the stages.          *)
Ring(n) == n % Stages

PartsBefore(n) == FoldLeft(LAMBDA sum, t : sum + t.parts, 0, SubSeq(Tiles, 1, n - 1))

FirstTile(c) == CHOOSE n \in DOMAIN Tiles : Tiles[n].call = c /\ Tiles[n].first

LastTile(c) == CHOOSE n \in DOMAIN Tiles : Tiles[n].call = c /\ Tiles[n].last

-----------------------------------------------------------------------------
(* Events: the A buffers use ids 0 .. Stages-1, the B buffers the next     *)
(* Stages ids, the accumulator id 0.                                       *)
EventA(i) == i

EventB(i) == i + Stages

UnitId == -1

(* The constructor hands every buffer to its producer. *)
GiveBuffers ==
    For(0, Stages - 1, LAMBDA i :
        << SetFlag("MTE1", "MTE2", EventA(i)), SetFlag("MTE1", "MTE2", EventB(i)),
           SetFlag("M", "MTE1", EventA(i)), SetFlag("M", "MTE1", EventB(i)) >>)

(* The destructor takes every event back. *)
TakeBuffers ==
    For(0, Stages - 1, LAMBDA i :
        << WaitFlag("MTE1", "MTE2", EventA(i)), WaitFlag("MTE1", "MTE2", EventB(i)),
           WaitFlag("M", "MTE1", EventA(i)), WaitFlag("M", "MTE1", EventB(i)) >>)

(* GM to L1 of tile n of an operand. *)
LoadOperand(operand, n, buffer, event) ==
    << WaitFlag("MTE1", "MTE2", event),
       Load("MTE2", buffer, <<operand, Tiles[n].call, Tiles[n].k>>),
       SetFlag("MTE2", "MTE1", event) >>

LoadTile(n) ==
    LET s == Ring(n - 1)
    IN LoadOperand("A", n, <<"L1A", s>>, EventA(s)) \o LoadOperand("B", n, <<"L1B", s>>, EventB(s))

(* L1 to L0 of part p of tile n: the first part waits for the tile, the    *)
(* last part gives the L1 buffer back.                                     *)
LoadPart(n, p, buffer, event, l0Buffer, l0Event) ==
    << WaitFlag("M", "MTE1", l0Event) >>
    \o When(p = 0, << WaitFlag("MTE2", "MTE1", event) >>)
    \o << Do("MTE1", l0Buffer, {buffer}, <<"part", p>>) >>
    \o When(p = Tiles[n].parts - 1, << SetFlag("MTE1", "MTE2", event) >>)

LoadPartA(n, p, l) ==
    LET s == Ring(n - 1) IN LoadPart(n, p, <<"L1A", s>>, EventA(s), <<"L0A", l>>, EventA(l))

LoadPartB(n, p, l) ==
    LET s == Ring(n - 1) IN LoadPart(n, p, <<"L1B", s>>, EventB(s), <<"L0B", l>>, EventB(l))

(* Mutant: the accumulator is cleared by the first part of every tile. *)
InitCEveryTile(n, p) == p = 0

InitC(n, p) == Tiles[n].first /\ p = 0

(* One tileMmad; with the unit flag the hardware holds the first one back  *)
(* until the last block has left the accumulator, and the last one of the  *)
(* block (unitFlag 0b11) releases it.                                      *)
Mmad(n, p, inputs, accumulator) ==
    LET last == Tiles[n].last /\ p = Tiles[n].parts - 1
    IN When(UnitFlag /\ InitC(n, p), << WaitFlag("FIX", "M", UnitId) >>)
       \o << Do("M", accumulator, inputs \cup (IF InitC(n, p) THEN {} ELSE {accumulator}), <<"mmad">>) >>
       \o When(UnitFlag /\ last, << SetFlag("M", "FIX", UnitId) >>)

(* Mutant: only the first part of a tile waits for its copies to L0. *)
MmadWaitsOnce(n, l) ==
    For(0, Tiles[n].parts - 1, LAMBDA p :
        LoadPartA(n, p, l[p]) \o LoadPartB(n, p, l[p])
        \o << SetFlag("MTE1", "M", 0) >> \o When(p = 0, << WaitFlag("MTE1", "M", 0) >>)
        \o Mmad(n, p, {<<"L0A", l[p]>>, <<"L0B", l[p]>>}, <<"L0C">>)
        \o << SetFlag("M", "MTE1", EventB(l[p])), SetFlag("M", "MTE1", EventA(l[p])) >>)

(* The parts of tile n, part p in the L0 buffers l[p]. *)
TileMmads(n, l) ==
    For(0, Tiles[n].parts - 1, LAMBDA p :
        LoadPartA(n, p, l[p]) \o LoadPartB(n, p, l[p])
        \o Sync("MTE1", "M", 0)
        \o Mmad(n, p, {<<"L0A", l[p]>>, <<"L0B", l[p]>>}, <<"L0C">>)
        \o << SetFlag("M", "MTE1", EventB(l[p])), SetFlag("M", "MTE1", EventA(l[p])) >>)

(* L0 list ids that run on, and ids that begin again with every tile. *)
RunningIds(n) == [p \in 0..(Tiles[n].parts - 1) |-> Ring(PartsBefore(n) + p)]

FreshIds(n) == [p \in 0..(Tiles[n].parts - 1) |-> Ring(p)]

-----------------------------------------------------------------------------
FixWait == When(~UnitFlag, << WaitFlag("FIX", "M", 0) >>)

(* Mutant: the accumulator is not handed back after the store. *)
CopyOutKeepsL0C(block) ==
    IF UnitFlag
    THEN << WaitFlag("M", "FIX", UnitId), Copy("FIX", block, <<"L0C">>) >>
    ELSE Sync("M", "FIX", 0) \o << Copy("FIX", block, <<"L0C">>) >>

(* copyL0CToGm of a block. *)
CopyOut(block) ==
    IF UnitFlag
    THEN << WaitFlag("M", "FIX", UnitId), Copy("FIX", block, <<"L0C">>), SetFlag("FIX", "M", UnitId) >>
    ELSE Sync("M", "FIX", 0) \o << Copy("FIX", block, <<"L0C">>), SetFlag("FIX", "M", 0) >>

(* After reset the hardware's unit flag says that the accumulator is free, *)
(* as it does when the blocks are done.                                    *)
Within(stream) ==
    When(UnitFlag, << SetFlag("FIX", "M", UnitId) >>) \o stream
    \o When(UnitFlag, << WaitFlag("FIX", "M", UnitId) >>)

-----------------------------------------------------------------------------
(* Every block is the sum of the products of all of its k parts, each      *)
(* taken once.                                                             *)
Product(c) ==
    LET Part(operand, k, p) == SetToBag({<<"part", p, SetToBag({<<operand, c, k>>})>>})
    IN SetToBag(UNION {{<<"mmad", Part("A", k, p), Part("B", k, p)>> : p \in 0..(PartCount(c, k) - 1)} :
                       k \in 0..(TileCount(c) - 1)})

Expected == [b \in {<<"C", c>> : c \in Calls} |-> Product(b[2])]
===============================================================================
