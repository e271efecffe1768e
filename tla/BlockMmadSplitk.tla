---------------------------- MODULE BlockMmadSplitk ----------------------------
(***************************************************************************)
(* The blocks of the single core split-k matmuls                           *)
(* (include/catlass/gemm/block/block_mmad_single_core_splitk.hpp and       *)
(* _dynamic_single_core_splitk.hpp).  A call multiplies one L1 tile of A   *)
(* with one of B, piece by piece of the m and n axes, and adds the pieces  *)
(* to memory.  Of the tiles of the next call only those are loaded that    *)
(* are not on L1 already, during the call if there is a second buffer and  *)
(* after it otherwise.                                                     *)
(***************************************************************************)
EXTENDS PipeInstructions

CONSTANTS
    L1AStages, L1BStages, L0CStages,
    Blocks,         \* the calls: m, n, k of the block, and the pieces of each axis of it
    UnitFlag

L0Stages == 2

ParametersOK ==
    /\ {L1AStages, L1BStages, L0CStages} \subseteq Nat \ {0}
    /\ UnitFlag => L0CStages = 1

EventA(i) == i
EventB(i) == i + L1AStages
L0AEvent(i) == i
L0BEvent(i) == i + L0Stages
UnitId == -1

Constructor ==
    For(0, L1AStages - 1, LAMBDA i : << SetFlag("MTE1", "MTE2", EventA(i)) >>)
    \o For(0, L1BStages - 1, LAMBDA i : << SetFlag("MTE1", "MTE2", EventB(i)) >>)
    \o For(0, L0Stages - 1, LAMBDA i :
         << SetFlag("M", "MTE1", L0AEvent(i)), SetFlag("M", "MTE1", L0BEvent(i)) >>)
    \o For(0, L0CStages - 1, LAMBDA i : << SetFlag("FIX", "M", i) >>)

Destructor ==
    For(0, L1AStages - 1, LAMBDA i : << WaitFlag("MTE1", "MTE2", EventA(i)) >>)
    \o For(0, L1BStages - 1, LAMBDA i : << WaitFlag("MTE1", "MTE2", EventB(i)) >>)
    \o For(0, L0Stages - 1, LAMBDA i :
         << WaitFlag("M", "MTE1", L0AEvent(i)), WaitFlag("M", "MTE1", L0BEvent(i)) >>)
    \o For(0, L0CStages - 1, LAMBDA i : << WaitFlag("FIX", "M", i) >>)

-----------------------------------------------------------------------------
TileA(c) == <<"A", Blocks[c].m, Blocks[c].k>>

TileB(c) == <<"B", Blocks[c].k, Blocks[c].n>>

(* What the kernel says of the next block (needLoadNextA, needLoadNextB).  *)
NeedA(c) == c < Len(Blocks) /\ TileA(c + 1) # TileA(c)

NeedB(c) == c < Len(Blocks) /\ TileB(c + 1) # TileB(c)

(* preLoadedA, preLoadedB, and with them isFirstBlock and isLastBlock. *)
PreLoadedA(c) == c > 1 /\ NeedA(c - 1)

PreLoadedB(c) == c > 1 /\ NeedB(c - 1)

IsFirst(c) == ~PreLoadedA(c) /\ ~PreLoadedB(c)

IsLast(c) == ~NeedA(c) /\ ~NeedB(c)

(* l1AListId, l1BListId: they advance with every tile that is loaded. *)
IdA(c) == Cardinality({d \in 1..(c - 1) : NeedA(d)}) % L1AStages

IdB(c) == Cardinality({d \in 1..(c - 1) : NeedB(d)}) % L1BStages

LoadA(c, i) ==
    << WaitFlag("MTE1", "MTE2", EventA(i)), Load("MTE2", <<"L1A", i>>, TileA(c)),
       SetFlag("MTE2", "MTE1", EventA(i)) >>

LoadB(c, i) ==
    << WaitFlag("MTE1", "MTE2", EventB(i)), Load("MTE2", <<"L1B", i>>, TileB(c)),
       SetFlag("MTE2", "MTE1", EventB(i)) >>

LoadFirst(c) == When(IsFirst(c), LoadA(c, IdA(c)) \o LoadB(c, IdB(c)))

LoadNext(c) ==
    When(NeedA(c) /\ L1AStages > 1, LoadA(c + 1, IdA(c + 1)))
    \o When(NeedB(c) /\ L1BStages > 1, LoadB(c + 1, IdB(c + 1)))

LoadNextLate(c) ==
    When(NeedA(c) /\ L1AStages = 1, LoadA(c + 1, IdA(c + 1)))
    \o When(NeedB(c) /\ L1BStages = 1, LoadB(c + 1, IdB(c + 1)))

-----------------------------------------------------------------------------
(* Pieces of call c: piece <<i, j>> of the m and n axes is the             *)
(* PieceNumber-th one of all, and its accumulator goes in turn.            *)
PiecesOf(c) == Blocks[c].mLoops * Blocks[c].nLoops

PieceNumber(c, i, j) ==
    FoldLeftDomain(LAMBDA sum, d : sum + (IF d < c THEN PiecesOf(d) ELSE 0), 0, Blocks)
    + i * Blocks[c].nLoops + j

Accumulator(c, i, j) == PieceNumber(c, i, j) % L0CStages

(* The k loop of a piece.  The first part of a tile that has just been     *)
(* loaded waits for it (waitFlagA), and the last one gives it back if      *)
(* another one is to be loaded, or none at all (setFlagA).                 *)
PieceMmads(c, i, j) ==
    LET b == Blocks[c]
        start == i = 0 /\ j = 0
        end == i = b.mLoops - 1 /\ j = b.nLoops - 1
        acc == <<"L0C", Accumulator(c, i, j)>>
        Part(operand, l1, event, l0, l0Event, fresh, done, what, k) ==
          << WaitFlag("M", "MTE1", l0Event) >>
          \o When(fresh /\ start /\ k = 0, << WaitFlag("MTE2", "MTE1", event) >>)
          \o << Do("MTE1", l0, {l1}, <<"part", what>>) >>
          \o When(done /\ end /\ k = b.kLoops - 1, << SetFlag("MTE1", "MTE2", event) >>)
    IN For(0, b.kLoops - 1, LAMBDA k :
         LET l == k % L0Stages IN
         Part("A", <<"L1A", IdA(c)>>, EventA(IdA(c)), <<"L0A", l>>, L0AEvent(l),
              IsFirst(c) \/ PreLoadedA(c), NeedA(c) \/ IsLast(c), <<i, k>>, k)
         \o Part("B", <<"L1B", IdB(c)>>, EventB(IdB(c)), <<"L0B", l>>, L0BEvent(l),
                 IsFirst(c) \/ PreLoadedB(c), NeedB(c) \/ IsLast(c), <<k, j>>, k)
         \o Sync("MTE1", "M", Accumulator(c, i, j))
         \o When(UnitFlag /\ k = 0, << WaitFlag("FIX", "M", UnitId) >>)
         \o << Do("M", acc, {<<"L0A", l>>, <<"L0B", l>>} \cup (IF k = 0 THEN {} ELSE {acc}), <<"mmad">>) >>
         \o When(UnitFlag /\ k = b.kLoops - 1, << SetFlag("M", "FIX", UnitId) >>)
         \o << SetFlag("M", "MTE1", L0BEvent(l)), SetFlag("M", "MTE1", L0AEvent(l)) >>)

(* A piece is added to what is in memory, except by the first block of its *)
(* place (IsAtomicAdd of the scheduler).                                   *)
IsAtomicAdd(c) == \E d \in 1..(c - 1) : Blocks[d].m = Blocks[c].m /\ Blocks[d].n = Blocks[c].n

PieceOut(c, i, j) ==
    LET id == Accumulator(c, i, j)
        place == <<"C", Blocks[c].m, Blocks[c].n, i, j>>
        store == << Add("FIX", place, {<<"L0C", id>>} \cup (IF IsAtomicAdd(c) THEN {place} ELSE {})) >>
    IN IF UnitFlag
       THEN << WaitFlag("M", "FIX", UnitId) >> \o store \o << SetFlag("FIX", "M", UnitId) >>
       ELSE Sync("M", "FIX", id) \o store \o << SetFlag("FIX", "M", id) >>

PiecesMultiplied(c) ==
    For(0, Blocks[c].mLoops - 1, LAMBDA i :
      For(0, Blocks[c].nLoops - 1, LAMBDA j :
        When(~UnitFlag, << WaitFlag("FIX", "M", Accumulator(c, i, j)) >>)
        \o PieceMmads(c, i, j) \o PieceOut(c, i, j)))

Call(c) == LoadFirst(c) \o LoadNext(c) \o PiecesMultiplied(c) \o LoadNextLate(c)

Within(stream) ==
    When(UnitFlag, << SetFlag("FIX", "M", UnitId) >>) \o stream
    \o When(UnitFlag, << WaitFlag("FIX", "M", UnitId) >>)

Stream == Within(Constructor \o For(1, Len(Blocks), Call) \o Destructor)

(* MmadAtlasA2DynamicSingleCoreSplitk: the tile shapes are given at run    *)
(* time.                                                                   *)
DynamicConstructor == Constructor

DynamicDestructor == Destructor

DynamicLoads(c) == LoadFirst(c) \o LoadNext(c)

DynamicPieces(c) == PiecesMultiplied(c)

DynamicCall(c) == DynamicLoads(c) \o DynamicPieces(c) \o LoadNextLate(c)

DynamicStream == Within(DynamicConstructor \o For(1, Len(Blocks), DynamicCall) \o DynamicDestructor)

-----------------------------------------------------------------------------
(* Every piece of C is the sum over its blocks of the products of the      *)
(* matching parts of A and B.                                              *)
Places ==
    UNION {{<<"C", Blocks[c].m, Blocks[c].n, i, j>> :
              i \in 0..(Blocks[c].mLoops - 1), j \in 0..(Blocks[c].nLoops - 1)} : c \in DOMAIN Blocks}

Expected ==
    LET Part(tile, what) == SetToBag({<<"part", what, SetToBag({tile})>>})
        Here(p) == {c \in DOMAIN Blocks : Blocks[c].m = p[2] /\ Blocks[c].n = p[3]}
    IN [p \in Places |->
          SetToBag(UNION {{<<"mmad", Part(TileA(c), <<p[4], k>>), Part(TileB(c), <<k, p[5]>>)>> :
                             k \in 0..(Blocks[c].kLoops - 1)} : c \in Here(p)})]
===============================================================================
