--------------------------- MODULE AllReduceTiling ---------------------------
(***************************************************************************)
(* How the all-reduce kernel cuts a comm block into tiles for its vector   *)
(* cores: the choice between the two overloads of BlockComm::operator()    *)
(* (include/catlass/distributed/kernel/matmul_allreduce.hpp) and the loops *)
(* over tiles in either                                                    *)
(* (include/catlass/distributed/block/block_comm_allreduce.hpp).  A block  *)
(* with many rows is dealt out in runs of whole rows, a block with few in  *)
(* pieces of rows.                                                         *)
(*                                                                         *)
(* t is a block and the number of cores, <<rows, cols, aivNum>>.           *)
(***************************************************************************)
EXTENDS Alignment, Sequences, SequencesExt

CONSTANTS
    Align,          \* BYTE_PER_BLK / sizeof(Element)
    ComputeLength   \* COMPUTE_LENGTH: elements a UB buffer holds

ASSUME AlignAssumption == Align \in Nat \ {0} /\ ComputeLength \in Nat /\ ComputeLength % Align = 0

-----------------------------------------------------------------------------
(* Whole rows. *)

TilesPerAiv(t, v) == t[1] \div t[3] + (IF v < t[1] % t[3] THEN 1 ELSE 0)

FirstRow(t, v) ==
    v * TilesPerAiv(t, v) + (IF v >= t[1] % t[3] THEN t[1] % t[3] ELSE 0)

(* A row fits into a UB buffer: with a longer one this is zero, and the    *)
(* code divides by it.                                                     *)
TilesPerLoop(t) == ComputeLength \div RoundUp(t[2], Align)

RowLoops(t, v) == CeilDiv(TilesPerAiv(t, v), TilesPerLoop(t))

RowTile(t, v, n) ==
    LET tileIdx == n * TilesPerLoop(t)
        left == TilesPerAiv(t, v) - tileIdx
        actual == IF left < TilesPerLoop(t) THEN left ELSE TilesPerLoop(t)
        first == FirstRow(t, v) + tileIdx
    IN [rows |-> first..(first + actual - 1), cols |-> 0..(t[2] - 1)]

-----------------------------------------------------------------------------
(* Pieces of rows: split is adjusted twice, so that all pieces of a row    *)
(* but the last have the same aligned length.                              *)

(* Mutant: the number of pieces is rounded up. *)
AskedLengthOfMorePieces(t) == RoundUp(CeilDiv(t[2], CeilDiv(t[3], t[1])), Align)

AskedLength(t) == RoundUp(CeilDiv(t[2], t[3] \div t[1]), Align)

Split(t) == CeilDiv(t[2], AskedLength(t))

PieceLength(t) == RoundUp(CeilDiv(t[2], Split(t)), Align)

Piece(t, id) ==
    LET s == id % Split(t)
        length == IF s = Split(t) - 1 THEN t[2] - s * PieceLength(t) ELSE PieceLength(t)
    IN [rows |-> {id \div Split(t)},
        cols |-> (s * PieceLength(t))..(s * PieceLength(t) + length - 1)]

(* splitloopid = v, v + aivNum, v + 2 * aivNum, ... *)
PieceLoops(t, v) ==
    IF v >= t[1] * Split(t) THEN 0 ELSE CeilDiv(t[1] * Split(t) - v, t[3])

-----------------------------------------------------------------------------
CutsRows(t) == t[1] <= t[3] \div 2

AivLoops(t, v) == IF CutsRows(t) THEN PieceLoops(t, v) ELSE RowLoops(t, v)

AivTile(t, v, n) == IF CutsRows(t) THEN Piece(t, v + n * t[3]) ELSE RowTile(t, v, n)

(* The tiles of all cores, one core after the other: which core takes what *)
(* does not depend on their order.                                         *)
AllReduceTiles(t) ==
    FlattenSeq([v \in 1..t[3] |-> [n \in 1..AivLoops(t, v - 1) |-> AivTile(t, v - 1, n - 1)]])
==============================================================================
