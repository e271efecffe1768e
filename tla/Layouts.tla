------------------------------- MODULE Layouts --------------------------------
(***************************************************************************)
(* The layouts of include/catlass/layout and include/tla/layout.hpp: where *)
(* in a buffer the element of a row and a column of a matrix is.           *)
(*                                                                         *)
(* A plain layout has a shape <<rows, columns>> and a stride for each.  In *)
(* a fractal layout a row is a row of fractals and a row in the fractal,   *)
(* and so is a column: shape and stride are                                *)
(*   <<rows in a fractal, fractals, columns in a fractal, fractals>>.      *)
(* e is the number of elements in 32 bytes (ELE_NUM_PER_C0): 8 of float,   *)
(* 16 of half, 32 of int8, 64 of int4, where a fractal has 16 times 32     *)
(* bytes.  The constants may be scaled down together.                      *)
(***************************************************************************)
EXTENDS Alignment, Sequences

CONSTANT C0_NUM_PER_FRACTAL

ASSUME FractalAssumption == C0_NUM_PER_FRACTAL \in Nat \ {0}

C0 == C0_NUM_PER_FRACTAL

Fractal(e) == C0 * e

Layout(org, shape, stride) == [org |-> org, shape |-> shape, stride |-> stride]

RowMajor(rows, cols, ld) == Layout(<<rows, cols>>, <<rows, cols>>, <<ld, 1>>)

ColumnMajor(rows, cols, ld) == Layout(<<rows, cols>>, <<rows, cols>>, <<1, ld>>)

(* MakeLayoutInUb *)
RowMajorInUb(e, rows, cols) == RowMajor(rows, cols, RoundUp(cols, e))

VectorLayout(length) == Layout(<<length>>, <<length>>, <<1>>)

(* Small n, big Z: columns run through a fractal, fractals go row by row. *)
nZ(e, rows, cols) ==
    LET r == CeilDiv(rows, e)  c == CeilDiv(cols, C0)
    IN Layout(<<rows, cols>>, <<e, r, C0, c>>, <<1, c * C0 * e, e, Fractal(e)>>)

zN(e, rows, cols) ==
    LET r == CeilDiv(rows, C0)  c == CeilDiv(cols, e)
    IN Layout(<<rows, cols>>, <<C0, r, e, c>>, <<e, Fractal(e), 1, r * C0 * e>>)

(* MakeLayoutInL0C: the fractals of the accumulator are square. *)
zNInL0C(rows, cols) == zN(C0, rows, cols)

zZ(e, rows, cols) ==
    LET r == CeilDiv(rows, C0)  c == CeilDiv(cols, e)
    IN Layout(<<rows, cols>>, <<C0, r, e, c>>, <<e, c * e * C0, 1, Fractal(e)>>)

nN(e, rows, cols) ==
    LET r == CeilDiv(rows, e)  c == CeilDiv(cols, C0)
    IN Layout(<<rows, cols>>, <<e, r, C0, c>>, <<1, Fractal(e), e, r * e * C0>>)

(* Blocks of the matrix one after the other, row by row of blocks. *)
PaddingRowMajor(rows, cols, blockRows, blockCols) ==
    Layout(<<rows, cols>>,
           <<blockRows, CeilDiv(rows, blockRows), blockCols, CeilDiv(cols, blockCols)>>,
           <<blockCols, blockRows * RoundUp(cols, blockCols), 1, blockRows * blockCols>>)

PaddingColumnMajor(rows, cols, blockRows, blockCols) ==
    Layout(<<rows, cols>>,
           <<blockRows, CeilDiv(rows, blockRows), blockCols, CeilDiv(cols, blockCols)>>,
           <<1, blockRows * blockCols, blockRows, RoundUp(rows, blockRows) * blockCols>>)

-----------------------------------------------------------------------------
(* crd2offset, and GetOffset of the plain layouts, nZ, zN and the padding  *)
(* layouts, which have the same terms.                                     *)
GetOffset(l, row, col) ==
    IF Len(l.shape) = 1 THEN col * l.stride[1]
    ELSE IF Len(l.shape) = 2
    THEN row * l.stride[1] + col * l.stride[2]
    ELSE (row % l.shape[1]) * l.stride[1] + (row \div l.shape[1]) * l.stride[2]
         + (col % l.shape[3]) * l.stride[3] + (col \div l.shape[3]) * l.stride[4]

(* GetTileLayout: a tile keeps the strides of the matrix. *)
GetTileLayout(l, rows, cols) ==
    IF Len(l.shape) = 1 THEN VectorLayout(cols)
    ELSE IF Len(l.shape) = 2
    THEN Layout(<<rows, cols>>, <<rows, cols>>, l.stride)
    ELSE Layout(<<rows, cols>>,
                <<l.shape[1], CeilDiv(rows, l.shape[1]), l.shape[3], CeilDiv(cols, l.shape[3])>>,
                l.stride)

(* That of a padding layout makes a layout anew of the tile, which is that *)
(* of the matrix as long as the tile is within a block.                    *)
GetPaddingTileLayout(l, rows, cols) == PaddingRowMajor(rows, cols, l.shape[1], l.shape[3])

Capacity(l) ==
    IF Len(l.shape) = 1 THEN l.shape[1]
    ELSE IF Len(l.shape) = 2 THEN GetOffset(l, l.shape[1] - 1, l.shape[2] - 1) + 1
    ELSE IF l.stride[2] * l.shape[2] > l.stride[4] * l.shape[4]
         THEN l.stride[2] * l.shape[2] ELSE l.stride[4] * l.shape[4]

(* Rows for columns: of a zN an nZ, of a zZ an nN, and so on. *)
Transposed(l) ==
    LET Swap(s) == IF Len(s) = 2 THEN <<s[2], s[1]>> ELSE <<s[3], s[4], s[1], s[2]>>
    IN Layout(<<l.org[2], l.org[1]>>, Swap(l.shape), Swap(l.stride))
==============================================================================
