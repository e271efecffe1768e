----------------------------- MODULE DataCopies ------------------------------
(***************************************************************************)
(* The tile copies of gemm/tile: from memory to L1 (copy_gm_to_l1.hpp), of *)
(* a tile with layout src, taken out of a matrix, to a buffer with layout  *)
(* dst, and from L1 to L0 (copy_l1_to_l0a.hpp, copy_l1_to_l0b.hpp), with   *)
(* elements of which e are in 32 bytes.  Also the copies between UB and    *)
(* memory and those out of L0C.  A layout of columns (nZ, nN, ColumnMajor) *)
(* is that of rows with the two swapped, and so are the specialisations    *)
(* for it: the code writes each of them out.                               *)
(*                                                                         *)
(* First the instructions that move data, as far as the tile copies use    *)
(* them: each is the set of the pairs <<place in the destination, place in *)
(* the source>> of the elements it moves.  A copy is a sequence of them.   *)
(* This is the hardware, modelled from how include/catlass/gemm/tile       *)
(* calls it.                                                               *)
(***************************************************************************)
EXTENDS Layouts, SequencesExt

CONSTANTS
    STRIDE_LIMIT,   \* a stride field of an instruction takes less
    MAX_REPEAT

ASSUME RepeatAssumption == MAX_REPEAT \in Nat \ {0}
ASSUME StrideAssumption == STRIDE_LIMIT \in Nat \ {0}

Shift(moves, dstBy, srcBy) == {<<p[1] + dstBy, p[2] + srcBy>> : p \in moves}

Each(n, move(_)) == [i \in 1..n |-> move(i - 1)]

Field(x) == x % STRIDE_LIMIT

(* Nd2NzParams: num matrices of n rows of d elements, row by row, become    *)
(* columns of fractals.  dstC0 and dstN count 32 bytes.                     *)
Nd2Nz(e, num, n, d, srcNd, srcD, dstNd, dstN, dstC0) ==
    {<<m * dstNd + i * Field(dstN) * e + (j \div e) * Field(dstC0) * e + (j % e),
       m * Field(srcNd) + i * Field(srcD) + j>> : m \in 0..(num - 1), i \in 0..(n - 1), j \in 0..(d - 1)}

(* int4 is moved as pairs. *)
InPairs(moves) == {<<2 * p[1] + h, 2 * p[2] + h>> : p \in moves, h \in 0..1}

(* DataCopyParams: count pieces of len times 32 bytes. *)
DataCopy(e, count, len, srcGap, dstGap) ==
    {<<b * (len + Field(dstGap)) * e + j, b * (len + Field(srcGap)) * e + j>> :
       b \in 0..(count - 1), j \in 0..(len * e - 1)}

Contiguous(length) == {<<j, j>> : j \in 0..(length - 1)}

(* DataCopyPad: pieces of any length.  Gaps count 32 bytes in UB, where a   *)
(* piece takes whole ones, and elements in memory.                          *)
PadToUb(e, count, length, srcGap, dstGap) ==
    {<<b * (CeilDiv(length, e) + dstGap) * e + j, b * (length + srcGap) + j>> :
       b \in 0..(count - 1), j \in 0..(length - 1)}

PadFromUb(e, count, length, srcGap, dstGap) ==
    {<<p[2], p[1]>> : p \in PadToUb(e, count, length, dstGap, srcGap)}

(* LoadData2DParams: repeat fractals, each transposed or not. *)
LoadData(e, repeat, srcStride, dstGap, transpose) ==
    {<<t * (dstGap + 1) * Fractal(e) + (IF transpose THEN b * e + a ELSE a * e + b),
       t * srcStride * Fractal(e) + a * e + b>> :
       t \in 0..(repeat - 1), a \in 0..(C0 - 1), b \in 0..(e - 1)}

(* LoadDataWithTranspose: repeat squares.  A square is e/C0 fractals, one   *)
(* after the other, if the fractal is wider than high, otherwise C0/e       *)
(* fractals beside each other, and is transposed as a whole.                *)
LoadSquares(e, repeat, srcStride, dstGap, dstFracGap) ==
    LET side == IF e > C0 THEN e ELSE C0
        From(a, b) == IF e >= C0 THEN a * e + b ELSE (b \div e) * Fractal(e) + a * e + (b % e)
        Into(t, a, b) ==
          IF e >= C0
          THEN (t * (dstGap + 1) + (b \div C0) * (dstFracGap + 1)) * Fractal(e) + (b % C0) * e + a
          ELSE (t * (dstGap + 1) + (a \div e) * (dstFracGap + 1)) * Fractal(e) + b * e + (a % e)
    IN {<<Into(t, a, b), t * srcStride * side * side + From(a, b)>> :
          t \in 0..(repeat - 1), a \in 0..(side - 1), b \in 0..(side - 1)}

(* LoadData3DParamsV2 with a filter of one element: of an image of height   *)
(* pixels one of m and k elements, to an L0A where the columns of fractals  *)
(* are as many as k takes.  If the image is read the other way round, m and *)
(* k are too.                                                               *)
LoadImage(e, height, m, k) ==
    {<<(i \div C0) * C0 * RoundUp(k, e) + (j \div e) * Fractal(e) + (i % C0) * e + (j % e),
       (j \div e) * height * e + i * e + (j % e)>> : i \in 0..(m - 1), j \in 0..(k - 1)}

LoadImageTransposed(e, height, m, k) ==
    {<<(i \div C0) * C0 * m + (j \div e) * Fractal(e) + (i % C0) * e + (j % e),
       (i \div e) * height * e + j * e + (i % e)>> : i \in 0..(k - 1), j \in 0..(m - 1)}

LoadImageToB(e, height, m, k) ==
    {<<(j \div e) * k * e + i * e + (j % e),
       (i \div e) * height * e + j * e + (i % e)>> : i \in 0..(k - 1), j \in 0..(m - 1)}

(* FixpipeParams: the accumulator, whose columns of fractals are C0 wide    *)
(* and srcStride rows high, to rows, or to columns of fractals e wide.      *)
FixpipeRowMajor(m, n, srcStride, dstStride) ==
    {<<i * dstStride + j, (j \div C0) * srcStride * C0 + i * C0 + (j % C0)>> :
       i \in 0..(m - 1), j \in 0..(n - 1)}

FixpipeNZ(e, m, n, srcStride, dstStride) ==
    {<<(j \div e) * dstStride * e + i * e + (j % e), (j \div C0) * srcStride * C0 + i * C0 + (j % C0)>> :
       i \in 0..(m - 1), j \in 0..(n - 1)}

-----------------------------------------------------------------------------
(* The copies. *)

Rows(l) == l.org[1]

Cols(l) == l.org[2]

Mirrored(copy(_, _, _), e, dst, src) == copy(e, Transposed(dst), Transposed(src))

(* Every row as pieces of 32 bytes, to the columns of fractals. *)
RowInBlocks(e, dst, src) ==
    DataCopy(e, CeilDiv(Cols(src), dst.shape[3]), dst.shape[3] \div e, 0,
             (dst.stride[4] - dst.shape[3]) \div e)

RowsInBlocks(e, dst, src) ==
    Each(Rows(src), LAMBDA i :
           Shift(RowInBlocks(e, dst, src), i * dst.shape[3], i * src.stride[1]))

(* n rows by one instruction. *)
RowsAtOnce(e, dst, src, n) ==
    Nd2Nz(e, 1, n, Cols(src), 0, src.stride[1], 0, dst.stride[1] \div e, dst.stride[4] \div e)

RowByRow(e, dst, src) ==
    Each(Rows(src), LAMBDA i :
           Shift(Nd2Nz(e, 1, 1, Cols(src), 0, 0, 0, 0, dst.stride[4] \div e),
                 i * e, i * src.stride[1]))

RowMajorToL1(e, dst, src) ==
    IF src.stride[1] < STRIDE_LIMIT
    THEN << RowsAtOnce(e, dst, src, Rows(src)) >>
    ELSE RowByRow(e, dst, src)

(* A matrix that is one C0 wide is in L1 what it is in memory. *)
RowMajorOrWhole(e, dst, src) ==
    IF src.stride[1] < STRIDE_LIMIT /\ Cols(src) = e /\ src.stride[1] = e
    THEN << Contiguous(Rows(src) * Cols(src)) >>
    ELSE RowMajorToL1(e, dst, src)

DynamicOptimizedRowMajor(e, dst, src) ==
    IF Rows(src) <= C0 THEN RowsInBlocks(e, dst, src) ELSE RowMajorOrWhole(e, dst, src)

DynamicOptimizedColumnMajor(e, dst, src) == Mirrored(DynamicOptimizedRowMajor, e, dst, src)

GMMPTDRowMajor(e, dst, src) ==
    IF Rows(src) = 1 THEN << RowInBlocks(e, dst, src) >> ELSE RowMajorOrWhole(e, dst, src)

IntervalRowMajor(e, dst, src) == RowsInBlocks(e, dst, src)

IntervalPaddingRowMajor(e, dst, src) == RowsInBlocks(e, dst, src)

IntervalColumnMajor(e, dst, src) == Mirrored(RowsInBlocks, e, dst, src)

IntervalPaddingColumnMajor(e, dst, src) == Mirrored(RowsInBlocks, e, dst, src)

-----------------------------------------------------------------------------
(* Gemm: the layout in L1 is given. *)
RowMajorToZNInA1(e, dst, src) == RowMajorToL1(e, dst, src)

RowMajorToZNInB1(e, dst, src) == RowMajorToL1(e, dst, src)

ColumnMajorToNZInA1(e, dst, src) == Mirrored(RowMajorToL1, e, dst, src)

ColumnMajorToNZInB1(e, dst, src) == Mirrored(RowMajorToL1, e, dst, src)

(* The rows of fractals of a zZ one after the other; a long stride needs   *)
(* an instruction for each row of fractals, a longer one for each row, and *)
(* then puts row i at i times the row of fractals it is in.                *)
RowMajorToZZInB1(e, dst, src) ==
    LET inner == dst.stride[1] \div e  across == dst.stride[4] \div e
        full == Rows(src) \div C0  remains == Rows(src) % C0
        Fractals(num, n, srcNd) ==
          Nd2Nz(e, num, n, Cols(src), srcNd, src.stride[1], dst.stride[2], inner, across)
        tail == IF remains > 0
                THEN << Shift(Fractals(1, remains, 0), full * dst.stride[2], full * C0 * src.stride[1]) >>
                ELSE <<>>
    IN IF C0 * src.stride[1] < STRIDE_LIMIT
       THEN (IF full > 0 THEN << Fractals(full, C0, C0 * src.stride[1]) >> ELSE <<>>) \o tail
       ELSE IF src.stride[1] < STRIDE_LIMIT
       THEN Each(full, LAMBDA i :
                   Shift(Fractals(1, C0, 0), i * dst.stride[2], i * C0 * src.stride[1])) \o tail
       ELSE Each(Rows(src), LAMBDA i :
                   Shift(Nd2Nz(e, 1, 1, Cols(src), 0, 0, 0, 0, across),
                         i * (i \div C0) * dst.stride[2] + (i % C0) * e, i * src.stride[1]))

ColumnMajorToNNInA1(e, dst, src) == Mirrored(RowMajorToZZInB1, e, dst, src)

ColumnMajorToNNInB1(e, dst, src) == Mirrored(RowMajorToZZInB1, e, dst, src)

(* A vector is a matrix of one row. *)
VectorToZN(e, dst, src) ==
    << Nd2Nz(e, 1, 1, src.shape[1], 0, src.shape[1], 0, dst.stride[1] \div e, dst.stride[4] \div e) >>

-----------------------------------------------------------------------------
(* Mmad: the layout in memory decides.  int4 goes as pairs. *)
RowMajorToL1OnA2(e, dst, src) ==
    IF e = 4 * C0 /\ src.stride[1] < STRIDE_LIMIT
    THEN << InPairs(Nd2Nz(e \div 2, 1, Rows(src), CeilDiv(Cols(src), 2), 0, CeilDiv(src.stride[1], 2),
                          0, dst.stride[1] \div e, dst.stride[4] \div e)) >>
    ELSE RowMajorToL1(e, dst, src)

ColumnMajorToL1OnA2(e, dst, src) == Mirrored(RowMajorToL1OnA2, e, dst, src)

(* Columns of fractals as pieces, if their stride allows.                  *)
ColumnsOfFractals(e, dst, src, count, len, fits) ==
    IF fits
    THEN << DataCopy(e, count, len, src.stride[4] \div e - len, dst.stride[4] \div e - len) >>
    ELSE Each(count, LAMBDA i :
                Shift(DataCopy(e, 1, len, 0, 0), i * dst.stride[4], i * src.stride[4]))

zNToL1(e, dst, src) ==
    ColumnsOfFractals(e, dst, src, CeilDiv(Cols(src), e), RoundUp(Rows(src), C0),
                      src.stride[4] \div e < STRIDE_LIMIT)

nZToL1(e, dst, src) == Mirrored(zNToL1, e, dst, src)

PaddingRowMajorToL1(e, dst, src) == << RowsAtOnce(e, dst, src, Rows(src)) >>

PaddingColumnMajorToL1(e, dst, src) == Mirrored(PaddingRowMajorToL1, e, dst, src)

(* Mutant: the last piece is not cut to the rows that are left. *)
WholePieceOfRows(rows, i) == MAX_REPEAT

PieceOfRows(rows, i) ==
    IF i < CeilDiv(rows, MAX_REPEAT) - 1 THEN MAX_REPEAT ELSE rows - i * MAX_REPEAT

(* From a plain layout to a plain one: as a whole, as pieces of up to       *)
(* MAX_REPEAT rows, or row by row.                                          *)
RowMajorToRowMajor(e, dst, src) ==
    LET rows == Rows(src)  cols == Cols(src)
        srcGap == (src.stride[1] - cols) \div e
        dstGap == (dst.stride[1] - cols) \div e
        loops == CeilDiv(rows, MAX_REPEAT)
    IN IF cols = src.stride[1] /\ dst.shape[2] = dst.stride[1]
       THEN << Contiguous(rows * cols) >>
       ELSE IF srcGap < STRIDE_LIMIT /\ dstGap < STRIDE_LIMIT
       THEN Each(loops, LAMBDA i :
                   Shift(DataCopy(e, PieceOfRows(rows, i), cols \div e, srcGap, dstGap),
                         i * MAX_REPEAT * dst.stride[1], i * MAX_REPEAT * src.stride[1]))
       ELSE Each(rows, LAMBDA i :
                   Shift(Contiguous(cols), i * dst.stride[1], i * src.stride[1]))

VectorToVector(e, dst, src) == << DataCopy(e, 1, dst.shape[1] \div e, 0, 0) >>

-----------------------------------------------------------------------------
(* The copies between tla tensors, and those that are told the actual      *)
(* shape of the tile: of the latter, those from the row major layouts have *)
(* no way to do a long stride.                                             *)
TlaRowMajorToZN(e, dst, src) == RowMajorToL1(e, dst, src)

TlaColumnMajorToNZ(e, dst, src) == Mirrored(RowMajorToL1, e, dst, src)

TlaZNToZN(e, dst, src) ==
    ColumnsOfFractals(e, dst, src, src.shape[4], src.shape[1] * src.shape[2],
                      src.stride[4] \div e <= STRIDE_LIMIT)

TlaNZToNZ(e, dst, src) == Mirrored(TlaZNToZN, e, dst, src)

TlaExtRowMajorToZN(e, dst, src) == << RowsAtOnce(e, dst, src, Rows(src)) >>

TlaExtPaddingRowMajorToZN(e, dst, src) == << RowsAtOnce(e, dst, src, Rows(src)) >>

TlaExtColumnMajorToNZ(e, dst, src) == Mirrored(TlaExtRowMajorToZN, e, dst, src)

TlaExtPaddingColumnMajorToNZ(e, dst, src) == Mirrored(TlaExtPaddingRowMajorToZN, e, dst, src)

TlaExtZNToZN(e, dst, src) ==
    ColumnsOfFractals(e, dst, src, CeilDiv(Cols(src), e), RoundUp(Rows(src), C0),
                      src.stride[4] \div e <= STRIDE_LIMIT)

TlaExtNZToNZ(e, dst, src) == Mirrored(TlaExtZNToZN, e, dst, src)

-----------------------------------------------------------------------------
(* Convolution.  cin1 planes of hi rows of an image of c1 planes per depth *)
(* and h rows of w times 32 bytes; depths are dilation apart, and a long   *)
(* gap between planes takes an instruction for each.                       *)
NDC1HWC0ToL1(e, cin1, hi, dilation, c1, h, w) ==
    LET long == h * w - hi * w > STRIDE_LIMIT - 1
        loops == CeilDiv(cin1, c1)
        planes == IF long THEN cin1 \div loops ELSE 1
        Planes(count) == DataCopy(e, count, hi * w, w * h - hi * w, 0)
    IN IF cin1 > c1 \/ long
       THEN Each(loops * planes, LAMBDA n :
                   LET i == n \div planes  j == n % planes
                   IN Shift(Planes(IF long THEN 1 ELSE c1),
                            (i * c1 + j) * hi * w * e, (i * dilation * c1 + j) * h * w * e))
       ELSE << Planes(cin1) >>

(* A filter, of which k elements of the n1 * n0 channels go to L1, all of  *)
(* them or n.  LoadData moves up to 255 fractals.                          *)
KDC1KHKWN1N0C0ToL1(e, k, n, n1, n0) ==
    LET repeat == (k * n) \div (n0 * e)
    IN IF n >= n1 * n0
       THEN << IF repeat > 255 THEN DataCopy(e, 1, CeilDiv(k * n, e), 0, 0)
               ELSE LoadData(e, repeat, 1, 0, FALSE) >>
       ELSE << DataCopy(e, k \div e, n, n1 * n0 - n, 0) >>

-----------------------------------------------------------------------------
(* From L1 to L0: of a part of the tile in L1, whose layout src is, to the *)
(* part's own layout dst in L0, where A is a zZ and B an nZ (a zN for      *)
(* gemm), turned round if the layout in L1 runs the other way.             *)

(* Row by row of fractals, or several rows at a time. *)
FractalRows(rows, load, dstStride, srcStride) ==
    Each(rows, LAMBDA i : Shift(load, i * dstStride, i * srcStride))

Straight(e, dst, src) ==
    FractalRows(dst.shape[2],
                LoadData(e, dst.shape[4], src.stride[4] \div Fractal(e), dst.stride[4] \div Fractal(e) - 1, FALSE),
                dst.stride[2], src.stride[2])

(* Elements of one byte: squares of two fractals, which come out one after *)
(* the other or one below the other.                                       *)
SquaresAcross(e, dst, src, rows, repeat) ==
    FractalRows(rows, LoadSquares(e, repeat, 1, 0, repeat - 1), dst.stride[2] * 2, src.stride[2])

SquaresDown(e, dst, src, rows, repeat) ==
    FractalRows(rows, LoadSquares(e, repeat, src.stride[4] \div (2 * Fractal(e)), 1, 0),
                dst.stride[2], src.stride[2] * 2)

Height(l) == l.shape[1] * l.shape[2]

Width(l) == l.shape[3] * l.shape[4]

-----------------------------------------------------------------------------
(* To L0A, gemm. *)
GemmZNToZZ(e, dst, src) == Straight(e, dst, src)

GemmNNToZZ(e, dst, src) ==
    FractalRows(CeilDiv(Rows(src), e),
                LoadData(e, CeilDiv(Cols(dst), C0), CeilDiv(Rows(src), e), 0, TRUE),
                dst.stride[2], src.stride[2])

GemmNNToZZOfFloat(e, dst, src) ==
    FractalRows(CeilDiv(Rows(src), C0),
                LoadSquares(e, CeilDiv(Cols(dst), C0), CeilDiv(Rows(src), C0), 1, 0),
                dst.stride[2], src.stride[2] * 2)

GemmNZToZZOfInt8(e, dst, src) ==
    SquaresAcross(e, dst, src, CeilDiv(Rows(dst), e), CeilDiv(Cols(dst), e))

(* To L0A, mmad. *)
zNToL0A(e, dst, src) == Straight(e, dst, src)

zNToL0AOfFloat(e, dst, src) == << LoadImage(e, Height(src), Height(dst), Width(dst)) >>

(* Mutant: the fractals of a column of the source are taken to be next to   *)
(* each other.                                                              *)
nZToL0AOfNarrowTile(e, dst, src) ==
    FractalRows(CeilDiv(Rows(dst), e),
                LoadData(e, CeilDiv(Cols(dst), C0), src.stride[4] \div Fractal(e),
                         dst.stride[4] \div Fractal(e) - 1, TRUE),
                dst.stride[2], CeilDiv(Cols(dst), C0) * Fractal(e))

nZToL0A(e, dst, src) ==
    FractalRows(CeilDiv(Rows(dst), e),
                LoadData(e, CeilDiv(Cols(dst), C0), src.stride[4] \div Fractal(e),
                         dst.stride[4] \div Fractal(e) - 1, TRUE),
                dst.stride[2], src.stride[2])

nZToL0AOfInt8(e, dst, src) ==
    SquaresAcross(e, dst, src, CeilDiv(Rows(dst), e), CeilDiv(Cols(dst), e))

nZToL0AOfFloat(e, dst, src) ==
    << LoadImageTransposed(e, RoundUp(Width(src), C0), RoundUp(Width(dst), C0), RoundUp(Height(dst), C0)) >>

(* Between tla tensors. *)
TlaZNToZZ(e, dst, src) ==
    FractalRows(dst.shape[2], LoadData(e, dst.shape[4], src.stride[4] \div Fractal(e), 0, FALSE),
                dst.stride[2], src.stride[2])

TlaZNToZZOfFloat(e, dst, src) ==
    << LoadImage(e, src.stride[4] \div src.shape[3], Height(dst), Width(dst)) >>

TlaNZToZZ(e, dst, src) ==
    FractalRows(dst.shape[2], LoadData(e, dst.shape[4], 1, 0, TRUE), dst.stride[2], src.stride[2])

TlaNZToZZOfInt8(e, dst, src) == SquaresAcross(e, dst, src, src.shape[2], dst.shape[4])

TlaNZToZZOfFloat(e, dst, src) ==
    << LoadImageTransposed(e, RoundUp(src.stride[2] \div src.shape[1], C0),
                           RoundUp(Width(dst), C0), RoundUp(Height(dst), C0)) >>

-----------------------------------------------------------------------------
(* To L0B, gemm. *)
GemmZZToNZ(e, dst, src) ==
    FractalRows(CeilDiv(Rows(dst), C0), LoadData(e, CeilDiv(Cols(src), e), 1, 0, TRUE),
                dst.stride[2], src.stride[2])

GemmZZToNZOfFloat(e, dst, src) ==
    FractalRows(CeilDiv(Rows(dst), C0),
                LoadSquares(e, CeilDiv(Cols(src), C0), 1, 0, CeilDiv(Cols(dst), C0) - 1),
                dst.stride[2] * 2, src.stride[2])

GemmZNToNZOfInt8(e, dst, src) ==
    SquaresDown(e, dst, src, CeilDiv(Rows(dst), e), CeilDiv(Cols(dst), e))

GemmNZToNZ(e, dst, src) == Straight(e, dst, src)

GemmZNToZN(e, dst, src) == Mirrored(Straight, e, dst, src)

GemmNNToZN(e, dst, src) ==
    << LoadData(e, dst.shape[2] * dst.shape[4], src.stride[2] \div Fractal(e),
                dst.stride[2] \div Fractal(e) - 1, TRUE) >>

GemmNNToZNOfFloat(e, dst, src) ==
    LET repeat == CeilDiv(Rows(dst), C0)
    IN FractalRows(CeilDiv(Cols(dst), 2 * e), LoadSquares(e, repeat, 1, 0, repeat - 1),
                   dst.stride[4] * 2, src.stride[4])

GemmNZToZNOfInt8(e, dst, src) == Mirrored(GemmZNToNZOfInt8, e, dst, src)

(* To L0B, mmad. *)
zNToL0B(e, dst, src) ==
    FractalRows(CeilDiv(Rows(dst), C0),
                LoadData(e, CeilDiv(Cols(dst), e), src.stride[4] \div Fractal(e),
                         dst.stride[4] \div Fractal(e) - 1, TRUE),
                dst.stride[2], src.stride[2])

zNToL0BOfInt8(e, dst, src) ==
    SquaresDown(e, dst, src, CeilDiv(Rows(dst), e), CeilDiv(Cols(dst), e))

zNToL0BOfInt4(e, dst, src) ==
    FractalRows(CeilDiv(Rows(dst), e),
                LoadSquares(e, CeilDiv(Cols(dst), e), src.stride[4] \div (4 * Fractal(e)), 3, 0),
                dst.stride[2], src.stride[2] * 4)

zNToL0BOfFloat(e, dst, src) ==
    << LoadImageToB(e, RoundUp(Height(src), C0), RoundUp(Height(dst), C0), RoundUp(Width(dst), C0)) >>

(* As one, if the part is as wide as the tile. *)
nZToL0B(e, dst, src) ==
    IF src.shape[4] = dst.shape[4]
    THEN << LoadData(e, dst.shape[2] * dst.shape[4], 1, 0, FALSE) >>
    ELSE Straight(e, dst, src)

(* Between tla tensors. *)
TlaZNToNZ(e, dst, src) ==
    FractalRows(dst.shape[2], LoadData(e, dst.shape[4], src.stride[4] \div Fractal(e), 0, TRUE),
                dst.stride[2], src.stride[2])

TlaNZToNZInL0B(e, dst, src) ==
    IF src.stride[2] = dst.stride[2]
    THEN << LoadData(e, dst.shape[2] * dst.shape[4], 1, 0, FALSE) >>
    ELSE FractalRows(dst.shape[2], LoadData(e, dst.shape[4], 1, 0, FALSE), dst.stride[2], src.stride[2])

TlaZNToNZOfInt8(e, dst, src) == SquaresDown(e, dst, src, dst.shape[2], src.shape[4])

TlaZNToNZOfFloat(e, dst, src) ==
    << LoadImageToB(e, RoundUp(src.stride[4] \div src.shape[3], C0),
                    RoundUp(Height(dst), C0), RoundUp(Width(dst), C0)) >>

-----------------------------------------------------------------------------
(***************************************************************************)
(* The copies from the accumulator to memory (gemm/tile/copy_l0c_to_gm),   *)
(* from L1 to the bias table and the fixpipe buffer, and between memory    *)
(* and UB (copy_gm_to_ub, copy_ub_to_gm of gemm, epilogue and gemv).  A    *)
(* layout in UB has rows that begin at whole 32 bytes.                     *)
(***************************************************************************)
L0CToRowMajor(e, dst, src) ==
    << FixpipeRowMajor(Rows(dst), Cols(dst), src.stride[4] \div src.stride[1], dst.stride[1]) >>

(* With a scale for the tensor or for each column, which changes the values *)
(* and not their places.                                                    *)
L0CToRowMajorPerTensor(e, dst, src) == L0CToRowMajor(e, dst, src)

L0CToRowMajorPerChannel(e, dst, src) == L0CToRowMajor(e, dst, src)

L0CToZN(e, dst, src) ==
    << FixpipeNZ(e, dst.shape[1] * dst.shape[2], dst.shape[3] * dst.shape[4],
                 src.stride[4] \div src.shape[3], dst.stride[4] \div e) >>

(* Of an image: dst has the planes of h times w times 32 bytes. *)
L0CToNDC1HWC0(e, dst, src) ==
    << FixpipeNZ(e, Rows(src), Cols(src), src.stride[4] \div src.shape[3], dst.shape[2] * dst.shape[3]) >>

TlaL0CToRowMajor(e, dst, src) == L0CToRowMajor(e, dst, src)

TlaL0CToZN(e, dst, src) == L0CToZN(e, dst, src)

L1ToBT(e, dst, src) == << DataCopy(e, 1, CeilDiv(dst.shape[1], e), 0, 0) >>

L1ToFP(e, dst, src) == << DataCopy(e, 1, CeilDiv(dst.shape[1], e), 0, 0) >>

-----------------------------------------------------------------------------
(* Memory to UB. *)
GmToUb(e, dst, src) ==
    << PadToUb(e, Rows(src), Cols(src), src.stride[1] - Cols(src), (dst.stride[1] - Cols(dst)) \div e) >>

TlaGmToUb(e, dst, src) == GmToUb(e, dst, src)

VectorToUb(e, dst, src) == << PadToUb(e, 1, src.shape[1], 0, 0) >>

GemmVectorToUb(e, dst, src) == VectorToUb(e, dst, src)

(* One scale for each row. *)
PerTokenScaleToUb(e, dst, src) ==
    << PadToUb(e, Rows(src), Cols(src), 0, (dst.stride[1] - Cols(dst)) \div e) >>

(* As from memory to L1 by rows, with the same limits. *)
AlignedToUb(e, dst, src) == RowMajorToRowMajor(e, dst, src)

GemvVectorToUb(e, dst, src) == << DataCopy(e, 1, CeilDiv(src.shape[1], e), 0, 0) >>

(* A matrix of whole blocks goes at once if its stride is whole and short;  *)
(* every e-th row at once if it is short but not whole; or row by row.      *)
GemvMatrixToUb(e, dst, src) ==
    LET m == Rows(src)  n == Cols(src)  ld == src.stride[1]  round == dst.shape[2]
        counts == m \div e  remain == m % e
        Row(i) == Shift(DataCopy(e, 1, CeilDiv(n, e), 0, 0), i * round, i * ld)
    IN IF n % e = 0 /\ ld % e = 0 /\ ld < STRIDE_LIMIT
       THEN << DataCopy(e, m, CeilDiv(n, e), (ld - n) \div e, (round - n) \div e) >>
       ELSE IF n % e = 0 /\ ld * e < STRIDE_LIMIT
       THEN (IF counts > 0
             THEN Each(e, LAMBDA i :
                         Shift(DataCopy(e, counts, CeilDiv(n, e), (e * ld - n) \div e, (e * round - n) \div e),
                               i * round, i * ld))
             ELSE <<>>)
            \o Each(remain, LAMBDA i : Row(counts * e + i))
       ELSE Each(m, Row)

GemvMatrixToUbOfColumns(e, dst, src) == Mirrored(GemvMatrixToUb, e, dst, src)

-----------------------------------------------------------------------------
(* UB to memory. *)

UbToGm(e, dst, src) ==
    << PadFromUb(e, Rows(dst), Cols(dst), (src.stride[1] - Cols(src)) \div e, dst.stride[1] - Cols(dst)) >>

GemmUbToGm(e, dst, src) == UbToGm(e, dst, src)

TlaUbToGm(e, dst, src) == UbToGm(e, dst, src)

(* A row, block by block of a padding layout. *)
TlaExtUbToPadding(e, dst, src) ==
    << PadFromUb(e, dst.shape[4], dst.shape[3], (src.stride[1] - Cols(src)) \div e,
                 dst.stride[4] - dst.shape[3]) >>

VectorToGm(e, dst, src) == << PadFromUb(e, 1, dst.shape[1], 0, 0) >>

AlignedToGm(e, dst, src) == RowMajorToRowMajor(e, dst, src)

GemvVectorToGm(e, dst, src) == VectorToGm(e, dst, src)

(* With atomic add: what is added is put in the same places. *)
GemvVectorAddedToGm(e, dst, src) == VectorToGm(e, dst, src)
==============================================================================
