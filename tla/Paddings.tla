------------------------------- MODULE Paddings --------------------------------
(***************************************************************************)
(* How vector cores copy a matrix to a workspace with another layout, and  *)
(* the result back (include/catlass/gemm/kernel/padding_matmul.hpp,        *)
(* PaddingMatrixBlockND of optimized_matmul_tla.hpp): instruction by       *)
(* instruction, element by element.                                        *)
(*                                                                         *)
(* A problem s is a matrix of s.rows times s.cols elements whose rows are  *)
(* s.stride apart, and s.aivs vector cores.  ColumnMajor matrices are      *)
(* padded as their transpose (GetPaddingComputeLayout).                    *)
(***************************************************************************)
EXTENDS PipeInstructions, TLC

CONSTANTS
    COMPUTE_LENGTH,     \* elements of a UB buffer
    ELE_NUM_PER_C0,
    C0_NUM_PER_FRACTAL,
    VNCHW_SIZE,
    RowUnit             \* stands for 1024 rows

(* What is shorter than a VNCHW_SIZE-th of a buffer fits into it when it   *)
(* has been rounded up, as it does with 48 K bytes.                        *)
ParametersOK == COMPUTE_LENGTH % (VNCHW_SIZE * ELE_NUM_PER_C0 * ELE_NUM_PER_C0) = 0

BUFFER_NUM == 2

Least(a, b) == IF a < b THEN a ELSE b

Move(pipe, n, To(_), From(_)) == For(0, n - 1, LAMBDA e : << Copy(pipe, To(e), From(e)) >>)

Source(s, r, c) == <<"A", r * s.stride + c>>

(* The buffers are next to each other: what reaches beyond one is in the   *)
(* next.                                                                   *)
In(buffer, e) == <<"UB", buffer * COMPUTE_LENGTH + e>>

Out(buffer, e) == In(BUFFER_NUM + buffer, e)

InNZ(buffer, e) == In(2 * buffer, e)

OutNZ(buffer, e) == In(2 * buffer + 1, e)

-----------------------------------------------------------------------------
(* The tiles of a vector core: pieces of rows that are longer than a       *)
(* buffer, or several rows.                                                *)
Tiles(s, aiv) ==
    LET rows == PaddedRows(s.rows, s.aivs, aiv)
        roundTileLen == RoundUp(s.cols, ELE_NUM_PER_C0)
        loopsPerTile == CeilDiv(s.cols, COMPUTE_LENGTH)
        tilesPerLoop == COMPUTE_LENGTH \div roundTileLen
        Piece(i) ==
          LET first == ((i - 1) % loopsPerTile) * COMPUTE_LENGTH
          IN [row |-> rows[((i - 1) \div loopsPerTile) + 1], rows |-> 1, col |-> first,
              cols |-> Least(COMPUTE_LENGTH, s.cols - first), stride |-> 0]
        Group(i) ==
          LET first == (i - 1) * tilesPerLoop
          IN [row |-> rows[first + 1], rows |-> Least(tilesPerLoop, Len(rows) - first), col |-> 0,
              cols |-> s.cols, stride |-> roundTileLen]
    IN IF roundTileLen > COMPUTE_LENGTH THEN [i \in 1..(Len(rows) * loopsPerTile) |-> Piece(i)]
       ELSE [i \in 1..CeilDiv(Len(rows), tilesPerLoop) |-> Group(i)]

LoadTile(t, buffer, SourceOf(_, _)) ==
    For(0, t.rows - 1, LAMBDA i :
      Move("MTE2", t.cols, LAMBDA e : In(buffer, i * t.stride + e), LAMBDA e : SourceOf(t.row + i, t.col + e)))

(* In and out through the same buffer. *)
ThroughBuffers(tiles, SourceOf(_, _), Store(_, _)) ==
    For(0, BUFFER_NUM - 1, LAMBDA i : << SetFlag("MTE3", "MTE2", i) >>)
    \o For(1, Len(tiles), LAMBDA n :
         LET bufferIndex == (n - 1) % BUFFER_NUM
         IN << WaitFlag("MTE3", "MTE2", bufferIndex) >>
            \o LoadTile(tiles[n], bufferIndex, SourceOf)
            \o Sync("MTE2", "MTE3", bufferIndex)
            \o Store(tiles[n], bufferIndex)
            \o << SetFlag("MTE3", "MTE2", bufferIndex) >>)
    \o For(0, BUFFER_NUM - 1, LAMBDA i : << WaitFlag("MTE3", "MTE2", i) >>)

-----------------------------------------------------------------------------
(* PaddingMatrixND: rows s.align apart (GetWorkspaceLayout). *)
Workspace(offset) == <<"W", offset>>

NDStride(s) == RoundUp(s.cols, s.align)

NDOffset(s, r, c) == r * NDStride(s) + c

PaddingMatrixND(s, aiv) ==
    ThroughBuffers(Tiles(s, aiv), LAMBDA r, c : Source(s, r, c), LAMBDA t, buffer :
      For(0, t.rows - 1, LAMBDA i :
        Move("MTE3", t.cols, LAMBDA e : Workspace(NDOffset(s, t.row, t.col) + i * NDStride(s) + e),
             LAMBDA e : In(buffer, i * t.stride + e))))

(* PaddingMatrixBlockND: blocks of s.align rows times s.align columns, one *)
(* after the other.  A row of a tile is copied block by block, from its    *)
(* first element on, which has to be the first one of a block.             *)
BlockNDOffset(s, r, c) ==
    (r \div s.align) * s.align * RoundUp(s.cols, s.align) + (c \div s.align) * s.align * s.align
    + (r % s.align) * s.align + (c % s.align)

StoreInBlocks(s, t, buffer) ==
    For(0, t.rows - 1, LAMBDA i :
      Move("MTE3", t.cols,
           LAMBDA e : Workspace(BlockNDOffset(s, t.row + i, t.col) + (e \div s.align) * s.align * s.align + (e % s.align)),
           LAMBDA e : In(buffer, i * t.stride + e)))

PaddingMatrixBlockND(s, aiv) ==
    ThroughBuffers(Tiles(s, aiv), LAMBDA r, c : Source(s, r, c), LAMBDA t, buffer : StoreInBlocks(s, t, buffer))

(* With tla tensors: GetTile gives the offsets. *)
TlaPaddingMatrixBlockND(s, aiv) ==
    ThroughBuffers(Tiles(s, aiv), LAMBDA r, c : Source(s, r, c), LAMBDA t, buffer : StoreInBlocks(s, t, buffer))

-----------------------------------------------------------------------------
(* RemovePaddingNDAndCast: back from rows that are s.stride apart; to      *)
(* another type through buffers of their own.                              *)
RemovePadding(s, aiv) ==
    LET Element(r, c) == <<"C", r, c>>
    IN ThroughBuffers(Tiles(s, aiv), LAMBDA r, c : Source(s, r, c), LAMBDA t, buffer :
         For(0, t.rows - 1, LAMBDA i :
           Move("MTE3", t.cols, LAMBDA e : Element(t.row + i, t.col + e), LAMBDA e : In(buffer, i * t.stride + e))))

RemovePaddingAndCast(s, aiv) ==
    LET tiles == Tiles(s, aiv)
        CastTile(t, buffer) ==
          LET all == IF t.stride = 0 THEN t.cols ELSE t.rows * t.stride
          IN Move("V", all, LAMBDA e : Out(buffer, e), LAMBDA e : In(buffer, e))
    IN For(0, BUFFER_NUM - 1, LAMBDA i : << SetFlag("MTE3", "MTE2", i) >>)
       \o For(1, Len(tiles), LAMBDA n :
            LET b == (n - 1) % BUFFER_NUM
                t == tiles[n]
            IN << WaitFlag("MTE3", "MTE2", b) >>
               \o LoadTile(t, b, LAMBDA r, c : Source(s, r, c))
               \o Sync("MTE2", "V", b) \o CastTile(t, b) \o Sync("V", "MTE3", b)
               \o For(0, t.rows - 1, LAMBDA i :
                    Move("MTE3", t.cols, LAMBDA e : <<"C", t.row + i, t.col + e>>,
                         LAMBDA e : Out(b, i * t.stride + e)))
               \o << SetFlag("MTE3", "MTE2", b) >>)
       \o For(0, BUFFER_NUM - 1, LAMBDA i : << WaitFlag("MTE3", "MTE2", i) >>)

-----------------------------------------------------------------------------
(* PaddingMatrixNZ: to zN, columns of fractals one after the other.        *)
NZOffset(rows, r, c) ==
    (c \div ELE_NUM_PER_C0) * RoundUp(rows, C0_NUM_PER_FRACTAL) * ELE_NUM_PER_C0 + r * ELE_NUM_PER_C0
    + (c % ELE_NUM_PER_C0)

(* Tile by tile: with Transform, which moves it from one buffer to another.*)
ThroughVector(loops, Body(_, _)) ==
    For(0, 1, LAMBDA i : << SetFlag("V", "MTE2", i), SetFlag("MTE3", "V", i) >>)
    \o For(1, Len(loops), LAMBDA n : Body(loops[n], n))
    \o For(0, 1, LAMBDA i : << WaitFlag("V", "MTE2", i), WaitFlag("MTE3", "V", i) >>)

VectorTile(b, load, transform, store) ==
    << WaitFlag("V", "MTE2", b) >> \o load \o Sync("MTE2", "V", b)
    \o << WaitFlag("MTE3", "V", b) >> \o transform
    \o << SetFlag("V", "MTE2", b) >> \o Sync("V", "MTE3", b) \o store \o << SetFlag("MTE3", "V", b) >>

(* CopyUb2Gm: the columns of fractals of a tile that begins at (row, col). *)
StoreFractals(s, row, col, rows, cols, ubRows, From(_)) ==
    For(0, CeilDiv(cols, ELE_NUM_PER_C0) - 1, LAMBDA j :
      Move("MTE3", rows * ELE_NUM_PER_C0,
           LAMBDA e : Workspace(NZOffset(s.rows, row, col) + NZOffset(s.rows, 0, j * ELE_NUM_PER_C0) + e),
           LAMBDA e : From(NZOffset(ubRows, 0, j * ELE_NUM_PER_C0) + e)))

CommonND2NZ(s, aiv) ==
    LET refTileCols == COMPUTE_LENGTH \div C0_NUM_PER_FRACTAL
        tileRows == C0_NUM_PER_FRACTAL
        tileCols == RoundUp(s.cols \div CeilDiv(s.cols, refTileCols), ELE_NUM_PER_C0)
        colTiles == CeilDiv(s.cols, tileCols)
        loops == TasksOf(aiv, CeilDiv(s.rows, tileRows) * colTiles, s.aivs)
        Tile(loopIdx, n) ==
          LET b == (n - 1) % 2
              row == (loopIdx \div colTiles) * tileRows
              col == (loopIdx % colTiles) * tileCols
              rows == Least(tileRows, s.rows - row)
              cols == Least(tileCols, s.cols - col)
              ubStride == RoundUp(cols, ELE_NUM_PER_C0)
          IN VectorTile(b,
               For(0, rows - 1, LAMBDA i :
                 Move("MTE2", cols, LAMBDA e : InNZ(b, i * ubStride + e), LAMBDA e : Source(s, row + i, col + e))),
               For(0, rows - 1, LAMBDA i :
                 Move("V", ubStride, LAMBDA e : OutNZ(b, NZOffset(rows, i, e)), LAMBDA e : InNZ(b, i * ubStride + e))),
               StoreFractals(s, row, col, rows, cols, rows, LAMBDA e : OutNZ(b, e)))
    IN ThroughVector(loops, Tile)

(* Short rows that follow each other without a gap: transposed twice, back *)
(* into the buffer they came from, which from then on is the other one.    *)
TransMatrixCols(s) ==
    LET maxLen == (COMPUTE_LENGTH \div VNCHW_SIZE) \div ELE_NUM_PER_C0
        cols == s.cols * ELE_NUM_PER_C0
        cond1 == s.rows > 8 * RowUnit /\ s.cols < maxLen
        cond2 == s.rows > 4 * RowUnit /\ s.cols < maxLen * 2 /\ s.cols % 2 = 0
        cond3 == s.rows > 2 * RowUnit /\ s.cols < maxLen * 4 /\ s.cols % 4 = 0
    IN IF cond1 THEN cols
       ELSE IF cond2 THEN cols \div 2
       ELSE IF cond3 THEN cols \div 4
       ELSE IF s.cols % 4 = 0 THEN cols \div 4
       ELSE IF s.cols % 2 = 0 THEN cols \div 2
       ELSE cols

VnchwND2NZ(s, aiv) ==
    LET transMatrixCols == TransMatrixCols(s)
        innerAxisPerCols == transMatrixCols \div s.cols
        tileRows == innerAxisPerCols * VNCHW_SIZE
        loops == TasksOf(aiv, CeilDiv(s.rows, tileRows), s.aivs)
        Tile(rowTileIdx, n) ==
          LET b == (n - 1) % 2
              swapped == ((n - 1) \div 2) % 2 = 1
              Input(e) == IF swapped THEN OutNZ(b, e) ELSE InNZ(b, e)
              Output(e) == IF swapped THEN InNZ(b, e) ELSE OutNZ(b, e)
              row == rowTileIdx * tileRows
              rows == Least(tileRows, s.rows - row)
              perInnerAxis == CeilDiv(s.cols, ELE_NUM_PER_C0)
              (* Row i of the transposed matrix is column i of the tile,   *)
              (* the tile being VNCHW_SIZE rows of transMatrixCols.        *)
              transposed ==
                For(0, transMatrixCols - 1, LAMBDA x :
                  Move("V", VNCHW_SIZE, LAMBDA y : Output(x * ELE_NUM_PER_C0 + y), LAMBDA y : Input(y * transMatrixCols + x)))
              back ==
                For(0, perInnerAxis - 1, LAMBDA i : For(0, innerAxisPerCols - 1, LAMBDA p :
                  For(0, VNCHW_SIZE - 1, LAMBDA j :
                    Move("V", Least(ELE_NUM_PER_C0, s.cols - i * ELE_NUM_PER_C0),
                         LAMBDA q : Input((i * tileRows + j * innerAxisPerCols + p) * ELE_NUM_PER_C0 + q),
                         LAMBDA q : Output((p * s.cols + i * VNCHW_SIZE + q) * ELE_NUM_PER_C0 + j)))))
          IN VectorTile(b,
               Move("MTE2", rows * s.cols, LAMBDA e : Input(e), LAMBDA e : Source(s, row, e)),
               transposed \o back,
               StoreFractals(s, row, 0, rows, s.cols, tileRows, Input))
    IN ThroughVector(loops, Tile)

PaddingMatrixNZ(s, aiv) ==
    LET maxLen == (COMPUTE_LENGTH \div VNCHW_SIZE) \div ELE_NUM_PER_C0
        short == \/ s.cols < maxLen
                 \/ s.cols < maxLen * 2 /\ s.cols % 2 = 0
                 \/ s.cols < maxLen * 4 /\ s.cols % 4 = 0
    IN IF s.cols % ELE_NUM_PER_C0 # 0 /\ s.rows > RowUnit /\ short /\ s.cols = s.stride
       THEN VnchwND2NZ(s, aiv) ELSE CommonND2NZ(s, aiv)

-----------------------------------------------------------------------------
(* All vector cores, which do not meet. *)
AllAiv(s, Padding(_, _)) ==
    For(0, s.aivs - 1, LAMBDA aiv : On(<<"aiv", aiv>>, Padding(s, aiv)))

PaddingProgram(s, Padding(_, _), PlaceOf(_, _)) ==
    LET elements == (0..(s.rows - 1)) \X (0..(s.cols - 1))
    IN Loaded(AllAiv(s, Padding),
              [d \in {PlaceOf(e[1], e[2]) : e \in elements} |->
                 LET e == CHOOSE x \in elements : PlaceOf(x[1], x[2]) = d
                 IN SetToBag({Source(s, e[1], e[2])})],
              FALSE)

PaddingMatrix(rows, cols, stride, align, aivs) ==
    [rows |-> rows, cols |-> cols, stride |-> stride, align |-> align, aivs |-> aivs]

(* Rows that fit into a buffer together and rows longer than one.          *)
PaddingPipePrograms ==
    LET several == PaddingMatrix(7, 3, 4, 4, 2)
        long == PaddingMatrix(2, 19, 20, 4, 1)
        result == PaddingMatrix(5, 5, 8, 8, 2)
        wide == PaddingMatrix(3, 18, 24, 8, 2)
        ND(s, Padding(_, _)) == PaddingProgram(s, Padding, LAMBDA r, c : Workspace(NDOffset(s, r, c)))
        Blocks(s, Padding(_, _)) == PaddingProgram(s, Padding, LAMBDA r, c : Workspace(BlockNDOffset(s, r, c)))
        Removed(s, Padding(_, _)) == PaddingProgram(s, Padding, LAMBDA r, c : <<"C", r, c>>)
    IN "padding ND of several rows" :> ND(several, PaddingMatrixND)
       @@ "padding ND of long rows" :> ND(long, PaddingMatrixND)
       @@ "padding in blocks of several rows" :> Blocks(several, PaddingMatrixBlockND)
       @@ "padding in blocks of long rows" :> Blocks(long, PaddingMatrixBlockND)
       @@ "padding in blocks with tla tensors" :> Blocks(long, TlaPaddingMatrixBlockND)
       @@ "remove padding" :> Removed(wide, RemovePadding)
       @@ "remove padding and cast" :> Removed(result, RemovePaddingAndCast)
       @@ "remove padding of long rows and cast" :> Removed(wide, RemovePaddingAndCast)

(* Short rows without a gap, an odd and an even number of columns, and     *)
(* tiles of several columns of fractals.                                   *)
PaddingNZPrograms ==
    LET NZ(s) == PaddingProgram(s, PaddingMatrixNZ, LAMBDA r, c : Workspace(NZOffset(s.rows, r, c)))
    IN "padding NZ in tiles" :> NZ(PaddingMatrix(5, 22, 24, 1, 2))
       @@ "padding NZ of a few rows" :> NZ(PaddingMatrix(7, 3, 3, 1, 2))
       @@ "padding NZ transposed" :> NZ(PaddingMatrix(34, 2, 2, 1, 2))
       @@ "padding NZ of one column" :> NZ(PaddingMatrix(19, 1, 1, 1, 1))
===============================================================================
