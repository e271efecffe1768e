----------------------------- MODULE Partitions ------------------------------
(***************************************************************************)
(* Everything in the templates that cuts a whole into pieces, run piece by *)
(* piece: the tile copies (DataCopies), the swizzles (BlockSwizzles), the  *)
(* kernels that use them (GemmKernels) and the tiles of the all-reduce     *)
(* (AllReduceTiling).                                                      *)
(* A job says what is to be where in the end, and a piece which elements   *)
(* it puts in place, both as pairs <<place, element>>.                     *)
(***************************************************************************)
EXTENDS DataCopies, GemmKernels, AllReduceTiling, FiniteSets

-----------------------------------------------------------------------------
(* Jobs for the tile copies, which move tiles out of larger matrices:      *)
(* every specialisation on the layouts it is for, with full and partial    *)
(* tiles, and with strides beyond the limit of the instructions where the  *)
(* code has a way to do them.  The numbers are scaled down: a fractal has  *)
(* 4 rows instead of 16 and 32 bytes hold e = 2 float, 4 half, 8 int8 or   *)
(* 16 int4 instead of 8, 16, 32 and 64.                                    *)

(* A job: copy a tile of rows and cols from the element <<r, c>> of a       *)
(* matrix with layout l on (from: l, r, c) to such a place (into).  The     *)
(* code is handed the layouts dst and src; args are parameters that are no  *)
(* layouts.                                                                 *)
Region(l, r, c) == [l |-> l, r |-> r, c |-> c]

Job(copy, e, rows, cols, into, dst, from, src) ==
    [copy |-> copy, e |-> e, rows |-> rows, cols |-> cols,
     into |-> into, dst |-> dst, from |-> from, src |-> src, args |-> <<>>]

(* To a buffer of its own, out of a matrix, and the other way round. *)
TileIn(copy, e, rows, cols, dst, l, r, c) ==
    Job(copy, e, rows, cols, Region(dst, 0, 0), dst, Region(l, r, c), GetTileLayout(l, rows, cols))

TileOut(copy, e, rows, cols, src, l, r, c) ==
    Job(copy, e, rows, cols, Region(l, r, c), GetTileLayout(l, rows, cols), Region(src, 0, 0), src)

(* Part of a tile, whose layout the code is handed. *)
Part(copy, e, rows, cols, dst, l, r, c) ==
    Job(copy, e, rows, cols, Region(dst, 0, 0), dst, Region(l, r, c), l)

(* The same job for the specialisation with rows and columns swapped. *)
Turned(copy, j) ==
    LET Turn(g) == Region(Transposed(g.l), g.c, g.r)
    IN Job(copy, j.e, j.cols, j.rows, Turn(j.into), Transposed(j.dst), Turn(j.from), Transposed(j.src))

ASSUME TurnedAssumption ==
    \A e \in {2, 4, 8}, r \in 1..9, c \in 1..9 :
      /\ Transposed(zN(e, r, c)) = nZ(e, c, r)
      /\ Transposed(zZ(e, r, c)) = nN(e, c, r)
      /\ Transposed(RowMajor(r, c, 9)) = ColumnMajor(c, r, 9)
      /\ Transposed(PaddingRowMajor(r, c, 2, 3)) = PaddingColumnMajor(c, r, 3, 2)

-----------------------------------------------------------------------------
Tiles(e) == {<<1, 2 * e>>, <<3, e + 1>>, <<C0, e>>, <<C0 + 1, 1>>, <<C0 + 1, e>>, <<2 * C0, 2 * e>>}

(* Where the tile begins, and how many columns are to the right of it: none *)
(* at all, some, or so many that the stride is beyond the limit.            *)
Short(e) == {<<0, 0, 0>>, <<C0, e, 12>>}

Long == {<<0, 0, STRIDE_LIMIT>>}

L1Tile(e) == zN(e, 2 * C0, 2 * e)

ByRows(copies, sizes, long) ==
    UNION {{TileIn(n, e, t[1], t[2], L1Tile(e),
                   RowMajor(g[1] + t[1], g[2] + t[2] + g[3], g[2] + t[2] + g[3]), g[1], g[2]) :
              n \in copies, t \in Tiles(e), g \in Short(e) \cup long} : e \in sizes}

(* Out of a matrix in fractals, a high one if the stride is to be long. *)
ByFractals(copies, sizes) ==
    UNION {{TileIn(n, e, t[1], t[2], L1Tile(e), zN(e, rows, 3 * e), C0, e) :
              n \in copies, t \in Tiles(e), rows \in {3 * C0, STRIDE_LIMIT, STRIDE_LIMIT + C0}} : e \in sizes}

(* Out of a block of a padding layout. *)
ByPadding(copies, sizes) ==
    UNION {{LET l == PaddingRowMajor(4 * C0, 4 * e, 2 * C0, 2 * e)
            IN Job(n, e, t[1], t[2], Region(L1Tile(e), 0, 0), L1Tile(e), Region(l, 2 * C0, 2 * e),
                   GetPaddingTileLayout(l, t[1], t[2])) :
              n \in copies, t \in Tiles(e)} : e \in sizes}

ToZZ(copies, sizes) ==
    UNION {{TileIn(n, e, t[1], t[2], zZ(e, 2 * C0, 2 * e), RowMajor(t[1], t[2] + gap, t[2] + gap), 0, 0) :
              n \in copies, t \in Tiles(e), gap \in {0, 12}} : e \in sizes}
    \cup UNION {{TileIn(n, e, C0, cols, zZ(e, 2 * C0, 2 * e), RowMajor(C0, 3 * e + STRIDE_LIMIT, 3 * e + STRIDE_LIMIT), 0, 0) :
              n \in copies, cols \in {e, e + 1}} : e \in sizes}

Vectors(copies, sizes, lengths(_)) ==
    UNION {{LET v == VectorLayout(n)
                whole == VectorLayout(RoundUp(n, e))
            IN Job(c, e, 1, n, Region(whole, 0, 0), v, Region(v, 0, 0), v) :
              c \in copies, n \in lengths(e)} : e \in sizes}

(* Between memory and UB; cols is what the rows in UB are cut to. *)
InUb(copies, sizes) ==
    UNION {{TileIn(n, e, t[1], t[2], RowMajorInUb(e, t[1], t[2]),
                   RowMajor(t[1], t[2] + gap, t[2] + gap), 0, 0) :
              n \in copies, t \in Tiles(e), gap \in {0, 12}} : e \in sizes}

OutOfUb(copies, sizes) ==
    UNION {{TileOut(n, e, t[1], t[2], RowMajorInUb(e, t[1], t[2]),
                    RowMajor(t[1] + 1, t[2] + gap, t[2] + gap), 1, 0) :
              n \in copies, t \in Tiles(e), gap \in {0, 12}} : e \in sizes}

(* Whole blocks, with a gap here, there or so long that it is beyond limits. *)
Aligned(copies, sizes) ==
    UNION {{TileIn(n, e, rows, 2 * e, RowMajor(rows, 2 * e, g[1] * e), RowMajor(rows, 2 * e, g[2] * e), 0, 0) :
              n \in copies, rows \in {1, MAX_REPEAT, 2 * MAX_REPEAT + 1},
              g \in {<<2, 2>>, <<3, 2>>, <<2, 5>>, <<2, STRIDE_LIMIT + 2>>}} : e \in sizes}

(* Parts of a tile in L1. *)
Parts(copies, e, L0(_, _, _), l1, shapes, corners) ==
    {Part(n, e, s[1], s[2], L0(e, s[1], s[2]), l1, g[1], g[2]) :
       n \in copies, s \in shapes, g \in corners}

TlaParts(copies, e, L0(_, _, _), l1, shapes, corners) ==
    {TileIn(n, e, s[1], s[2], L0(e, s[1], s[2]), l1, g[1], g[2]) :
       n \in copies, s \in shapes, g \in corners}

(* Of float that is turned round, whole fractals are loaded in both         *)
(* directions: the mmad is told to take K rounded up to the height of one.  *)
WidenedA(jobs) ==
    {[j EXCEPT !.into.l = zZ(j.e, j.rows, RoundUp(j.cols, C0))] : j \in jobs}

WidenedB(jobs) ==
    {[j EXCEPT !.into.l = nZ(j.e, RoundUp(j.rows, C0), j.cols)] : j \in jobs}

ToL0A ==
    UNION {Parts({"GemmZNToZZ", "zNToL0A"}, e, zZ, zN(e, 2 * C0, 4 * e),
                 {C0, 2 * C0} \X {e, e + 1, 2 * e}, {0} \X {0, e})
           \cup TlaParts({"TlaZNToZZ"}, e, zZ, zN(e, 2 * C0, 4 * e), {C0, 2 * C0} \X {e, 2 * e}, {0} \X {0, e}) :
             e \in {2, 4, 8}}
    \cup Parts({"zNToL0AOfFloat"}, 2, zZ, zN(2, 8, 8), {4, 8} \X {2, 4}, {0} \X {0, 2})
    \cup TlaParts({"TlaZNToZZOfFloat"}, 2, zZ, zN(2, 8, 8), {4, 8} \X {2, 4}, {0} \X {0, 2})
    \cup Parts({"GemmNNToZZ"}, 4, zZ, nN(4, 8, 16), {8} \X {3, 4, 8}, {0} \X {0, 4})
    \cup Parts({"GemmNNToZZOfFloat"}, 2, zZ, nN(2, 8, 16), {8} \X {4, 8}, {0} \X {0, 4})
    \cup Parts({"GemmNZToZZOfInt8", "nZToL0AOfInt8"}, 8, zZ, nZ(8, 16, 32), {8, 16} \X {8, 13, 16}, {0} \X {0, 8})
    \cup TlaParts({"TlaNZToZZOfInt8"}, 8, zZ, nZ(8, 16, 32), {8, 16} \X {8, 16}, {0} \X {0, 8})
    \cup Parts({"nZToL0A"}, 4, zZ, nZ(4, 8, 16), {4, 8} \X {4, 5, 8}, {0} \X {0, 4})
    \cup TlaParts({"TlaNZToZZ"}, 4, zZ, nZ(4, 8, 16), {4, 8} \X {4, 5, 8}, {0} \X {0, 4})
    \cup WidenedA(Parts({"nZToL0AOfFloat"}, 2, zZ, nZ(2, 8, 16), {2, 6, 8} \X {2, 4, 6}, {0} \X {0, 4}))
    \cup WidenedA(TlaParts({"TlaNZToZZOfFloat"}, 2, zZ, nZ(2, 8, 16), {2, 6, 8} \X {2, 4, 6}, {0} \X {0, 4}))

ToL0B ==
    UNION {Parts({"GemmNZToNZ", "nZToL0B"}, e, nZ, nZ(e, 4 * e, 8), {e, e + 1, 2 * e} \X {4, 8}, {0, e} \X {0})
           \cup TlaParts({"TlaNZToNZInL0B"}, e, nZ, nZ(e, 4 * e, 8), {e, 2 * e} \X {4, 8}, {0, e} \X {0})
           \cup Parts({"GemmZNToZN"}, e, zN, zN(e, 16, 4 * e), {4, 8} \X {e, 2 * e}, {0, 4} \X {0, e}) :
             e \in {2, 4, 8}}
    \cup Parts({"GemmZZToNZ"}, 4, nZ, zZ(4, 16, 8), {3, 4, 8} \X {8}, {0, 4} \X {0})
    \cup Parts({"GemmZZToNZOfFloat"}, 2, nZ, zZ(2, 16, 8), {4, 7, 8} \X {8}, {0, 4} \X {0})
    \cup Parts({"GemmZNToNZOfInt8", "zNToL0BOfInt8"}, 8, nZ, zN(8, 32, 16), {8, 9, 16} \X {8, 16}, {0, 8} \X {0})
    \cup TlaParts({"TlaZNToNZOfInt8"}, 8, nZ, zN(8, 32, 16), {8, 16} \X {8, 16}, {0, 8} \X {0})
    \cup Parts({"GemmNNToZN"}, 4, zN, nN(4, 8, 16), {8} \X {4, 8}, {0} \X {0, 4})
    \cup Parts({"GemmNNToZNOfFloat"}, 2, zN, nN(2, 8, 16), {8} \X {3, 4, 8}, {0} \X {0, 4})
    \cup {Turned("GemmNZToZNOfInt8", j) :
             j \in Parts({"GemmZNToNZOfInt8"}, 8, nZ, zN(8, 32, 16), {8, 16} \X {8, 16}, {0, 8} \X {0})}
    \cup Parts({"zNToL0B"}, 4, nZ, zN(4, 16, 8), {3, 4, 8} \X {4, 8}, {0, 4} \X {0})
    \cup TlaParts({"TlaZNToNZ"}, 4, nZ, zN(4, 16, 8), {4, 8} \X {4, 8}, {0, 4} \X {0})
    \cup Parts({"zNToL0BOfInt4"}, 16, nZ, zN(16, 32, 32), {16, 32} \X {16, 32}, {0} \X {0})
    \cup WidenedB(Parts({"zNToL0BOfFloat"}, 2, nZ, zN(2, 8, 8), {2, 4, 6} \X {4, 6, 8}, {0, 2} \X {0}))
    \cup WidenedB(TlaParts({"TlaZNToNZOfFloat"}, 2, nZ, zN(2, 8, 8), {2, 4, 6} \X {4, 6, 8}, {0, 2} \X {0}))

FromL0C ==
    UNION {{TileOut(n, e, t[1], t[2], zNInL0C(RoundUp(t[1], C0), RoundUp(t[2], C0)), RowMajor(9, 20, 20), 1, 2) :
              n \in {"L0CToRowMajor", "L0CToRowMajorPerTensor", "L0CToRowMajorPerChannel", "TlaL0CToRowMajor"},
              t \in {<<1, 1>>, <<4, 8>>, <<5, 7>>}}
           \cup {TileOut(n, e, t[1], t[2], zNInL0C(8, 16), zN(e, 12, 32), C0, e) :
              n \in {"L0CToZN", "TlaL0CToZN"}, t \in {<<4, 8>>, <<8, 16>>, <<5, 7>>}} : e \in {2, 4, 8}}

(* An image of planes of h rows, of which hi are loaded, several depths of  *)
(* c1 planes at a time that are dilation apart; a filter; and an image out. *)
Planes(n, hi, dilation, c1, h, w, e) ==
    LET width == hi * w * e
        dst == RowMajor(n, width, width)
        src == Layout(<<n, width>>, <<c1, CeilDiv(n, c1), width, 1>>,
                      <<h * w * e, dilation * c1 * h * w * e, 1, 0>>)
    IN [Job("NDC1HWC0ToL1", e, n, width, Region(dst, 0, 0), dst, Region(src, 0, 0), src)
        EXCEPT !.args = <<n, hi, dilation, c1, h, w>>]

Filter(k, n, n1, n0, e) ==
    LET dst == RowMajor(k \div e, n * e, n * e)
        src == RowMajor(k \div e, n * e, n1 * n0 * e)
    IN [Job("KDC1KHKWN1N0C0ToL1", e, k \div e, n * e, Region(dst, 0, 0), dst, Region(src, 0, 0), src)
        EXCEPT !.args = <<k, n, n1, n0>>]

ImageOut(m, n, h, w, e) ==
    LET dst == Layout(<<m, n>>, <<h * w, 1, e, CeilDiv(n, e)>>, <<e, 0, 1, h * w * e>>)
        src == zNInL0C(m, n)
    IN [Job("L0CToNDC1HWC0", e, m, n, Region(dst, 0, 0), dst, Region(src, 0, 0), src)
        EXCEPT !.dst.shape = <<1, h, w, e, 1>>]

Convolution ==
    {Planes(n, hi, 2, 2, 3, 2, 4) : n \in {1, 2, 4}, hi \in {1, 3}}
    \cup {Planes(n, 1, 2, 2, 1 + STRIDE_LIMIT, 1, 2) : n \in {2, 4}}
    \cup {Filter(k, n, 3, C0, 4) : k \in {4, 12}, n \in {4, 8, 12}}
    \cup {ImageOut(m, n, 3, 2, e) : m \in {4, 6}, n \in {4, 8}, e \in {2, 4}}

(* Rows, and columns. *)
ToL1 ==
    ByRows({"RowMajorToL1OnA2"}, {2, 4, 8}, Long)
    \cup {j \in ByRows({"RowMajorToL1OnA2"}, {16}, Long) : j.cols % 2 = 0}
    \cup ByRows({"DynamicOptimizedRowMajor", "GMMPTDRowMajor", "RowMajorToZNInA1", "TlaRowMajorToZN"}, {2, 4, 8}, Long)
    \cup ByRows({"RowMajorToZNInB1", "IntervalRowMajor"}, {4}, Long)
    \cup ByRows({"TlaExtRowMajorToZN"}, {2, 4, 8}, {})
    \cup ByFractals({"zNToL1", "TlaZNToZN", "TlaExtZNToZN"}, {2, 4, 8})
    \cup ByPadding({"PaddingRowMajorToL1", "TlaExtPaddingRowMajorToZN", "IntervalPaddingRowMajor"}, {2, 4, 8})
    \cup ToZZ({"RowMajorToZZInB1"}, {2, 4, 8})
    \cup {TileIn("VectorToZN", e, 1, n, zN(e, C0, 4 * e), VectorLayout(n), 0, 0) : e \in {2, 4}, n \in {3, 8}}

ToL1ByColumns ==
    UNION {{Turned(pair[2], j) : j \in ByRows({pair[1]}, {2, 8}, Long)} :
             pair \in {<<"RowMajorToL1OnA2", "ColumnMajorToL1OnA2">>,
                       <<"DynamicOptimizedRowMajor", "DynamicOptimizedColumnMajor">>,
                       <<"RowMajorToZNInA1", "ColumnMajorToNZInA1">>, <<"RowMajorToZNInB1", "ColumnMajorToNZInB1">>,
                       <<"IntervalRowMajor", "IntervalColumnMajor">>, <<"TlaRowMajorToZN", "TlaColumnMajorToNZ">>}}
    \cup {Turned("TlaExtColumnMajorToNZ", j) : j \in ByRows({"TlaExtRowMajorToZN"}, {2, 8}, {})}
    \cup UNION {{Turned(n, j) : j \in ByFractals({"zNToL1"}, {2, 8})} : n \in {"nZToL1", "TlaNZToNZ", "TlaExtNZToNZ"}}
    \cup UNION {{Turned(n, j) : j \in ByPadding({"PaddingRowMajorToL1"}, {2, 8})} :
                  n \in {"PaddingColumnMajorToL1", "TlaExtPaddingColumnMajorToNZ", "IntervalPaddingColumnMajor"}}
    \cup UNION {{Turned(n, j) : j \in ToZZ({"RowMajorToZZInB1"}, {2, 8})} :
                  n \in {"ColumnMajorToNNInA1", "ColumnMajorToNNInB1"}}

ThroughUb ==
    InUb({"GmToUb", "TlaGmToUb"}, {2, 8})
    \cup OutOfUb({"UbToGm", "GemmUbToGm", "TlaUbToGm"}, {2, 8})
    \cup Aligned({"RowMajorToRowMajor", "AlignedToUb", "AlignedToGm"}, {2, 4})
    \cup Vectors({"VectorToUb", "GemmVectorToUb", "GemvVectorToUb", "VectorToGm", "GemvVectorToGm",
                  "GemvVectorAddedToGm", "L1ToBT", "L1ToFP"}, {2, 4}, LAMBDA e : {1, e, 3 * e - 1})
    \cup Vectors({"VectorToVector"}, {2, 4}, LAMBDA e : {e, 3 * e})
    \cup {TileIn("PerTokenScaleToUb", e, rows, 1, RowMajorInUb(e, rows, 1), RowMajor(rows, 1, 1), 0, 0) :
             e \in {2, 4}, rows \in {1, 5}}
    \cup UNION {{TileIn("GemvMatrixToUb", e, t[1], t[2], RowMajor(t[1], RoundUp(t[2] + e, e), RoundUp(t[2] + e, e)),
                        RowMajor(t[1], t[2] + gap, t[2] + gap), 0, 0) :
                   t \in Tiles(e), gap \in {0, 1, 5, 12, STRIDE_LIMIT}} : e \in {2, 4}}
    \cup UNION {{TileOut("TlaExtUbToPadding", e, 1, cols, RowMajor(1, cols, cols),
                         PaddingRowMajor(6, 12 * e, 3, 2 * e), r, c) :
                   cols \in {2 * e, 6 * e}, r \in {0, 2, 4}, c \in {0, 2 * e}} : e \in {2, 4}}

ThroughUbByColumns ==
    {Turned("GemvMatrixToUbOfColumns", j) : j \in {i \in ThroughUb : i.copy = "GemvMatrixToUb"}}

CopyJobs == ToL1 \cup ToL1ByColumns \cup ToL0A \cup ToL0B \cup FromL0C \cup ThroughUb \cup ThroughUbByColumns
        \cup Convolution

(* The instructions of a job. *)
Copied(j) ==
    LET e == j.e  dst == j.dst  src == j.src  args == j.args
    IN CASE j.copy = "NDC1HWC0ToL1" -> NDC1HWC0ToL1(e, args[1], args[2], args[3], args[4], args[5], args[6])
         [] j.copy = "KDC1KHKWN1N0C0ToL1" -> KDC1KHKWN1N0C0ToL1(e, args[1], args[2], args[3], args[4])
         [] j.copy = "DynamicOptimizedRowMajor" -> DynamicOptimizedRowMajor(e, dst, src)
         [] j.copy = "DynamicOptimizedColumnMajor" -> DynamicOptimizedColumnMajor(e, dst, src)
         [] j.copy = "GMMPTDRowMajor" -> GMMPTDRowMajor(e, dst, src)
         [] j.copy = "IntervalRowMajor" -> IntervalRowMajor(e, dst, src)
         [] j.copy = "IntervalPaddingRowMajor" -> IntervalPaddingRowMajor(e, dst, src)
         [] j.copy = "IntervalColumnMajor" -> IntervalColumnMajor(e, dst, src)
         [] j.copy = "IntervalPaddingColumnMajor" -> IntervalPaddingColumnMajor(e, dst, src)
         [] j.copy = "RowMajorToZNInA1" -> RowMajorToZNInA1(e, dst, src)
         [] j.copy = "RowMajorToZNInB1" -> RowMajorToZNInB1(e, dst, src)
         [] j.copy = "ColumnMajorToNZInA1" -> ColumnMajorToNZInA1(e, dst, src)
         [] j.copy = "ColumnMajorToNZInB1" -> ColumnMajorToNZInB1(e, dst, src)
         [] j.copy = "RowMajorToZZInB1" -> RowMajorToZZInB1(e, dst, src)
         [] j.copy = "ColumnMajorToNNInA1" -> ColumnMajorToNNInA1(e, dst, src)
         [] j.copy = "ColumnMajorToNNInB1" -> ColumnMajorToNNInB1(e, dst, src)
         [] j.copy = "VectorToZN" -> VectorToZN(e, dst, src)
         [] j.copy = "RowMajorToL1OnA2" -> RowMajorToL1OnA2(e, dst, src)
         [] j.copy = "ColumnMajorToL1OnA2" -> ColumnMajorToL1OnA2(e, dst, src)
         [] j.copy = "zNToL1" -> zNToL1(e, dst, src)
         [] j.copy = "nZToL1" -> nZToL1(e, dst, src)
         [] j.copy = "PaddingRowMajorToL1" -> PaddingRowMajorToL1(e, dst, src)
         [] j.copy = "PaddingColumnMajorToL1" -> PaddingColumnMajorToL1(e, dst, src)
         [] j.copy = "RowMajorToRowMajor" -> RowMajorToRowMajor(e, dst, src)
         [] j.copy = "VectorToVector" -> VectorToVector(e, dst, src)
         [] j.copy = "TlaRowMajorToZN" -> TlaRowMajorToZN(e, dst, src)
         [] j.copy = "TlaColumnMajorToNZ" -> TlaColumnMajorToNZ(e, dst, src)
         [] j.copy = "TlaZNToZN" -> TlaZNToZN(e, dst, src)
         [] j.copy = "TlaNZToNZ" -> TlaNZToNZ(e, dst, src)
         [] j.copy = "TlaExtRowMajorToZN" -> TlaExtRowMajorToZN(e, dst, src)
         [] j.copy = "TlaExtPaddingRowMajorToZN" -> TlaExtPaddingRowMajorToZN(e, dst, src)
         [] j.copy = "TlaExtColumnMajorToNZ" -> TlaExtColumnMajorToNZ(e, dst, src)
         [] j.copy = "TlaExtPaddingColumnMajorToNZ" -> TlaExtPaddingColumnMajorToNZ(e, dst, src)
         [] j.copy = "TlaExtZNToZN" -> TlaExtZNToZN(e, dst, src)
         [] j.copy = "TlaExtNZToNZ" -> TlaExtNZToNZ(e, dst, src)
         [] j.copy = "GemmZNToZZ" -> GemmZNToZZ(e, dst, src)
         [] j.copy = "GemmNNToZZ" -> GemmNNToZZ(e, dst, src)
         [] j.copy = "GemmNNToZZOfFloat" -> GemmNNToZZOfFloat(e, dst, src)
         [] j.copy = "GemmNZToZZOfInt8" -> GemmNZToZZOfInt8(e, dst, src)
         [] j.copy = "zNToL0A" -> zNToL0A(e, dst, src)
         [] j.copy = "zNToL0AOfFloat" -> zNToL0AOfFloat(e, dst, src)
         [] j.copy = "nZToL0A" -> nZToL0A(e, dst, src)
         [] j.copy = "nZToL0AOfInt8" -> nZToL0AOfInt8(e, dst, src)
         [] j.copy = "nZToL0AOfFloat" -> nZToL0AOfFloat(e, dst, src)
         [] j.copy = "TlaZNToZZ" -> TlaZNToZZ(e, dst, src)
         [] j.copy = "TlaZNToZZOfFloat" -> TlaZNToZZOfFloat(e, dst, src)
         [] j.copy = "TlaNZToZZ" -> TlaNZToZZ(e, dst, src)
         [] j.copy = "TlaNZToZZOfInt8" -> TlaNZToZZOfInt8(e, dst, src)
         [] j.copy = "TlaNZToZZOfFloat" -> TlaNZToZZOfFloat(e, dst, src)
         [] j.copy = "GemmZZToNZ" -> GemmZZToNZ(e, dst, src)
         [] j.copy = "GemmZZToNZOfFloat" -> GemmZZToNZOfFloat(e, dst, src)
         [] j.copy = "GemmZNToNZOfInt8" -> GemmZNToNZOfInt8(e, dst, src)
         [] j.copy = "GemmNZToNZ" -> GemmNZToNZ(e, dst, src)
         [] j.copy = "GemmZNToZN" -> GemmZNToZN(e, dst, src)
         [] j.copy = "GemmNNToZN" -> GemmNNToZN(e, dst, src)
         [] j.copy = "GemmNNToZNOfFloat" -> GemmNNToZNOfFloat(e, dst, src)
         [] j.copy = "GemmNZToZNOfInt8" -> GemmNZToZNOfInt8(e, dst, src)
         [] j.copy = "zNToL0B" -> zNToL0B(e, dst, src)
         [] j.copy = "zNToL0BOfInt8" -> zNToL0BOfInt8(e, dst, src)
         [] j.copy = "zNToL0BOfInt4" -> zNToL0BOfInt4(e, dst, src)
         [] j.copy = "zNToL0BOfFloat" -> zNToL0BOfFloat(e, dst, src)
         [] j.copy = "nZToL0B" -> nZToL0B(e, dst, src)
         [] j.copy = "TlaZNToNZ" -> TlaZNToNZ(e, dst, src)
         [] j.copy = "TlaNZToNZInL0B" -> TlaNZToNZInL0B(e, dst, src)
         [] j.copy = "TlaZNToNZOfInt8" -> TlaZNToNZOfInt8(e, dst, src)
         [] j.copy = "TlaZNToNZOfFloat" -> TlaZNToNZOfFloat(e, dst, src)
         [] j.copy = "L0CToRowMajor" -> L0CToRowMajor(e, dst, src)
         [] j.copy = "L0CToRowMajorPerTensor" -> L0CToRowMajorPerTensor(e, dst, src)
         [] j.copy = "L0CToRowMajorPerChannel" -> L0CToRowMajorPerChannel(e, dst, src)
         [] j.copy = "L0CToZN" -> L0CToZN(e, dst, src)
         [] j.copy = "L0CToNDC1HWC0" -> L0CToNDC1HWC0(e, dst, src)
         [] j.copy = "TlaL0CToRowMajor" -> TlaL0CToRowMajor(e, dst, src)
         [] j.copy = "TlaL0CToZN" -> TlaL0CToZN(e, dst, src)
         [] j.copy = "L1ToBT" -> L1ToBT(e, dst, src)
         [] j.copy = "L1ToFP" -> L1ToFP(e, dst, src)
         [] j.copy = "GmToUb" -> GmToUb(e, dst, src)
         [] j.copy = "TlaGmToUb" -> TlaGmToUb(e, dst, src)
         [] j.copy = "VectorToUb" -> VectorToUb(e, dst, src)
         [] j.copy = "GemmVectorToUb" -> GemmVectorToUb(e, dst, src)
         [] j.copy = "PerTokenScaleToUb" -> PerTokenScaleToUb(e, dst, src)
         [] j.copy = "AlignedToUb" -> AlignedToUb(e, dst, src)
         [] j.copy = "GemvVectorToUb" -> GemvVectorToUb(e, dst, src)
         [] j.copy = "GemvMatrixToUb" -> GemvMatrixToUb(e, dst, src)
         [] j.copy = "GemvMatrixToUbOfColumns" -> GemvMatrixToUbOfColumns(e, dst, src)
         [] j.copy = "UbToGm" -> UbToGm(e, dst, src)
         [] j.copy = "GemmUbToGm" -> GemmUbToGm(e, dst, src)
         [] j.copy = "TlaUbToGm" -> TlaUbToGm(e, dst, src)
         [] j.copy = "TlaExtUbToPadding" -> TlaExtUbToPadding(e, dst, src)
         [] j.copy = "VectorToGm" -> VectorToGm(e, dst, src)
         [] j.copy = "AlignedToGm" -> AlignedToGm(e, dst, src)
         [] j.copy = "GemvVectorToGm" -> GemvVectorToGm(e, dst, src)
         [] j.copy = "GemvVectorAddedToGm" -> GemvVectorAddedToGm(e, dst, src)

Places(j) ==
    LET At(g, r, c) == GetOffset(g.l, g.r + r, g.c + c) - GetOffset(g.l, g.r, g.c)
    IN {<<At(j.into, r, c), At(j.from, r, c)>> : r \in 0..(j.rows - 1), c \in 0..(j.cols - 1)}

-----------------------------------------------------------------------------
(* The elements of a whole are numbered, each is its own place, and the    *)
(* args say how it is cut.                                                 *)
Whole(cut, e, args, size) ==
    LET l == RowMajor(1, size, size)
    IN [Job(cut, e, 1, size, Region(l, 0, 0), l, Region(l, 0, 0), l) EXCEPT !.args = args]

Volume(shape) == shape[1] * shape[2] * shape[3] * shape[4]

Numbered(shape, block) ==
    {<<i, i>> : i \in {((b * shape[2] + m) * shape[3] + n) * shape[4] + k :
                         b \in block[1], m \in block[2], n \in block[3], k \in block[4]}}

Problem(args) ==
    [shape |-> args[1], tile |-> args[2], offset |-> args[3], direction |-> args[4], cores |-> args[5]]

Problems(cuts, shapes, tiles, offsets, cores) ==
    {Whole(cut, 1, <<shape, tile, offset, direction, n>>, Volume(shape)) :
       cut \in cuts, shape \in shapes, tile \in tiles, offset \in offsets, direction \in {0, 1}, n \in cores}

(* Splitting K wants a tile of K for every slice, which the hosts see to,  *)
(* and a convolution blocks that come out as many as were asked for, as    *)
(* they do for the two along each axis that the examples ask for.          *)
SwizzleJobs ==
    Problems({"Identity", "DynamicIdentity"}, {<<2, 9, 7, 1>>, <<1, 5, 16, 1>>}, {<<1, 2, 3, 1>>}, {1, 2, 3}, {1})
    \cup Problems({"L1FullLoad"}, {<<1, 9, 7, 1>>, <<1, 5, 16, 1>>}, {<<1, 2, 3, 1>>}, {1, 2}, {2, 4})
    \cup Problems({"Splitk", "DynamicSplitk"}, {<<1, 5, 4, 9>>, <<2, 3, 5, 8>>}, {<<1, 2, 2, 2>>}, {1, 2}, {1, 3})
    \cup Problems({"SingleCoreSplitk", "DynamicSingleCoreSplitk"}, {<<1, 9, 4, 5>>, <<1, 6, 9, 3>>}, {<<1, 1, 2, 2>>}, {1, 2, 4}, {1, 4})
    \cup Problems({"Streamk", "DynamicStreamk"}, {<<1, 9, 4, 11>>, <<1, 5, 5, 5>>}, {<<1, 2, 2, 2>>}, {1, 3}, {2, 4, 7})
    \cup Problems({"Misplaced"}, {<<2, 9, 20, 1>>, <<1, 19, 9, 1>>, <<1, 4, 4, 1>>}, {<<1, 1, 2, 1>>, <<1, 2, 1, 1>>}, {1}, {4, 9})
    \cup Problems({"Conv3d"}, {<<2, 3, 2, 6>>, <<1, 4, 1, 9>>}, {<<2, 2, 2, 2>>, <<1, 2, 1, 3>>}, {1, 2}, {1})
    \cup Problems({"Conv2d"}, {<<2, 5, 3, 4>>}, {<<1, 2, 2, 3>>}, {1, 2}, {1})

(* Whatever the number of vector cores, blocks up to a full UB buffer wide. *)
TilingJobs ==
    {Whole("AllReduce", Align, <<rows, cols, aivNum>>, rows * cols) :
       rows \in 1..9, cols \in 1..ComputeLength, aivNum \in {2, 4, 6, 8}}

KernelJobs == {Whole("kernel", 1, <<p>>, ResultSize(p)) : p \in KernelProblems}

Jobs == CopyJobs \cup SwizzleJobs \cup TilingJobs \cup KernelJobs

-----------------------------------------------------------------------------
(* The blocks of all tasks; which core has which does not matter here. *)
Tasks(s, loops, Block(_, _)) == [t \in 1..loops |-> Numbered(s.shape, Block(s, t - 1))]

OfCores(s, Block(_, _, _)) ==
    FlattenSeq([c \in 1..s.cores |->
                  [t \in 1..SingleCoreLoops(s, c - 1) |-> Numbered(s.shape, Block(s, c - 1, t - 1))]])

OfStreamk(s, Blocks(_, _)) ==
    FlattenSeq([t \in 1..StreamkCoreLoops(s) |->
                  LET blocks == Blocks(s, t - 1)
                  IN [i \in DOMAIN blocks |-> Numbered(s.shape, blocks[i])]])

OfAllReduce(t) ==
    LET tiles == AllReduceTiles(t)
    IN [n \in DOMAIN tiles |-> {<<r * t[2] + c, r * t[2] + c>> : r \in tiles[n].rows, c \in tiles[n].cols}]

Pieces(j) ==
    IF j.copy = "kernel" THEN KernelPieces(j.args[1].kernel, j.args[1]) ELSE
    LET s == Problem(j.args)
    IN CASE j.copy = "Identity" -> Tasks(s, s.shape[1] * CoreLoops(s), IdentityBlock)
         [] j.copy = "DynamicIdentity" -> Tasks(s, s.shape[1] * CoreLoops(s), DynamicIdentityBlock)
         [] j.copy = "L1FullLoad" -> Tasks(s, CoreLoops(s), L1FullLoadBlock)
         [] j.copy = "Splitk" -> Tasks(s, s.shape[1] * CoreLoops(s) * s.cores, SplitkBlock)
         [] j.copy = "DynamicSplitk" -> Tasks(s, s.shape[1] * CoreLoops(s) * s.cores, DynamicSplitkBlock)
         [] j.copy = "SingleCoreSplitk" -> OfCores(s, SingleCoreSplitkBlock)
         [] j.copy = "DynamicSingleCoreSplitk" -> OfCores(s, DynamicSingleCoreSplitkBlock)
         [] j.copy = "Streamk" -> OfStreamk(s, StreamkBlocks)
         [] j.copy = "DynamicStreamk" -> OfStreamk(s, DynamicStreamkBlocks)
         [] j.copy = "Misplaced" -> Tasks(s, s.shape[1] * CoreLoops(s), MisplacedBlock)
         [] j.copy = "Conv3d" -> Tasks(s, Conv3dCoreLoops(s), Conv3dBlock)
         [] j.copy = "Conv2d" -> Tasks(s, s.shape[1] * Conv2dCoreLoops(s), Conv2dBlock)
         [] j.copy = "AllReduce" -> OfAllReduce(j.args)
         [] OTHER -> Copied(j)

Goal(j) == IF j.copy = "kernel" THEN Result(j.args[1].kernel, j.args[1]) ELSE Places(j)

Targets(piece) == {p[1] : p \in piece}

-----------------------------------------------------------------------------
VARIABLES
    job,    \* the job
    rest,   \* its pieces that have not been done
    place   \* what has been put where

vars == <<job, rest, place>>

Init ==
    /\ job \in Jobs
    /\ rest = Pieces(job)
    /\ place = {}

Execute ==
    /\ rest # <<>>
    /\ place' = {p \in place : p[1] \notin Targets(Head(rest))} \cup Head(rest)
    /\ rest' = Tail(rest)
    /\ UNCHANGED job

Spec == Init /\ [][Execute]_vars

-----------------------------------------------------------------------------
(* When all pieces are done every element is where the layout of the       *)
(* destination says that it is: no element of the tile is left out or      *)
(* misplaced by the strides and counts that the tile copies make of their  *)
(* layouts, and the blocks of all tasks together are the whole problem.    *)
ElementsInPlace ==
    rest = <<>> =>
      LET expected == Goal(job)
      IN {p \in place : p[1] \in Targets(expected)} = expected

(* Nothing is written beyond the buffer, rounded up to whole fractals, and *)
(* no block reaches beyond the problem.                                    *)
StaysInBuffer ==
    (job.into.r = 0 /\ job.into.c = 0) =>
      \A p \in place : p[1] \in 0..(Capacity(job.into.l) - 1)

(* No two pieces put anything in the same place: no instruction overwrites *)
(* what another one has copied, and no two tasks have the same element,    *)
(* which they would compute twice or add twice.                            *)
PiecesDisjoint ==
    [][Targets(place) \cap Targets(Head(rest)) \cap Targets(Goal(job)) = {}]_vars

(* A piece of an all-reduce is not empty and begins at an aligned element  *)
(* of its row; and when rows are cut in pieces no core has a second one,   *)
(* for which the signals of the first would still be set                   *)
(* (BlockCommAllReduce).                                                   *)
AllReducePiecesFit ==
    (job.copy = "AllReduce" /\ rest # <<>>) =>
      LET t == job.args  piece == Targets(Head(rest))
      IN /\ piece # {}
         /\ \E p \in piece : (p % t[2]) % Align = 0 /\ \A q \in piece : p <= q
         /\ CutsRows(t) => \A v \in 0..(t[3] - 1) : AivLoops(t, v) <= 1
==============================================================================
