----------------------------- MODULE GemmKernels ------------------------------
(***************************************************************************)
(* The matmul kernels whose cores do not wait for each other               *)
(* (include/catlass/gemm/kernel): which elements of A and B each call of   *)
(* the block multiplies, and where in C the products go, for all cores.    *)
(*                                                                         *)
(* A problem s is one of BlockSwizzles, with a list of groups where there  *)
(* are several: the shapes of the groups, or the entries of the group      *)
(* list.  A piece is a call of the block: pairs of an address in C and of  *)
(* what comes there, <<address in A of the first element of the row, in B  *)
(* of the first of the column, how many products are added, other things   *)
(* added>>.                                                                *)
(***************************************************************************)
EXTENDS Layouts, BlockSwizzles, FiniteSetsExt

(* The pieces of all cores, one core after the other. *)
AllCores(s, CorePieces(_)) == FlattenSeq([c \in 1..s.cores |-> CorePieces(c - 1)])

EachTask(tasks, Piece(_)) == [j \in DOMAIN tasks |-> Piece(tasks[j])]

MatmulParams(m, n, k) == [A |-> RowMajor(m, k, k), B |-> RowMajor(k, n, n), C |-> RowMajor(m, n, n)]

ParamsOf(s) == MatmulParams(s.shape[2], s.shape[3], s.shape[4])

(* A call of the block with tiles that begin at the given offsets, of the  *)
(* extents of a block of the scheduler.                                    *)
Multiplied(l, gmA, gmB, gmC, block, added) ==
    {<<gmC + GetOffset(l.C, i, j),
       <<gmA + GetOffset(l.A, i, 0), gmB + GetOffset(l.B, 0, j), Cardinality(block[4]), added>> >> :
       i \in 0..(Cardinality(block[2]) - 1), j \in 0..(Cardinality(block[3]) - 1)}

OffsetA(l, block) == GetOffset(l.A, Min(block[2]), Min(block[4]))

OffsetB(l, block) == GetOffset(l.B, Min(block[4]), Min(block[3]))

OffsetC(l, block) == GetOffset(l.C, Min(block[2]), Min(block[3]))

Call(l, base, block) ==
    Multiplied(l, base[1] + OffsetA(l, block), base[2] + OffsetB(l, block), base[3] + OffsetC(l, block), block, {})

NoBase == <<0, 0, 0>>

-----------------------------------------------------------------------------
BasicMatmul(s) ==
    AllCores(s, LAMBDA core : EachTask(TasksOf(core, CoreLoops(s), s.cores), LAMBDA t :
        Call(ParamsOf(s), NoBase, IdentityBlock(s, t))))

(* The tiles are cut out of tla tensors. *)
BasicMatmulTla(s) ==
    AllCores(s, LAMBDA core : EachTask(TasksOf(core, CoreLoops(s), s.cores), LAMBDA t :
        Call(ParamsOf(s), NoBase, IdentityBlock(s, t))))

(* The first tiles of a block have been loaded by the call before, which   *)
(* was told where they are (see BlockMmadPreload).                         *)
BasicMatmulPreload(s) ==
    LET l == ParamsOf(s)
        Next(t) == IdentityBlock(s, t + s.cores)
        CalledFor(core, t) == IF t = core THEN IdentityBlock(s, t) ELSE Next(t - s.cores)
    IN AllCores(s, LAMBDA core : EachTask(TasksOf(core, CoreLoops(s), s.cores), LAMBDA t :
         Multiplied(l, OffsetA(l, CalledFor(core, t)), OffsetB(l, CalledFor(core, t)),
                    OffsetC(l, IdentityBlock(s, t)), IdentityBlock(s, t), {})))

(* A column of C begins with an element of the bias. *)
MatmulBias(s) ==
    LET l == ParamsOf(s)
        Biased(block, piece) ==
          {<<p[1], <<p[2][1], p[2][2], p[2][3], {Min(block[3]) + ((p[1] - OffsetC(l, block)) % s.shape[3])}>> >> :
             p \in piece}
    IN AllCores(s, LAMBDA core : EachTask(TasksOf(core, CoreLoops(s), s.cores), LAMBDA t :
         Biased(IdentityBlock(s, t), Call(l, NoBase, IdentityBlock(s, t)))))

(* A call has A loaded only if it is another one than that of the call     *)
(* before: gmOffsetAPreload after call j.                                  *)
LoadedA(l, blocks, j) ==
    FoldLeft(LAMBDA loaded, block : IF OffsetA(l, block) = loaded THEN loaded ELSE OffsetA(l, block),
             OffsetA(l, blocks[1]), SubSeq(blocks, 1, j))

MatmulFullLoadA(s) ==
    LET l == ParamsOf(s)
        Pieces(blocks) ==
          [j \in DOMAIN blocks |->
             Multiplied(l, LoadedA(l, blocks, j), OffsetB(l, blocks[j]), OffsetC(l, blocks[j]), blocks[j], {})]
    IN AllCores(s, LAMBDA core :
         Pieces(EachTask(TasksOf(core, CoreLoops(s), s.cores), LAMBDA t : L1FullLoadBlock(s, t))))

(* One block for every core, in order of the blocks. *)
SmallMatmul(s) ==
    AllCores(s, LAMBDA core :
        IF core < CoreLoops(s) THEN <<Call(ParamsOf(s), NoBase, InOrderBlock(s, core))>> ELSE <<>>)

(* The host starts no more cores than there are blocks. *)
DynamicSmallMatmul(s) ==
    AllCores(s, LAMBDA core : <<Call(ParamsOf(s), NoBase, InOrderBlock(s, core))>>)

BatchStrides(s) == LET m == s.shape[2]  n == s.shape[3]  k == s.shape[4] IN <<m * k, k * n, m * n>>

BatchedMatmul(s) ==
    LET Base(t) == [x \in 1..3 |-> (t \div CoreLoops(s)) * BatchStrides(s)[x]]
    IN AllCores(s, LAMBDA core : EachTask(TasksOf(core, s.shape[1] * CoreLoops(s), s.cores), LAMBDA t :
         Call(ParamsOf(s), Base(t), IdentityBlock(s, t))))

(* On the vector cores, for k = 1: A and B are vectors. *)
AivMatmul(s) ==
    LET l == [A |-> ColumnMajor(s.shape[2], 1, s.shape[2]), B |-> RowMajor(1, s.shape[3], s.shape[3]),
              C |-> ParamsOf(s).C]
    IN AllCores(s, LAMBDA core : EachTask(TasksOf(core, CoreLoops(s), s.cores), LAMBDA t :
         Call(l, NoBase, IdentityBlock(s, t))))

(* Every block but the first is the next block of the one before. *)
DynamicCommonMatmul(s) ==
    LET NextBlock(t) == DynamicIdentityBlock(s, t + s.cores)
        CalledFor(core, t) == IF t = core THEN DynamicIdentityBlock(s, t) ELSE NextBlock(t - s.cores)
    IN AllCores(s, LAMBDA core : EachTask(TasksOf(core, CoreLoops(s), s.cores), LAMBDA t :
         Call(ParamsOf(s), NoBase, CalledFor(core, t))))

-----------------------------------------------------------------------------
(* Where the operands of group g begin: after those of the others. *)
GroupBase(problems, g) ==
    [x \in 1..3 |-> FoldLeft(LAMBDA sum, p : sum + BatchStrides(p)[x], 0, SubSeq(problems, 1, g - 1))]

Grouped(s, problems, LayoutsOf(_)) ==
    AllCores(s, LAMBDA core :
      FlattenSeq([g \in DOMAIN problems |->
        EachTask(TasksOf(StartLoopIdx(s, problems, g, core), CoreLoops(problems[g]), s.cores), LAMBDA t :
          Call(LayoutsOf(problems[g]), GroupBase(problems, g), IdentityBlock(problems[g], t)))]))

GroupedMatmul(s) ==
    Grouped(s, [g \in DOMAIN s.groups |-> GroupProblem(s, s.groups[g][1], s.groups[g][2], s.groups[g][3])], ParamsOf)

(* The rows of A and C are dealt to the groups, each has a B. *)
GroupedMatmulSliceM(s) ==
    LET problems == [g \in DOMAIN s.groups |-> GroupProblem(s, InGroup(s, g), s.shape[3], s.shape[4])]
        LayoutsOf(p) ==
          LET l == ParamsOf(s)
          IN [l EXCEPT !.A = GetTileLayout(l.A, p.shape[2], p.shape[4]), !.C = GetTileLayout(l.C, p.shape[2], p.shape[3])]
    IN Grouped(s, problems, LayoutsOf)

(* The columns of A and rows of B are dealt to the groups, each has a C.   *)
(* The cube cores pass over the groups without any, and do not count their *)
(* blocks; the vector cores, each of them all of it, put zeros in their C. *)
Zero == <<-1, -1, 0, {}>>

ubBufferSize == 5   \* elements in the buffer of zeros

MemFill(dst, elementCount) ==
    LET batchCount == elementCount \div ubBufferSize
        Burst(i, length) == {<<dst + i * ubBufferSize + x, Zero>> : x \in 0..(length - 1)}
    IN [i \in 1..batchCount |-> Burst(i - 1, ubBufferSize)]
       \o (IF elementCount % ubBufferSize = 0 THEN <<>>
           ELSE <<Burst(batchCount, elementCount % ubBufferSize)>>)

FillEmptyGroups(s, problems) ==
    FlattenSeq([g \in DOMAIN problems |->
      IF problems[g].shape[4] # 0 THEN <<>>
      ELSE MemFill(GroupBase(problems, g)[3], s.shape[2] * s.shape[3])])

GroupedMatmulSliceK(s) ==
    LET problems == [g \in DOMAIN s.groups |-> GroupProblem(s, s.shape[2], s.shape[3], InGroup(s, g))]
        l == [ParamsOf(s) EXCEPT !.A = ColumnMajor(s.shape[2], s.shape[4], s.shape[2])]
        LayoutsOf(p) ==
          [l EXCEPT !.A = GetTileLayout(l.A, p.shape[2], p.shape[4]), !.B = GetTileLayout(l.B, p.shape[4], p.shape[3])]
        counted == SelectSeq([g \in DOMAIN problems |-> g], LAMBDA g : problems[g].shape[4] # 0)
        Start(core, i) == StartLoopIdx(s, [x \in DOMAIN counted |-> problems[counted[x]]], i, core)
    IN AllCores(s, LAMBDA core :
         FlattenSeq([i \in DOMAIN counted |->
           LET g == counted[i]  p == problems[g]
           IN EachTask(TasksOf(Start(core, i), CoreLoops(p), s.cores), LAMBDA t :
                Call(LayoutsOf(p), GroupBase(problems, g), IdentityBlock(p, t)))]))
       \o FillEmptyGroups(s, problems)

-----------------------------------------------------------------------------
(* What is to come out: every element of every C is the product of its row *)
(* and its column.                                                         *)
SumOfFirst(f, g) == FoldLeft(LAMBDA a, b : a + b, 0, SubSeq(f, 1, g))

ProductOf(m, n, base, RowAt(_), k, AddedTo(_)) ==
    {<<base[3] + i * n + j, <<base[1] + RowAt(i), base[2] + j, k, AddedTo(j)>> >> : i \in 0..(m - 1), j \in 0..(n - 1)}

Result(kernel, s) ==
    LET m == s.shape[2]  n == s.shape[3]  k == s.shape[4]
        Rows(i) == i * k
        Nothing(j) == {}
    IN CASE kernel = "BatchedMatmul" ->
              UNION {ProductOf(m, n, <<b * m * k, b * k * n, b * m * n>>, Rows, k, Nothing) : b \in 0..(s.shape[1] - 1)}
         [] kernel = "MatmulBias" -> ProductOf(m, n, NoBase, Rows, k, LAMBDA j : {j})
         [] kernel = "GroupedMatmul" ->
              UNION {LET p == s.groups[g]
                         Sum(x, y) == SumOfFirst([h \in DOMAIN s.groups |-> s.groups[h][x] * s.groups[h][y]], g - 1)
                     IN ProductOf(p[1], p[2], <<Sum(1, 3), Sum(3, 2), Sum(1, 2)>>, LAMBDA i : i * p[3], p[3], Nothing) :
                     g \in DOMAIN s.groups}
         [] kernel = "GroupedMatmulSliceM" ->
              LET GroupOf(i) == Cardinality({g \in DOMAIN s.groups : s.groups[g] <= i})
              IN {<<i * n + j, <<i * k, GroupOf(i) * k * n + j, k, {}>> >> : i \in 0..(m - 1), j \in 0..(n - 1)}
         [] kernel = "GroupedMatmulSliceK" ->
              UNION {LET before == IF g = 1 THEN 0 ELSE s.groups[g - 1]
                         length == s.groups[g] - before
                     IN IF length = 0 THEN {<<(g - 1) * m * n + i, Zero>> : i \in 0..(m * n - 1)}
                        ELSE ProductOf(m, n, <<before * m, before * n, (g - 1) * m * n>>, LAMBDA i : i, length, Nothing) :
                     g \in DOMAIN s.groups}
         [] OTHER -> ProductOf(m, n, NoBase, Rows, k, Nothing)

KernelPieces(kernel, s) ==
    CASE kernel = "BasicMatmul" -> BasicMatmul(s)
      [] kernel = "BasicMatmulTla" -> BasicMatmulTla(s)
      [] kernel = "BasicMatmulPreload" -> BasicMatmulPreload(s)
      [] kernel = "MatmulBias" -> MatmulBias(s)
      [] kernel = "MatmulFullLoadA" -> MatmulFullLoadA(s)
      [] kernel = "SmallMatmul" -> SmallMatmul(s)
      [] kernel = "DynamicSmallMatmul" -> DynamicSmallMatmul(s)
      [] kernel = "BatchedMatmul" -> BatchedMatmul(s)
      [] kernel = "AivMatmul" -> AivMatmul(s)
      [] kernel = "DynamicCommonMatmul" -> DynamicCommonMatmul(s)
      [] kernel = "GroupedMatmul" -> GroupedMatmul(s)
      [] kernel = "GroupedMatmulSliceM" -> GroupedMatmulSliceM(s)
      [] kernel = "GroupedMatmulSliceK" -> GroupedMatmulSliceK(s)

(* Problems with two and three blocks along the axes, fewer and more cores *)
(* than blocks, and groups of several sizes, none included.                *)
KernelProblems ==
    LET Shapes(kernels, shape, cores, groups) ==
          {[kernel |-> kernel, shape |-> shape, tile |-> <<1, 2, 3, 2>>, offset |-> 2, direction |-> d,
            cores |-> c, groups |-> groups] : kernel \in kernels, d \in {0, 1}, c \in cores}
    IN Shapes({"BasicMatmul", "BasicMatmulTla", "BasicMatmulPreload", "MatmulBias", "MatmulFullLoadA",
               "DynamicCommonMatmul"}, <<1, 5, 7, 3>>, {2, 4, 10}, <<>>)
       \cup Shapes({"SmallMatmul"}, <<1, 5, 7, 3>>, {9, 10}, <<>>)
       \cup Shapes({"DynamicSmallMatmul"}, <<1, 5, 7, 3>>, {9}, <<>>)
       \cup Shapes({"BatchedMatmul"}, <<2, 3, 4, 2>>, {3, 4}, <<>>)
       \cup Shapes({"AivMatmul"}, <<1, 5, 7, 1>>, {2, 4}, <<>>)
       \cup Shapes({"GroupedMatmul"}, <<1, 0, 0, 0>>, {2, 3, 4}, << <<3, 4, 2>>, <<1, 5, 3>>, <<5, 2, 1>> >>)
       \cup Shapes({"GroupedMatmulSliceM"}, <<1, 6, 4, 2>>, {2, 3, 4}, <<3, 3, 4, 6>>)
       \cup Shapes({"GroupedMatmulSliceK"}, <<1, 3, 4, 5>>, {2, 3, 4}, <<2, 2, 5>>)

ResultSize(p) == Cardinality(Result(p.kernel, p))
===============================================================================
