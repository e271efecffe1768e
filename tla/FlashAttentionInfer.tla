--------------------------- MODULE FlashAttentionInfer ---------------------------
(***************************************************************************)
(* The flash attention inference kernel, examples/23_flash_attention_infer *)
(* /fai_kernel.cpp, and its blocks: S = Q K^T (block_mmad_fai_qk_normal,   *)
(* _head_tail), the online softmax (block_epilogue_online_softmax_no_mask),*)
(* O = P V (block_mmad_fai_pv_normal, _head_tail) and the rescaling of O   *)
(* (block_epilogue_rescale_o_no_split_row).                                *)
(*                                                                         *)
(* A cube core and its two vector cores attend blocks of queries to the    *)
(* keys of their batch.  A task t attends rows t.qS * t.qN of Q (t.qS      *)
(* tokens of each of t.qN heads) to the keys of one head.  The keys are    *)
(* taken in pages, and STACK_NUM pages are a stack, whose S, P and O are   *)
(* in slot x of rings in the workspace.  A stack x is [slot, first, loops, *)
(* length, skip]: its first page, the pages of the task so far and their   *)
(* length, and how many keys of the first page come before it.             *)
(*                                                                         *)
(* The stacks of keys go round in rings of PRE_LAUNCH + 1 slots: S of a    *)
(* stack is calculated two stacks before its P is multiplied by V.  With a *)
(* mask the last keys, as many as the block has queries, are a stack of    *)
(* their own.                                                              *)
(*                                                                         *)
(* The embedding is one L1 tile wide (kLoop = 1), and the blocks are       *)
(* without the unit flag, as in fai_kernel.cpp.                            *)
(*                                                                         *)
(* A problem s is [aics, batches, group, kvHeads, mask]: batches of q      *)
(* queries and kv keys, and so many heads (group) to a head of the keys.   *)
(***************************************************************************)
EXTENDS KernelInstructions, TLC

CONSTANTS
    PAGE,              \* pagedBlockSize, KV_SPLIT_SIZE and GetQSBlockTile
    STACK_NUM,         \* blockStackNum, UNIT_BLOCK_STACK_NUM
    MAX_UB_S_ELEM_NUM

FaParametersOK == PAGE \in Nat \ {0} /\ STACK_NUM \in Nat \ {0} /\ MAX_UB_S_ELEM_NUM >= PAGE * STACK_NUM

PRE_LAUNCH == 2

QK_READY == 1

SOFTMAX_READY == 2

PV_READY == 3

(* The pages of a stack, and a page's part of K or V. *)
PagesOf(x) == x.first..(Min({x.first + STACK_NUM, x.loops}) - 1)

PageOf(operand, t, x, n) ==
    <<operand, t.batch, t.kvHead, n * PAGE + (IF n = x.first THEN x.skip ELSE 0),
      IF n = x.loops - 1 THEN x.length ELSE (n + 1) * PAGE>>

(* The length of a stack. *)
KeysOf(x) ==
    (IF x.first + STACK_NUM >= x.loops THEN x.length ELSE (x.first + STACK_NUM) * PAGE) - x.first * PAGE - x.skip

(* The workspace belongs to a cube core and its vector cores. *)
Slot(buffer, core, x) == <<buffer, IF core[1] = "aic" THEN core[2] ELSE AicOf(core[2])[2], x.slot>>

-----------------------------------------------------------------------------
(* The L1 buffers of K and of V are used in turn; a page is loaded while   *)
(* the one before is multiplied, also from stack to stack.                 *)
InTurn(n) == (n + 1) % 2

LoadPage(operand, page, n, event) ==
    << WaitFlag("MTE1", "MTE2", InTurn(n) + event), Load("MTE2", <<"L1", operand, InTurn(n)>>, page),
       SetFlag("MTE2", "MTE1", InTurn(n) + event) >>

(* The pages each of the four blocks loads; there is none after the last,  *)
(* and the next one may belong to the next stack.                          *)
QKNormalLoad(t, x, n) == When(n < x.loops, LoadPage("K", PageOf("K", t, x, n), n, 0))

QKTailLoad(t, x, n) == When(n < x.loops, LoadPage("K", PageOf("K", t, x, n), n, 0))

PVNormalLoad(t, x, n) == When(n < x.loops, LoadPage("V", PageOf("V", t, x, n), n, 2))

PVTailLoad(t, x, n) == When(n < x.loops, LoadPage("V", PageOf("V", t, x, n), n, 2))

CopyToL0B(operand, p, l, event) ==
    << WaitFlag("MTE2", "MTE1", p + event) >>
    \o For(0, Len(l) - 1, LAMBDA i : << WaitFlag("M", "MTE1", l[i + 1] + 2) >>)
    \o << Copy("MTE1", <<"L0B", l[1]>>, <<"L1", operand, p>>), SetFlag("MTE1", "MTE2", p + event) >>

Multiply(a, b, c, first) ==
    Do("M", <<"L0C", c>>, {<<"L0A", a>>, <<"L0B", b>>} \cup (IF first THEN {} ELSE {<<"L0C", c>>}), <<"mmad">>)

LoadQGM(t) ==
    << Load("MTE2", <<"L1", "Q">>, <<"Q", t.batch, t.token, t.head>>) >> \o Sync("MTE2", "MTE1", 3)

StorePages(core, x, pages) ==
    [i \in DOMAIN pages |->
       Copy("FIX", Slot("S", core, x) \o <<pages[i] - x.first>>, <<"L0C", (pages[i] - x.first) % 2>>)]

(* Two pages at a time are stored together, and all pages use the same     *)
(* copy of Q on L0.                                                        *)
QKNormalPage(t, core, x, n) ==
    LET p == InTurn(n)
        nowIdx == n - x.first
        last == n = Max(PagesOf(x))
        endItr == nowIdx % 2 = 1 \/ n = x.loops - 1
    IN When(n = 0, QKNormalLoad(t, x, n))
       \o QKNormalLoad(t, x, n + 1)
       \o When(nowIdx = 0, << WaitFlag("M", "MTE1", 0), WaitFlag("M", "MTE1", 1), Copy("MTE1", <<"L0A", 0>>, <<"L1", "Q">>) >>)
       \o CopyToL0B("K", p, <<p>>, 0)
       \o Sync("MTE1", "M", p)
       \o When(nowIdx % 2 = 0, << WaitFlag("FIX", "M", 0), WaitFlag("FIX", "M", 1) >>)
       \o << Multiply(0, p, nowIdx % 2, TRUE) >>
       \o When(last, << SetFlag("M", "MTE1", 0), SetFlag("M", "MTE1", 1) >>)
       \o << SetFlag("M", "MTE1", p + 2) >>
       \o When(endItr, Sync("M", "FIX", p) \o StorePages(core, x, InOrder((n - (nowIdx % 2))..n))
                       \o << SetFlag("FIX", "M", 0), SetFlag("FIX", "M", 1) >>)

QKNormal(t, core, x) ==
    For(x.first, Max(PagesOf(x)), LAMBDA n : QKNormalPage(t, core, x, n))

(* The masked keys: the first page is loaded here, each page is stored by  *)
(* itself.                                                                 *)
QKTailPage(t, core, x, n) ==
    LET p == InTurn(n)
        nowIdx == n - x.first
    IN When(nowIdx = 0, QKTailLoad(t, x, n))
       \o QKTailLoad(t, x, n + 1)
       \o << WaitFlag("M", "MTE1", p), Copy("MTE1", <<"L0A", p>>, <<"L1", "Q">>) >>
       \o CopyToL0B("K", p, <<p>>, 0)
       \o Sync("MTE1", "M", p)
       \o << WaitFlag("FIX", "M", p), Multiply(p, p, p, TRUE), SetFlag("M", "MTE1", p), SetFlag("M", "MTE1", p + 2) >>
       \o Sync("M", "FIX", p)
       \o << Copy("FIX", Slot("S", core, x) \o <<nowIdx>>, <<"L0C", p>>), SetFlag("FIX", "M", p) >>

QKTail(t, core, x) == For(x.first, Max(PagesOf(x)), LAMBDA n : QKTailPage(t, core, x, n))

-----------------------------------------------------------------------------
(* The rows of a vector core: half of the heads, or of the tokens if there *)
(* is one head.                                                            *)
RowSplit(t) == IF t.qN = 1 THEN t.qS \div 2 ELSE t.qS * (t.qN \div SubBlockNum)

RowsOfSub(t, sub) == IF sub = 1 THEN t.qS * t.qN - RowSplit(t) ELSE RowSplit(t)

(* Part j of the columns of P. *)
LoadP(t, core, x, buffer, j) ==
    Do("MTE2", <<"L1", "P", buffer>>,
       UNION {{Slot("P", core, x) \o <<sub, r>> : r \in 0..(RowsOfSub(t, sub) - 1)} : sub \in 0..(SubBlockNum - 1)},
       <<"part", j>>)

AwaitSoftmax(core) == AwaitPartners(core, SOFTMAX_READY)

StoreO(core, x) ==
    Sync("M", "FIX", 0)
    \o << Copy("FIX", Slot("OTmp", core, x), <<"L0C", 0>>), SetFlag("FIX", "M", 0), SetFlag("FIX", "M", 1) >>

(* All of P is loaded with the first page. *)
PVNormalPage(t, core, x, n) ==
    LET p == InTurn(n)
        nowIdx == n - x.first
        last == n = Max(PagesOf(x))
    IN When(n = 0, PVNormalLoad(t, x, n))
       \o CopyToL0B("V", p, <<p>>, 2)
       \o When(nowIdx = 0,
               AwaitSoftmax(core) \o << WaitFlag("MTE1", "MTE2", 4), WaitFlag("MTE1", "MTE2", 5) >>
               \o For(0, Max(PagesOf(x)) - x.first, LAMBDA j : << LoadP(t, core, x, j, j) >>)
               \o Sync("MTE2", "MTE1", 4))
       \o PVNormalLoad(t, x, n + 1)
       \o << WaitFlag("M", "MTE1", p), Copy("MTE1", <<"L0A", p>>, <<"L1", "P", nowIdx>>) >>
       \o Sync("MTE1", "M", p)
       \o When(nowIdx = 0, << WaitFlag("FIX", "M", 0), WaitFlag("FIX", "M", 1) >>)
       \o << Multiply(p, p, 0, nowIdx = 0), SetFlag("M", "MTE1", p), SetFlag("M", "MTE1", p + 2) >>
       \o When(last, << SetFlag("MTE1", "MTE2", 4), SetFlag("MTE1", "MTE2", 5) >> \o StoreO(core, x))

PVNormal(t, core, x) == For(x.first, Max(PagesOf(x)), LAMBDA n : PVNormalPage(t, core, x, n))

(* P is loaded page by page, and L0A and L0B are one buffer each. *)
PVTailPage(t, core, x, n) ==
    LET p == InTurn(n)
        nowIdx == n - x.first
        last == n = Max(PagesOf(x))
    IN When(nowIdx = 0, PVTailLoad(t, x, n))
       \o CopyToL0B("V", p, <<0, 1>>, 2)
       \o When(nowIdx = 0, AwaitSoftmax(core))
       \o << WaitFlag("MTE1", "MTE2", p + 4), LoadP(t, core, x, p, nowIdx), SetFlag("MTE2", "MTE1", 5) >>
       \o PVTailLoad(t, x, n + 1)
       \o << WaitFlag("MTE2", "MTE1", 5), WaitFlag("M", "MTE1", 0), WaitFlag("M", "MTE1", 1),
             Copy("MTE1", <<"L0A", 0>>, <<"L1", "P", p>>), SetFlag("MTE1", "MTE2", p + 4) >>
       \o Sync("MTE1", "M", p)
       \o When(nowIdx = 0, << WaitFlag("FIX", "M", 0), WaitFlag("FIX", "M", 1) >>)
       \o << Multiply(0, 0, 0, nowIdx = 0) >>
       \o For(0, 3, LAMBDA i : << SetFlag("M", "MTE1", i) >>)
       \o When(last, StoreO(core, x))

PVTail(t, core, x) == For(x.first, Max(PagesOf(x)), LAMBDA n : PVTailPage(t, core, x, n))

-----------------------------------------------------------------------------
(* Online softmax.  On the UB, ls and lp have two halves used in turn, row *)
(* by row; the mask as floats lies where both halves of lp are; the maxima *)
(* (lm, hm, gm), sums (ll, gl) and factors (dm, one for each slot) have a  *)
(* place for each row of the vector core.  V's own temporary rows (tv) are *)
(* left out.                                                               *)
Ub(name, r) == <<"UB", name, r>>

Half(name, h, i) == <<"UB", name, h, i>>

Dm(x, r) == <<"UB", "dm", x.slot, r>>

(* Rows at a time, and the rows of a loop. *)
RowNumTile(x) == MAX_UB_S_ELEM_NUM \div KeysOf(x)

RowsOfLoop(t, sub, x, i) == (i * RowNumTile(x))..(Min({(i + 1) * RowNumTile(x), RowsOfSub(t, sub)}) - 1)

ForRows(t, sub, x, i, Body(_, _)) ==
    LET rows == RowsOfLoop(t, sub, x, i) IN For(Min(rows), Max(rows), LAMBDA r : Body(r, r - Min(rows)))

CopySGmToUb(t, core, sub, x, i) ==
    ForRows(t, sub, x, i, LAMBDA r, j :
      << Do("MTE2", Half("ls", i % 2, j), {Slot("S", core, x) \o <<n - x.first>> : n \in PagesOf(x)},
            <<"part", sub * RowSplit(t) + r>>) >>)

(* The tokens of the rows of a loop: the rest of a head, whole heads, and  *)
(* the beginning of one.                                                   *)
MaskTokens(t, sub, x, i) ==
    LET rows == RowsOfLoop(t, sub, x, i)
        tokens == Min({t.qS, RowsOfSub(t, sub)})
        from == IF t.qN = 1 THEN sub * RowSplit(t) ELSE 0
        pro == Min(rows) % tokens
        proNum == Min({Cardinality(rows), tokens - pro}) % tokens
        heads == (Cardinality(rows) - proNum) \div tokens
        epi == Cardinality(rows) - proNum - heads * tokens
        Rows(first, count) == [j \in 1..count |-> from + first + j - 1]
    IN Rows(pro, proNum) \o EachOf([h \in 1..heads |-> h], LAMBDA h : Rows(0, tokens)) \o Rows(0, epi)

CopyMaskGmToUb(t, sub, x, i) ==
    LET tokens == MaskTokens(t, sub, x, i)
    IN << WaitFlag("V", "MTE2", 2) >>
       \o [j \in DOMAIN tokens |-> Load("MTE2", Ub("mask", j - 1), <<"Mask", tokens[j]>>)]
       \o << SetFlag("MTE2", "V", 2) >>

ScaleS(h, j) == << Vec(Half("ls", h, j), {Half("ls", h, j)}, "scale") >>

UpCastMask(t, sub, x, i) ==
    ForRows(t, sub, x, i, LAMBDA r, j :
      << Copy("V", Half("lp", 0, j), Ub("mask", j)), Copy("V", Half("lp", 1, j), Ub("mask", j)) >>)

ApplyMask(h, j) == << Vec(Half("ls", h, j), {Half("ls", h, j), Half("lp", 0, j), Half("lp", 1, j)}, "mask") >>

CalcLocalRowMax(h, r, j) == << Vec(Ub("lm", r), {Half("ls", h, j)}, "max") >>

UpdateGlobalRowMax(x, first, r) ==
    (IF first THEN << Copy("V", Ub("hm", r), Ub("lm", r)) >>
     ELSE << Vec(Ub("hm", r), {Ub("lm", r), Ub("gm", r)}, "max"),
             Vec(Dm(x, r), {Ub("gm", r), Ub("hm", r)}, "exp") >>)
    \o << Copy("V", Ub("gm", r), Ub("hm", r)) >>

CalcExp(h, r, j) == << Vec(Half("ls", h, j), {Half("ls", h, j), Ub("hm", r)}, "exp") >>

DownCastP(h, j) == << Copy("V", Half("lp", h, j), Half("ls", h, j)) >>

CalcLocalRowSum(h, r, j) == << Vec(Ub("ll", r), {Half("ls", h, j)}, "sum") >>

CopyPUbToGm(core, sub, x, h, r, j) == << Copy("MTE3", Slot("P", core, x) \o <<sub, r>>, Half("lp", h, j)) >>

UpdateGlobalRowSum(x, first, r) ==
    IF first THEN << Copy("V", Ub("gl", r), Ub("ll", r)) >>
    ELSE << Vec(Ub("gl", r), {Dm(x, r), Ub("gl", r)}, "mul"), Vec(Ub("gl", r), {Ub("gl", r), Ub("ll", r)}, "sum") >>

SoftmaxRows(t, core, sub, x, i, first, masked) ==
    LET h == i % 2
        Each(Body(_, _)) == ForRows(t, sub, x, i, Body)
    IN Each(LAMBDA r, j : CalcLocalRowMax(h, r, j))
       \o Each(LAMBDA r, j : UpdateGlobalRowMax(x, first, r))
       \o Each(LAMBDA r, j : CalcExp(h, r, j))
       \o When(~masked, << WaitFlag("MTE3", "V", h) >>)
       \o Each(LAMBDA r, j : DownCastP(h, j))
       \o << SetFlag("V", "MTE3", h) >>
       \o Each(LAMBDA r, j : CalcLocalRowSum(h, r, j))
       \o << SetFlag("V", "MTE2", h), WaitFlag("V", "MTE3", h) >>
       \o Each(LAMBDA r, j : CopyPUbToGm(core, sub, x, h, r, j))
       \o (IF masked THEN << SetFlag("MTE3", "V", 0), SetFlag("MTE3", "V", 1) >> ELSE << SetFlag("MTE3", "V", h) >>)
       \o Each(LAMBDA r, j : UpdateGlobalRowSum(x, first, r))

LoadS(t, core, sub, x, i) ==
    << WaitFlag("V", "MTE2", i % 2) >> \o CopySGmToUb(t, core, sub, x, i) \o << SetFlag("MTE2", "V", i % 2) >>

RowLoops(t, sub, x) == CeilDiv(RowsOfSub(t, sub), RowNumTile(x))

(* One loop's rows are loaded ahead of the calculation. *)
SoftmaxNoMask(t, core, sub, x, first) ==
    LET loops == RowLoops(t, sub, x)
    IN For(0, loops, LAMBDA i :
         When(i < loops, LoadS(t, core, sub, x, i))
         \o When(i >= 1,
              << WaitFlag("MTE2", "V", (i - 1) % 2) >>
              \o ForRows(t, sub, x, i - 1, LAMBDA r, j : ScaleS((i - 1) % 2, j))
              \o SoftmaxRows(t, core, sub, x, i - 1, first, FALSE)))

(* Waits for S itself, after the mask has been asked for. *)
SoftmaxCausalMask(t, core, sub, x, first) ==
    LET loops == RowLoops(t, sub, x)
        AwaitQK == AwaitPartners(core, QK_READY)
    IN IF RowsOfSub(t, sub) = 0 THEN AwaitQK
       ELSE For(0, loops, LAMBDA i :
         When(i = 0, CopyMaskGmToUb(t, sub, x, 0) \o AwaitQK)
         \o When(i < loops, LoadS(t, core, sub, x, i))
         \o When(i >= 1,
              << WaitFlag("MTE3", "V", 0), WaitFlag("MTE3", "V", 1), WaitFlag("MTE2", "V", 2) >>
              \o UpCastMask(t, sub, x, i - 1)
              \o << WaitFlag("MTE2", "V", (i - 1) % 2) >>
              \o ForRows(t, sub, x, i - 1, LAMBDA r, j : ScaleS((i - 1) % 2, j))
              \o ForRows(t, sub, x, i - 1, LAMBDA r, j : ApplyMask((i - 1) % 2, j))
              \o << SetFlag("V", "MTE2", 2) >>
              \o When(i < loops, CopyMaskGmToUb(t, sub, x, i))
              \o SoftmaxRows(t, core, sub, x, i - 1, first, TRUE)))

-----------------------------------------------------------------------------
(* go := go * dm + lo, and after the last stack go / gl is the result.     *)
(* V_MTE2 3 gives lo back before the result has been stored: what keeps    *)
(* the first stack of the next task from being loaded into go meanwhile is *)
(* that its product waits for a P that MTE3 stores after this result.      *)
CopyOToGm(t, sub) == << Copy("MTE3", <<"O", t.batch, t.token, t.head, sub>>, <<"UB", "go">>) >>

SubCoreCompute(t, core, sub, x, first, last) ==
    LET rows == 0..(RowsOfSub(t, sub) - 1)
        loaded == IF first THEN <<"UB", "go">> ELSE <<"UB", "lo">>
    IN << WaitFlag("V", "MTE2", 3), Do("MTE2", loaded, {Slot("OTmp", core, x)}, <<"part", sub>>) >>
       \o Sync("MTE2", "V", 0)
       \o When(~first, << Vec(<<"UB", "go">>, {<<"UB", "go">>} \cup {Dm(x, r) : r \in rows}, "mul"),
                          Add("V", <<"UB", "go">>, {<<"UB", "go">>, <<"UB", "lo">>}) >>)
       \o << SetFlag("V", "MTE2", 3) >>
       \o When(last, << Vec(<<"UB", "go">>, {<<"UB", "go">>} \cup {Ub("gl", r) : r \in rows}, "div") >>
                     \o Sync("V", "MTE3", 0) \o CopyOToGm(t, sub))

RescaleO(t, core, sub, x, first, last) ==
    When(RowsOfSub(t, sub) > 0, SubCoreCompute(t, core, sub, x, first, last))

-----------------------------------------------------------------------------
(* How many heads a task has, an even number of them if it is not one. *)
GetQNBlockTile(q, group) == Max({1, Min({((PAGE \div q) \div 2) * 2, group})})

(* The tasks of a batch, block of queries by block of queries. *)
BatchTasks(s, b) ==
    LET q == s.batches[b].q
        tile == GetQNBlockTile(q, s.group)
        perGroup == CeilDiv(s.group, tile)
        qNBlocks == perGroup * s.kvHeads
        Task(i) ==
          LET qSBlock == i \div qNBlocks
              qNBlock == i % qNBlocks
              inGroup == qNBlock % perGroup
              kvHead == qNBlock \div perGroup
              qS == Min({PAGE, q - qSBlock * PAGE})
              noSkip == IF s.mask
                        THEN Min({s.batches[b].kv, (qSBlock + 1) * PAGE + s.batches[b].kv - q})
                        ELSE s.batches[b].kv
          IN [batch |-> b, kvHead |-> kvHead, head |-> kvHead * s.group + inGroup * tile,
              token |-> qSBlock * PAGE, qS |-> qS, qN |-> Min({tile, s.group - inGroup * tile}),
              mask |-> s.mask, noSkip |-> noSkip, noMask |-> IF s.mask THEN noSkip - qS ELSE noSkip]
    IN [i \in 1..(qNBlocks * CeilDiv(q, PAGE)) |-> Task(i - 1)]

AllTasks(s) == EachOf(s.batches, LAMBDA b : BatchTasks(s, b))

Tasks(s, core) ==
    LET all == AllTasks(s)
        mine == TasksOf(core[2], Len(all), s.aics)
    IN [x \in DOMAIN mine |-> all[mine[x] + 1]]

-----------------------------------------------------------------------------
(* The steps of a task: in each, S of one stack (qk) and O of an earlier   *)
(* one (pv), either of which may be missing.  kvSIdx is the page at which  *)
(* a step begins, count the number of steps before it.                     *)
NoMaskLoops(t) == CeilDiv(t.noMask, PAGE)

TotalLoops(t) == CeilDiv(t.noSkip, PAGE)

TotalStacks(t) == CeilDiv(t.noMask, STACK_NUM * PAGE) + (IF t.mask THEN 1 ELSE 0)

NoMaskTail(t) == IF t.mask THEN t.noMask % PAGE ELSE 0

Stack(count, first, loops, length, skip) ==
    [slot |-> count % (PRE_LAUNCH + 1), first |-> first, loops |-> loops, length |-> length, skip |-> skip]

NoStack == Stack(0, -1, 0, 0, 0)

Plain(t, count, first) == Stack(count, first, NoMaskLoops(t), t.noMask, 0)

Masked(t, count, first) == Stack(count, first, TotalLoops(t), t.noSkip, NoMaskTail(t))

NoMaskSteps(t) ==
    [j \in 1..CeilDiv(NoMaskLoops(t), STACK_NUM) |->
       LET count == j - 1
           kvSIdx == count * STACK_NUM
       IN [count |-> count, qk |-> Plain(t, count, kvSIdx),
           pv |-> IF kvSIdx >= PRE_LAUNCH * STACK_NUM
                  THEN Plain(t, count - PRE_LAUNCH, kvSIdx - PRE_LAUNCH * STACK_NUM) ELSE NoStack,
           masked |-> FALSE]]

(* The pages of the last stack without mask, if it is not full. *)
NoMaskTailInteStackNum(t) ==
    LET pages == (t.noMask \div PAGE) % STACK_NUM
    IN IF pages # 0 THEN pages ELSE IF NoMaskTail(t) # 0 THEN 0 ELSE STACK_NUM

PreLaunchStackNum(t) ==
    IF t.mask THEN (PRE_LAUNCH - 1) * STACK_NUM + NoMaskTailInteStackNum(t) ELSE PRE_LAUNCH * STACK_NUM

MaskedStart(t) ==
    IF t.mask THEN NoMaskLoops(t) - (IF NoMaskTail(t) # 0 THEN 1 ELSE 0) ELSE RoundUp(NoMaskLoops(t), STACK_NUM)

(* The masked stack, and the stacks whose O is still missing. *)
RECURSIVE TailSteps(_, _, _)
TailSteps(t, kvSIdx, count) ==
    LET delayed == kvSIdx - PreLaunchStackNum(t)
        done == count - PRE_LAUNCH
    IN IF kvSIdx >= TotalLoops(t) + PreLaunchStackNum(t) THEN <<>>
       ELSE << [count |-> count,
                qk |-> IF kvSIdx < TotalLoops(t) /\ count <= TotalStacks(t) - 1
                       THEN Masked(t, count, kvSIdx) ELSE NoStack,
                pv |-> IF delayed < 0 THEN NoStack
                       ELSE IF done = TotalStacks(t) - 1 /\ t.mask THEN Masked(t, done, delayed)
                       ELSE Plain(t, done, delayed),
                masked |-> TRUE] >>
            \o TailSteps(t, kvSIdx + (IF t.mask /\ done = TotalStacks(t) - 2
                                      THEN NoMaskTailInteStackNum(t) ELSE STACK_NUM), count + 1)

Steps(t) == NoMaskSteps(t) \o TailSteps(t, MaskedStart(t), Len(NoMaskSteps(t)))

IsLast(t, step) == step.count - PRE_LAUNCH = TotalStacks(t) - 1

-----------------------------------------------------------------------------
AicFlags(Flag(_, _, _)) ==
    For(0, 7, LAMBDA i : << Flag("M", "MTE1", i), Flag("MTE1", "MTE2", i) >>)
    \o For(0, 1, LAMBDA i : << Flag("FIX", "M", i) >>)

AicConstructor == AicFlags(SetFlag)

AicDestructor == AicFlags(WaitFlag)

AicStep(t, core, step) ==
    When(step.qk # NoStack,
         (IF step.masked THEN QKTail(t, core, step.qk) ELSE QKNormal(t, core, step.qk))
         \o SetPartners(core, "FIX", QK_READY))
    \o When(step.pv # NoStack,
         (IF step.masked /\ IsLast(t, step) /\ t.mask THEN PVTail(t, core, step.pv) ELSE PVNormal(t, core, step.pv))
         \o SetPartners(core, "FIX", PV_READY))

AicStream(s, core) ==
    LET tasks == Tasks(s, core)
    IN AicConstructor
       \o EachOf(tasks, LAMBDA i :
            LoadQGM(tasks[i])
            \o LET steps == Steps(tasks[i]) IN EachOf(steps, LAMBDA j : AicStep(tasks[i], core, steps[j])))
       \o AicDestructor

AivFlags(Flag(_, _, _)) ==
    For(0, 2, LAMBDA i : << Flag("MTE3", "V", i) >>)
    \o For(2, 5, LAMBDA i : << Flag("MTE3", "MTE2", i) >>)
    \o For(0, 3, LAMBDA i : << Flag("V", "MTE2", i) >>)

AivConstructor == AivFlags(SetFlag)

AivDestructor == AivFlags(WaitFlag)

AivStep(t, core, step) ==
    LET aic == AicOf(core[2])
        sub == SubBlockIdx(core[2])
        first == step.count = 0
        Softmax ==
          IF step.masked THEN SoftmaxCausalMask(t, core, sub, step.qk, first)
          ELSE AwaitPartners(core, QK_READY) \o SoftmaxNoMask(t, core, sub, step.qk, first)
    IN When(step.qk # NoStack, Softmax \o SetPartners(core, "MTE3", SOFTMAX_READY))
       \o When(step.pv # NoStack,
            AwaitPartners(core, PV_READY)
            \o RescaleO(t, core, sub, step.pv, step.count = PRE_LAUNCH, step.masked /\ IsLast(t, step)))

AivStream(s, core) ==
    LET tasks == Tasks(s, AicOf(core[2]))
    IN AivConstructor
       \o EachOf(tasks, LAMBDA i :
            LET steps == Steps(tasks[i]) IN EachOf(steps, LAMBDA j : AivStep(tasks[i], core, steps[j])))
       \o AivDestructor

-----------------------------------------------------------------------------
(* What the rows of a vector core are to get: stack by stack, each key     *)
(* once, the product of the softmax so far with V.                         *)
(* The stacks as ranges of keys, and the pages of a range. *)
Ranges(t) ==
    LET size == STACK_NUM * PAGE
    IN [j \in 1..CeilDiv(t.noMask, size) |-> <<(j - 1) * size, Min({j * size, t.noMask}), FALSE>>]
       \o When(t.mask, << <<t.noMask, t.noSkip, TRUE>> >>)

PageRanges(range) ==
    {<<Max({range[1], n * PAGE}), Min({range[2], (n + 1) * PAGE})>> :
       n \in (range[1] \div PAGE)..((range[2] - 1) \div PAGE)}

KeysOrValues(operand, t, page) == NameOf(<<operand, t.batch, t.kvHead, page[1], page[2]>>)

Attention(t, sub) ==
    LET ranges == Ranges(t)
        rows == 0..(RowsOfSub(t, sub) - 1)
        Token(c, r) == (IF t.qN = 1 THEN c * RowSplit(t) ELSE 0) + (r % Min({t.qS, RowsOfSub(t, c)}))
        Products(j) == SetToBag({<<"mmad", NameOf(<<"Q", t.batch, t.token, t.head>>), KeysOrValues("K", t, page)>> :
                                   page \in PageRanges(ranges[j])})
        Score(c, r, j) ==
          LET scaled == Applied("scale", {NameOf(<<"part", c * RowSplit(t) + r, Products(j)>>)})
          IN IF ranges[j][3] THEN Applied("mask", {scaled, NameOf(<<"Mask", Token(c, r)>>)}) ELSE scaled
        rowMax[c \in 0..1, r \in 0..(t.qS * t.qN), j \in DOMAIN ranges] ==
          LET here == Applied("max", {Score(c, r, j)})
          IN IF j = 1 THEN here ELSE Applied("max", {here, rowMax[c, r, j - 1]})
        factor[r \in rows, j \in DOMAIN ranges] == Applied("exp", {rowMax[sub, r, j - 1], rowMax[sub, r, j]})
        P(c, r, j) == Applied("exp", {Score(c, r, j), rowMax[c, r, j]})
        AllP(j) == FoldSet(LAMBDA w, sum : P(w[1], w[2], j) (+) sum, EmptyBag,
                           UNION {{c} \X (0..(RowsOfSub(t, c) - 1)) : c \in 0..1})
        sums[r \in rows, j \in DOMAIN ranges] ==
          LET here == Applied("sum", {P(sub, r, j)})
          IN IF j = 1 THEN here
             ELSE Applied("sum", {Applied("mul", {factor[r, j], sums[r, j - 1]}), here})
        PageIndex(j, page) == page[1] \div PAGE - ranges[j][1] \div PAGE
        OTmp(j) == SetToBag({<<"mmad", NameOf(<<"part", PageIndex(j, page), AllP(j)>>), KeysOrValues("V", t, page)>> :
                               page \in PageRanges(ranges[j])})
        out[j \in DOMAIN ranges] ==
          LET here == NameOf(<<"part", sub, OTmp(j)>>)
          IN IF j = 1 THEN here
             ELSE Applied("mul", {out[j - 1]} \cup {factor[r, j] : r \in rows}) (+) here
    IN Applied("div", {out[Len(ranges)]} \cup {sums[r, Len(ranges)] : r \in rows})

ExpectedO(s) ==
    LET tasks == ToSet(AllTasks(s))
        parts == {w \in tasks \X (0..1) : RowsOfSub(w[1], w[2]) > 0}
        BufferOf(w) == <<"O", w[1].batch, w[1].token, w[1].head, w[2]>>
    IN [d \in {BufferOf(w) : w \in parts} |->
          LET w == CHOOSE v \in parts : BufferOf(v) = d IN Attention(w[1], w[2])]

Problem(aics, batches, group, kvHeads, mask) ==
    [aics |-> aics, batches |-> [b \in DOMAIN batches |-> [q |-> batches[b][1], kv |-> batches[b][2]]],
     group |-> group, kvHeads |-> kvHeads, mask |-> mask]

(* One to four stacks, with full and short last pages; a token alone, so   *)
(* that one vector core has nothing to do; several heads to a task; masks  *)
(* that begin with a page, within one, and with the first key.             *)
FlashAttentionPrograms ==
    LET Program(s) == KernelProgram(s, AicStream, AivStream, ExpectedO(s))
    IN "flash attention" :> Program(Problem(1, << <<1, 27>>, <<2, 4>>, <<4, 17>> >>, 1, 1, FALSE))
       @@ "flash attention, two cores" :> Program(Problem(2, << <<1, 6>>, <<2, 18>> >>, 3, 1, FALSE))
       @@ "flash attention with mask" :> Program(Problem(1, << <<4, 4>>, <<3, 16>>, <<2, 9>> >>, 1, 1, TRUE))
       @@ "flash attention with mask, rows" :> Program(Problem(1, << <<6, 26>> >>, 1, 1, TRUE))
       @@ "flash attention with mask, heads" :> Program(Problem(1, << <<1, 13>> >>, 4, 2, TRUE))
===============================================================================
