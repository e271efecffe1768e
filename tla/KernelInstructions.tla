-------------------------- MODULE KernelInstructions ---------------------------
(***************************************************************************)
(* Kernels whose cube cores (AIC) and vector cores (AIV) wait for each     *)
(* other (include/catlass/gemm/kernel): the flags between the cores, and   *)
(* what a call of a block mmad or of a block epilogue amounts to for the   *)
(* other cores.  The insides of the blocks have modules of their own.      *)
(*                                                                         *)
(* Memory is looked at row by row: <<"A", r>> is a row of A, <<"B", j>> a  *)
(* column of B, other buffers are rows of a block in the workspace or in   *)
(* the result.                                                             *)
(***************************************************************************)
EXTENDS PipeInstructions

CONSTANT REVERSE_DEPTH  \* of CrossCoreFlagWithReverse

(* Two vector cores belong to a cube core. *)
SubBlockNum == 2

Aic(i) == <<"aic", i>>

Aiv(j) == <<"aiv", j>>

AivsOf(i) == {Aiv(SubBlockNum * i + s) : s \in 0..(SubBlockNum - 1)}

AicOf(j) == Aic(j \div SubBlockNum)

SubBlockIdx(j) == j % SubBlockNum

AllAivs(cores) == {Aiv(j) : j \in 0..(cores * SubBlockNum - 1)}

-----------------------------------------------------------------------------
(* Mode 0x2: a cube core and its two vector cores.  A flag of a cube core  *)
(* is seen by both, and a cube core sees a flag when both have set it.     *)
Partners(core) == IF core[1] = "aic" THEN AivsOf(core[2]) ELSE {AicOf(core[2])}

SetPartners(core, pipe, id) == CrossCoreSetFlag(core, pipe, id, Partners(core))

AwaitPartners(core, id) == CrossCoreWaitFlag(core, id, Partners(core))

(* Mode 0x0: every core of the kind waits until all of them have set the   *)
(* flag, it itself included.                                               *)
CrossCoreBarrier(core, pipe, all) ==
    LET id == IF core[1] = "aiv" THEN 8 ELSE 9
    IN CrossCoreSetFlag(core, pipe, id, all) \o CrossCoreWaitFlag(core, id, all)

(* The n-th call of CrossCoreSetFlagWithReverse by a core, and of          *)
(* CrossCoreWaitFlagWithReverse: after REVERSE_DEPTH calls the setter      *)
(* waits for the other side.                                               *)
SetFlagWithReverse(core, pipe, id, reverseId, n) ==
    SetPartners(core, pipe, id) \o When(n % REVERSE_DEPTH = 0, AwaitPartners(core, reverseId))

WaitFlagWithReverse(core, pipe, id, reverseId, n) ==
    AwaitPartners(core, id) \o When(n % REVERSE_DEPTH = 0, SetPartners(core, pipe, reverseId))

-----------------------------------------------------------------------------
(* The streams of the cores as one: a core goes on until it has to wait    *)
(* for a flag that nobody has set, then the next one does.  What cannot be *)
(* reached at all comes last.                                              *)
AwaitsCores(ins) == ins.op = "wait" /\ \A e \in ins.events : Len(e) = 3

Segments(stream) ==
    LET starts == SelectSeq([n \in DOMAIN stream |-> n], LAMBDA n : n = 1 \/ AwaitsCores(stream[n]))
    IN [i \in DOMAIN starts |->
          SubSeq(stream, starts[i], IF i = Len(starts) THEN Len(stream) ELSE starts[i + 1] - 1)]

CrossSets(segment) ==
    LET sets == SelectSeq(segment, LAMBDA ins : ins.op = "set" /\ \A e \in ins.events : Len(e) = 3)
    IN FoldLeft(LAMBDA bag, ins : bag (+) SetToBag(ins.events), EmptyBag, sets)

CrossWaits(segment) == IF AwaitsCores(segment[1]) THEN SetToBag(segment[1].events) ELSE EmptyBag

RECURSIVE Interleaved(_, _)
Interleaved(left, isSet) ==
    LET ready == {c \in DOMAIN left : left[c] # <<>> /\ CrossWaits(Head(left[c])) \sqsubseteq isSet}
    IN IF ready = {} THEN FlattenSeq([c \in DOMAIN left |-> FlattenSeq(left[c])])
       ELSE LET c == Min(ready)
                next == Head(left[c])
            IN next \o Interleaved([left EXCEPT ![c] = Tail(@)], (isSet (-) CrossWaits(next)) (+) CrossSets(next))

Merged(cores, StreamOf(_)) ==
    Interleaved([c \in DOMAIN cores |-> <<>> \o Segments(On(cores[c], StreamOf(cores[c])))], EmptyBag)

(* A kernel on so many cube cores and their vector cores. *)
Kernel(cores, StreamOf(_)) ==
    Merged([i \in 1..cores |-> Aic(i - 1)] \o [j \in 1..(cores * SubBlockNum) |-> Aiv(j - 1)], StreamOf)

-----------------------------------------------------------------------------
EachOf(tasks, Body(_)) == FlattenSeq([j \in DOMAIN tasks |-> Body(j)])

(* A set of numbers in order. *)
InOrder(numbers) == SetToSortSeq(numbers, LAMBDA a, b : a < b)

(* A block mmad: two L1 buffers used in turn, one accumulator.  dsts are   *)
(* the destinations of the parts of the block with what they are to get.   *)
MmadConstructor ==
    << SetFlag("M", "MTE2", 0), SetFlag("M", "MTE2", 1), SetFlag("FIX", "M", 0) >>

MmadDestructor ==
    << WaitFlag("M", "MTE2", 0), WaitFlag("M", "MTE2", 1), WaitFlag("FIX", "M", 0) >>

LoadBlock(n, srcs) ==
    LET s == n % 2
    IN << WaitFlag("M", "MTE2", s), Do("MTE2", <<"L1", s>>, srcs, <<"add">>), SetFlag("MTE2", "M", s) >>

MultiplyBlock(n) ==
    LET s == n % 2
    IN << WaitFlag("MTE2", "M", s), WaitFlag("FIX", "M", 0), Copy("M", <<"L0C">>, <<"L1", s>>),
          SetFlag("M", "MTE2", s) >>

StoreBlock(dsts) ==
    Sync("M", "FIX", 0)
    \o [i \in DOMAIN dsts |-> Do("FIX", dsts[i][1], {<<"L0C">>}, <<"apply", dsts[i][2]>>)]
    \o << SetFlag("FIX", "M", 0) >>

CallMmad(n, srcs, dsts) == LoadBlock(n, srcs) \o MultiplyBlock(n) \o StoreBlock(dsts)

(* What StoreBlock leaves if the operands have not been changed. *)
ProductOf(srcs, label) ==
    SetToBag({<<"apply", label, {FoldSet(LAMBDA b, sum : SetToBag({b}) (+) sum, EmptyBag, srcs)}>>})

(* A tile of a vector core: loaded, calculated with, and stored, with two  *)
(* buffers in and two out used in turn.                                    *)
VectorConstructor ==
    For(0, 1, LAMBDA s : << SetFlag("V", "MTE2", s), SetFlag("MTE3", "V", s) >>)

VectorDestructor ==
    For(0, 1, LAMBDA s : << WaitFlag("V", "MTE2", s), WaitFlag("MTE3", "V", s) >>)

VectorTile(n, srcs, dst) ==
    LET s == n % 2
    IN << WaitFlag("V", "MTE2", s), Do("MTE2", <<"UB", "in", s>>, srcs, <<"add">>) >>
       \o Sync("MTE2", "V", s)
       \o << WaitFlag("MTE3", "V", s), Copy("V", <<"UB", "out", s>>, <<"UB", "in", s>>),
             SetFlag("V", "MTE2", s) >>
       \o Sync("V", "MTE3", s)
       \o << Copy("MTE3", dst, <<"UB", "out", s>>), SetFlag("MTE3", "V", s) >>

(* The whole work of a cube core, and of a vector core. *)
CubeCore(stream) == MmadConstructor \o stream \o MmadDestructor

VectorCore(stream) == VectorConstructor \o stream \o VectorDestructor

-----------------------------------------------------------------------------
(* Kernels whose vector cores first copy operands to the workspace, padded *)
(* (s.padA, s.padB), and whose cube cores read them there.                 *)
ARow(s, r) == <<IF s.padA THEN "WA" ELSE "A", r>>

BColumn(s, j) == <<IF s.padB THEN "WB" ELSE "B", j>>

Prologue(s, core) ==
    LET Rows(operand, padded, n) ==
          EachOf(TasksOf(core[2], n, SubBlockNum * s.aics), LAMBDA x :
            LET r == core[2] + (x - 1) * SubBlockNum * s.aics
            IN VectorTile(x, {<<operand, r>>}, <<padded, r>>))
    IN When(s.padA, VectorCore(Rows("A", "WA", s.shape[2])))
       \o When(s.padB, VectorCore(Rows("B", "WB", s.shape[3])))

FinishPadding(s, core, id) ==
    When(s.padA \/ s.padB,
         CrossCoreBarrier(core, "MTE3", AllAivs(s.aics)) \o SetPartners(core, "MTE3", id))

AwaitPadding(s, core, id) == When(s.padA \/ s.padB, AwaitPartners(core, id))

(* Every call loads the operands of the next one. *)
NextPreloaded(tasks, Sources(_), Dsts(_)) ==
    EachOf(tasks, LAMBDA x :
      When(x = 1, LoadBlock(x, Sources(tasks[x])))
      \o When(x < Len(tasks), LoadBlock(x + 1, Sources(tasks[x + 1])))
      \o MultiplyBlock(x) \o StoreBlock(Dsts(tasks[x])))

-----------------------------------------------------------------------------
(* A kernel for problem s on its cube cores and their vector cores. *)
KernelProgram(s, AicStream(_, _), AivStream(_, _), expected) ==
    Loaded(Kernel(s.aics, LAMBDA core : IF core[1] = "aic" THEN AicStream(s, core) ELSE AivStream(s, core)),
           expected, FALSE)
===============================================================================
