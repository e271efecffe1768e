# Verification of CATLASS

CATLASS is a header-only library of matrix multiplication templates for Ascend
NPUs (`src/include/catlass`, `src/include/tla`), with examples, a tuner and
scripts around it. A kernel built from it runs on cube cores (AIC, matrix
multiplication) and vector cores (AIV, two per cube core); on each core a scalar
unit hands instructions to pipes that run side by side; and the distributed
kernels run on several NPUs ("ranks") that share symmetric memory. All of this is
synchronised by hand: events between pipes, flags between cores, signals and
barriers between ranks. And all of it cuts matrices into pieces by hand, from the
problem down to the strides of one copy instruction. A test sees one schedule
and a few sizes; these TLA+ modules model the schedules and the sizes, check
them and in part prove them.

- [1. The system](#1-the-system)
- [2. The modules and the code](#2-the-modules-and-the-code)
- [3. The runs](#3-the-runs)
- [4. What the proofs show](#4-what-the-proofs-show)
- [5. Where code and documentation disagree](#5-where-code-and-documentation-disagree)
- [6. What is not modelled](#6-what-is-not-modelled)
- [7. Plan](#7-plan)

## 1. The system

| Component | State it keeps | Operations | Interacts through |
| --- | --- | --- | --- |
| Cross core flags (`arch/cross_core_sync.hpp`) | hardware flag counters; `count` of a `CrossCoreFlagWithReverse` object | set, wait, set and wait with reverse, barrier | flags shared by a cube core and its two vector cores, or by all cores of a kind |
| Matmul + all-reduce (`distributed/kernel/matmul_allreduce.hpp`, `distributed/block/block_comm_allreduce.hpp`) | symmetric memory, signal slots, UB buffers, flags | multiply a comm block; exchange it in a butterfly, in whole rows or in pieces | flags between AIC and AIV; slots, remote reads and a barrier between ranks |
| All-gather + matmul (`allgather_matmul.hpp`, `block_comm_allgather.hpp`) | symmetric memory, slots, `bufferIndex` | recursive doubling, padding B, multiply | as above |
| Matmul + reduce-scatter (`matmul_reducescatter.hpp`, `block_comm_reducescatter.hpp`) | symmetric memory, two UB buffers | pad, multiply, sum rows over all ranks | flags, two barriers between all ranks, remote reads |
| Grouped matmul + all-to-all (`grouped_matmul_alltoallv.hpp`) | workspace, rotating start core, flags | per expert: multiply blocks, send them; copy out | flags with reverse, one barrier between all ranks |
| Block mmads (`gemm/block/block_mmad_*.hpp`) | L1/L0 buffers and list indices, tiles pending or loaded ahead, events set in the constructor | constructor, `operator()` per block, `SynchronizeBlock`, destructor | pipes of one core; with prologue, flags and a workspace ring |
| Gemm kernels (`gemm/kernel`) | workspace, its stages, flags | loops over blocks on AIC and AIV: pad, multiply, reduce, epilogue | flags, barriers of a kind of core, the workspace |
| Schedulers and swizzles (`gemm/block/block_swizzle.hpp`, `block_scheduler_l2_misplace_core.hpp`, `conv/block/block_swizzle.hpp`) | none | task number to block | called by the kernels |
| Tile copies and layouts (`gemm/tile`, `epilogue/tile`, `gemv/tile`, `layout`, `tla`) | none | offsets, tile layouts, parameters of copy instructions | called by the blocks |
| Block epilogues (`epilogue/block`) | UB buffers, list indices, events | constructor, call per block, destructor | pipes of a vector core |
| Flash attention (`examples/23_flash_attention_infer`, `block_mmad_fai_*`, softmax and rescale epilogues) | rings of S, P and O in the workspace, running maximum and sum in UB | Q K^T, softmax, P V, rescale, two stacks of keys apart | flags, the workspace |
| Gemv, convolution (`gemv`, `conv`) | L1, L0 and UB buffers, events | as block mmads | pipes, flags |
| Tuner and library (`tools`) | registry of operators, device memory | parse, launch, profile | sequential host code |
| Host programs (`examples`) | stream, symmetric memory | fill in, launch ten times | launches in one stream per rank |

What makes the behaviour hard, and what would make it right:

- **Flags** hold a few sets only; a set too many freezes the device, a set left
  behind releases a wait of the next kernel. Right: no freeze, no round lost or
  gained, nothing left at the end, nobody waits for ever.
- **Pipes** are ordered by events alone. Right: no buffer is written while it is
  read, every instruction finds what the program in order would give it, the
  result is the right sum, all events are taken back, the program ends.
- **Cube and vector cores** hand the workspace to and fro, stage by stage. Right:
  as for pipes, across cores.
- **Ranks** run at their own pace, and launch after launch of the same kernel
  reuses slots, registers and memory that are cleared once or in the middle.
  Right: only data of this block and this launch is read, none is overwritten
  while it is read, every rank gets the right sum, every launch ends.
- **Partitions** divide with remainders, sometimes twice, and end in the
  counts and strides of one instruction. Right: each element once, where it
  belongs, nothing over the edge.

## 2. The modules and the code

### Flags and ranks: one action per step of a core

Every action stands for one instruction of one core at which it may be overtaken
by another core, together with everything it does up to the next such point.
`aic[r][c]` and `aiv[r][v]` name the instruction the core is at, and are
called after the call in the code. Data is abstracted to what tells right from
wrong: which rank's shares are in a tile, which block or launch a piece of memory
comes from.

**Handshake, CrossCoreFlag** (`arch/cross_core_sync.hpp`). `CrossCoreFlag` is
`CrossCoreSetFlagWithReverse` and `CrossCoreWaitFlagWithReverse`: `flag[s][w]` and
`reverse[w][s]` are the hardware counters, `setCount` and `waitCount` the private
`count` of each side's object. `SetFlag` is the set and the increment, `WaitReverse`
the wait for the answer when the count has reached `REVERSE_DEPTH`; `WaitFlag` and
`SetReverse` are the other side. Groups of setters and waiters are constants, so
that both uses of mode 2 (one cube core to two vector cores, and back) are
instances. `Handshake` is what a kernel counts on: a wait returns after all sets
of its round, no setter runs more than the depth ahead. The hardware itself
(`AscendC::CrossCoreSetFlag`, ...) is external.

**AllReduce, BlockCommAllReduce** (`block_comm_allreduce.hpp`, both overloads of
`operator()`). One vector core of every rank, the butterfly over the ranks, tile
by tile. A tile is a function from ranks to how often their share is in it.
`TargetHasTile` is the wait for the target's slots, `ReadTarget` copy,
acknowledgement and addition, `WritePartial` the wait for the acknowledgement, the
write over the own tile and the announcement. `splitPath` chooses the overload:
signals set to 1 and compared with 1, or added up and compared with a count.
`AllReduce` is the specification: every rank contributes, and then delivers the
sum of all.

**MatmulAllReduce** (`matmul_allreduce.hpp`). Both kinds of cores of two ranks, launch
after launch. `start`, `padded`, `mmad`, `reverse` are the flags, `ready` the signal
slots. `Relaunch` is the launch loop of the example (new flag objects, old
registers and slots). `padding` is a compile time choice, made in `Init`.

**AllGatherMatmul** (`allgather_matmul.hpp`, `block_comm_allgather.hpp`). `symm[r][s][v]` is the
launch from which the rows of rank `s` in part `v` of rank `r`'s memory are. The
rounds cut the rows differently for the vector cores, so a copied part is as old
as the oldest part it may be taken from (`Oldest`).

**MatmulReduceScatter** (`matmul_reducescatter.hpp`). `stored[r][c]` is the last launch whose
blocks core `c` has put into symmetric memory; with and without padding.

**GroupedMatmulAllToAllV** (`grouped_matmul_alltoallv.hpp`). Cube and vector core go through
the blocks of the experts on their own (`AicBlocks`, `AivBlocks`), and only the n-th
set of the flag connects the n-th block of either. The comm block it sends with is not
in the repository; sending is one step.

`MCGroupedMatmulAllToAllV` gives constants that a `.cfg` cannot express; the other modules
are checked directly. The theorems about a module `M` are in `MProofs`, those about all that cuts a problem into pieces in `PartitionsProofs` (section 4).

### Pipes and cores: instruction streams on one machine

A block mmad, an epilogue or a kernel is straight-line code with loops: it hands
instructions to pipes, and all that can go wrong is in their order. Such a module
is not a state machine but a function from its parameters to a *stream*, the
sequence of instructions that the code hands out over the whole life of its objects
(constructor, calls, destructor) or over a whole kernel on all its cores. Operators
are named after the functions of the code and follow their loops, conditions and
early returns.

**PipeMachine** runs streams. An agent is a pipe of a core; the scalar unit is
an agent too, whose own instructions (flags between cores, signals, scalar reads)
hold up all it has not handed out. `Set`, `Wait` and `Transfer` are all there is.
`flag[e]` holds for every set that is not yet consumed what its setter knew, `known`
is a vector clock for every agent, and `mem[b]` says which instruction has written
buffer `b` and which have read it since. Every event is set in a certain order and waited for by one
agent, so a step never takes away what another agent can do next, and all
interleavings of a stream execute the same instructions in the same
happens-before order; `NoRace` and `FlagsHold` are stated over that order, not over
where the agents happen to be. A short stream is run in all interleavings
(`anyOrder`), a long one in one; that one shows what all would show is proved
(`PipeMachineProofs`, section 4). What a stream must be like for it is `WellFormed`, the assumption
`ProgramsAssumption` of the module, which TLC evaluates for every program. This is the hardware as the
code uses it, and external.

**PipeInstructions** has the instructions and `Loaded`, which makes a stream ready
for the machine: which agent executes what, what each source buffer holds when the
stream is run strictly in order, and which results the order of the program
leaves in memory. Contents are bags of what has been added up: products of parts
of A and B, rows, applications of a named vector function.

| Module | Code (`include/catlass`) |
| --- | --- |
| `MmadTiles` | what block mmads share: blocks cut into L1 tiles and L0 parts, buffers handed over by events, the accumulator, the unit flag |
| `BlockMmadPingpong` | `block_mmad_pingpong` with `_tla`, `_bias`, `_full_loadA`; `block_mmad_small`, `_dynamic_small` |
| `BlockMmadPreload` | `block_mmad_preload`, `_tla`, `_tla_dynamic`, `_streamk`, `_dynamic_common`, `_dynamic_streamk`, and `block_mmad_gemm`: the next block's first tile loaded during this block |
| `BlockMmadPreloadAsync` | `block_mmad_preload_async`, `_with_callback`, `block_mmad_w4a4_per_token_per_channel_dequant`: tiles pending across calls |
| `BlockMmadSplitk` | `block_mmad_single_core_splitk`, `_dynamic_single_core_splitk`: operands kept on L1 from call to call |
| `BlockMmadAiv` | products on the vector unit, `block_mmad_dynamic_aiv` |
| `BlockMmadPrologue`, `BlockMmadSliceK` | `block_mmad_pingpong_with_prologue`, `_slice_k_with_prologue`, `gemm/tile/cast_*`, and their kernels `w8a16`, `w4a8`, `fp8_matmul`: both kinds of core |
| `BlockEpilogues` | `epilogue/block`: elementwise, per-token dequantisation, gemm, gemv |
| `BlockComms` | the pipes of one vector core in the comm blocks of all-reduce, reduce-scatter, all-gather |
| `Gemv`, `BlockConv2d`, `BlockConv3d` | `gemv/block`, `gemv/kernel/kernel_gemv_aic`; `conv/block/block_conv2d_pingpong`, `block_conv3d_pingpong_bias` |
| `Paddings` | the padding objects of `padding_matmul.hpp` and `optimized_matmul_tla.hpp`, element by element |
| `FlashAttentionInfer` | the blocks and the kernel of `examples/23_flash_attention_infer` |
| `KernelInstructions` | flags, barriers and reverse flags between cores as instructions, a call of a block as seen by other cores |
| `ReduceKernels` | split-k and stream-k kernels: parts in the workspace, added up by vector cores of other AI cores |
| `EpilogueKernels` | kernels whose blocks go through the workspace to an epilogue: whole, or in a ring of stages; gemm and group_gemm |
| `PaddingKernels` | kernels whose vector cores pad operands first or take padding off the result |
| `BlockPrograms` | all of the above with parameters, side by side |

In a kernel module a call of a block mmad is one instruction per operand and one for the
result (`KernelInstructions`): the inside of the call has its own module, where its own buffers are
told apart, and the two levels meet at what the block reads from and writes to memory.

### Partitions: pieces put in their places

**Partitions** is one state machine for everything that cuts a whole into pieces: a *job*
says which element is to be where in the end, and `Execute` does one of its pieces, a set of
pairs of a place and an element. The jobs come from

| Module | Code |
| --- | --- |
| `Layouts`, `Alignment` | `layout/matrix.hpp`, `tla/layout.hpp`, `detail/alignment.hpp`: the place of an element in a buffer |
| `DataCopies` | every data copy of `gemm/tile/copy_*`, `epilogue/tile/copy_*`, `gemv/tile/*copy*`: the counts and strides it makes out of its layouts, and the copy instructions they go into (external, as the tile copies use them); `Partitions` has the layouts they are given |
| `BlockSwizzles` | every swizzle and scheduler of gemm and convolution |
| `GemmKernels` | the kernels whose cores do not wait for each other: which elements of A and B each call multiplies and where in C the products go, over all cores, batches and groups |
| `AllReduceTiling` | how a comm block of the all-reduce is cut for its vector cores, in runs of rows or in pieces of a row |

### Assumptions about what is outside the repository

- A flag of mode 2 set by a cube core counts once for each of its vector cores, and a
  wait of the cube core takes one set from both; mode 0 barriers meet all cores of
  one kind on a rank; `shmemx_barrier_all_vec` meets the vector cores of all ranks.
- A pipe executes its instructions in order, a wait takes one set of its event, and
  instructions of two pipes are ordered by events only. `PipeBarrier<PIPE_V>` adds nothing to
  a pipe that is in order, so a missing one would not be found, as between the two multiplications
  in one buffer of `block_epilogue_per_token_dequant.hpp:279-282`. The unit flag orders every mmad with the fixpipe's read of the same
  accumulator; it is an event of its own.
- The destructor of a `Resource` (`TPipe::Destroy`) waits for all pipes of its core, so that
  a kernel that makes a new object for its second phase does not race with the first.
- Launches of one rank are in one stream, a launch begins when the last has ended;
  the streams of different ranks are not synchronised
  (`examples/41_matmul_allreduce/matmul_allreduce.cpp:451-461`).
- Signals and the data announced by them become visible in the order in which the
  code issues them after the event it waits for. A remote copy is a period, from the wait that
  releases it to its acknowledgement, and the properties speak of the whole period.
- Flag registers are zero when the first launch begins.

## 3. The runs

Twelve runs. A passing run explores all behaviours of its instance. All modules
end (launches, rounds, programs and pieces are bounded), hence `CHECK_DEADLOCK FALSE`
in nearly all; that they end where they should is a liveness property of the run, or
(in `partitions`) stated of the state without remaining pieces. `AllGatherMatmul` stays
in its last state by a step of its own (`Ended`), and its runs look for deadlocks.

| Run | Instance | What it shows |
| --- | --- | --- |
| `cross_core_flag` | one setter, two waiters, depth and limit 15, 29 rounds | `NoFreeze`, `DrainedAtEnd`, `Completion`, `ImplementsHandshake` |
| `allreduce_8_ranks` | 8 ranks, one tile | `NoOverwriteWhileRead`, `ReadsTargetsGroup`, `ImplementsAllReduce`, `Termination` |
| `allreduce_two_tiles` | 4 ranks, two tiles per vector core | `ImplementsAllReduce` is violated, see section 5 |
| `partitions` | 18,882 states: every tile copy on its layouts with full and partial tiles, every swizzle, the kernels of `GemmKernels`, all-reduce blocks of 1 to 9 rows | `ElementsInPlace`, `StaysInBuffer`, `PiecesDisjoint`, `AllReducePiecesFit` |
| `matmul_allreduce_launches` | 2 ranks, one cube core each, 3 blocks, 2 launches, depth 2, with and without padding | `ReadsStoredBlock`, `PhasesAlternate`, `LeavesNoFlagSet`, `PromptCompletion` |
| `matmul_allreduce_late_clear` | 2 ranks, 2 blocks, 2 launches | `Completion` is violated, see section 5 |
| `allgather_4_ranks` | 4 ranks, one launch | `ReadsGatheredRows`, `MultipliesWholeA`, `Completion` |
| `allgather_relaunch` | 2 ranks, 2 cube cores each, 2 launches | `MultipliesPaddedB`; no deadlock before the end |
| `allgather_stale_slot` | 2 ranks, 2 launches | `ReadsGatheredRows` is violated, see section 5 |
| `reduce_scatter_launches` | 2 ranks, 2 cube cores each, 2 launches, with and without padding | `MultipliesPadded`, `ReducesStored`, `NoOverwriteWhenPadded`, `Completion` |
| `alltoallv` | 2 ranks, 2 cube cores each; a busy rank and one with an expert without tokens; depth 2 | `SendsMultiplied`, `DealtOutEvenly`, `CopiesAllSent`, `LeavesNoFlagSet`, `Completion` |
| `block_programs` | 95 programs, 46,015 states | `FlagsHold`, `NoRace`, `ReadsInOrder`, `Drained`, `DeliversResults`, `Termination` |

Why the bounds are enough:

- *cross_core_flag*: 15 is the depth the kernels use and the hardware limit; 29 rounds
  go through one full cycle of answers and stop one short of the second, so both an
  answered and a pending count occur. One setter and two waiters suffice: the answer
  goes the other way, from two to one, so both directions of mode 2 are in the run.
  The theorems of section 4 hold for all groups, depths and rounds.
- *allreduce_8_ranks*: three rounds are the least in which a round has both a
  predecessor that wrote a partial sum and a successor that needs one. One tile
  per core: with more the overload without split goes wrong from four ranks on; with two
  ranks there is no partial sum and any number of tiles is right. The overload with split
  gets one piece per core (`OnePiecePerCore`, and a part of `AllReducePiecesFit`). The theorems of section 4 hold for every
  power of two of ranks and, in that overload, for any number of tiles. With one tile the two overloads
  are the same step for step (a slot goes from 0 to 1 and is compared with 1), so the run takes the
  one with split and `allreduce_two_tiles` the other.
- *partitions*: the constants of the hardware are scaled down together, so that several
  fractals, repeats and strides on both sides of their limits fit into small matrices: a fractal has
  `C0_NUM_PER_FRACTAL` = 4 rows (16), 32 bytes hold 2, 4, 8 or 16 elements (8 to 64),
  `STRIDE_LIMIT` = 64 (65536), `MAX_REPEAT` = 3 (4095, 255 for load2d), `L2_TILE_THRESHOLD` = 160. Every copy gets tiles of one and of several
  fractals, cut off in rows and in columns, taken out of the middle of a larger matrix. Problems for swizzles and
  kernels have remainders on every axis, more cores than blocks and fewer, both directions, several offsets, groups
  that are empty. The all-reduce has fewer rows than cores, more, multiples and remainders, columns that are no multiple of
  the alignment, and one to several tiles per buffer.
- *matmul_allreduce_launches*: three blocks with depth 2 reach the answer within a launch
  and leave a count over at its end; two launches hand over registers and slots. Two vector
  cores share one cube core; the barrier of the cube cores is trivial with
  one of them, more cube cores have been looked at with smaller loops only.
- *allgather*: four ranks have a round that copies groups already collected; the second launch
  needs no more than two ranks. Padding needs two cube cores: a core waits by flag for its own
  two vector cores, and half of B is padded by the other two, which only the barriers of the rounds
  hold back (a barrier for the vector cores of one cube core only breaks the property). Liveness is
  checked with four ranks, which wait for each other in two rounds, and one launch; that two launches
  come to the end follows from the other run, which finds no deadlock, as no state is ever left and
  met again (a core goes on, or its round or launch does). *reduce_scatter*: with two cube cores a core needs
  padding from vector cores that are not its own.
- *alltoallv*: experts with an odd number of blocks move the starting core, one expert has none.
- *block_programs*: every ring wraps round at least once within a call and from call to call: a block of three L1 tiles
  with a short last one, a block of one, a block of two; both values of the unit flag; `StartTile` 0 and 1 (the shuffle of k); all stages
  that a template leaves open with two values where its code distinguishes. Kernels run on one to three AI cores
  with more blocks than cores, so that cores have unequal numbers of them. `REVERSE_DEPTH` = 2 and `FlagLimit` = 3 stand for 15 and 15:
  the answer is reached after two blocks. `FlagLimit` is one more than the depth because the stream's flags without reverse may be
  three ahead in the flash attention ring of `PRE_LAUNCH + 1` slots, as they may in the code. `PipeLimit` = 2 is the number of sets a pipe event may be ahead
  of its waits: where a template leaves more stages open, two of them are used. Parameters that a template's
  `static_assert`s, its host or its kernel exclude are excluded by `ParametersOK` operators, gathered in the
  assumption `ParametersAssumption` of `BlockPrograms`.

Bounds in the models: `Rounds` (calls of a flag), `Launches`, `CocLoop`, `CoreLoops`, and the problems listed in
`BlockPrograms`, `GemmKernels` and `Partitions`. They stand for loops that the code runs that many times;
nothing is cut off in the middle.

Fairness. Each core and each pipe is a weakly fair process of its own: the hardware executes the next
instruction of a core that nothing holds up. A blocked core is disabled, not slow; once
the flag, slot or event it waits for is there it stays there until this core takes it (the late clear
of section 5 is the exception the run finds), so weak fairness is enough. `BlockCommAllReduce`, `AllGatherMatmul` and `PipeMachine` need only
weak fairness of `Next`: every step brings a rank, a core or a pipe forward, and none disables another. (In `PipeMachine` it is
written as fairness of `Progress`, which says of a step only what makes it possible.) Nothing is assumed about relative
speed, with one exception that is named: `promptClear` in `MatmulAllReduce` restricts a behaviour to those in
which no rank stores a block before the peer has cleared its slots for it. It is a timing
assumption that the code does not enforce; `PromptCompletion` says that it is all that is missing for
completion. The safety properties of the same run are checked without it as well.

## 4. What the proofs show

A run of section 3 shows a property of one instance; the theorems here show it of all values of the constants
that the named assumptions of the module admit. No theorem assumes anything else, unless its row says so. All
invariant proofs but those of `PipeMachine` and `Partitions` (see below) are laid out alike: an inductive invariant `IInv`, theorems `InitIInv`, `NextIInv` (one lemma or step per action of
`Next`, below it one per conjunct that the action can disturb) and `Invariance` (`Spec => []IInv`), and then each property from `IInv` alone. TLC has
checked each `IInv` as an invariant of its module before it was proved, on the instances named below.

| Module | Theorem | Statement |
| --- | --- | --- |
| `CrossCoreFlagProofs` | `TypeCorrect`, `NeverFreezes`, `LeavesFlagsDrained` | `Spec => []TypeOK`, `[]NoFreeze`, `[]DrainedAtEnd` |
| | `Implementation` | `Spec => ImplementsHandshake`: flags with answers are a handshake |
| `BlockCommAllReduceProofs` | `TypeCorrect`, `ReadsSums`, `NeverOverwritesWhileRead` | `Spec => []TypeOK`, `[]ReadsTargetsGroup`, `[]NoOverwriteWhileRead`, if `TilesAreToldApart` |
| | `Implements` | `Spec => ImplementsAllReduce`: the butterfly is an all-reduce, if `TilesAreToldApart` |
| `MatmulAllReduceProofs` | `TypeCorrect`, `NeverReadsUnstored`, `NeverStoresInExchange`, `EndsWithFlagsClear` | `Spec => []TypeOK`, `[]ReadsStoredBlock`, `[]PhasesAlternate`, `[]LeavesNoFlagSet` |
| `MatmulReduceScatterProofs` | `TypeCorrect`, `NeverMultipliesUnpadded`, `NeverReducesUnstored`, `NeverOverwritesWhenPadded` | `Spec => []TypeOK`, `[]MultipliesPadded`, `[]ReducesStored`, `[]NoOverwriteWhenPadded` |
| `AllGatherMatmulProofs` | `MultipliesOnlyPadded` | `Spec => []MultipliesPaddedB` |
| | `FirstLaunchGathers` | `Spec => [](FirstLaunch => ReadsGatheredRows /\ MultipliesWholeA)` |
| | `ReadsOnlyGathered`, `MultipliesAllRows` | `Spec => []ReadsGatheredRows`, `[]MultipliesWholeA`, if `Launches = 1` |
| `GroupedMatmulAllToAllVProofs` | `TypeCorrect`, `SendsOnlyMultiplied`, `DealsOutEvenly`, `CopiesOutAllSent`, `EndsWithFlagsClear` | `Spec => []TypeOK`, `[]SendsMultiplied`, `[]DealtOutEvenly`, `[]CopiesAllSent`, `[]LeavesNoFlagSet` |
| `PartitionsProofs` | `EveryElementOnce` | each element of a comm block is in exactly one tile of one vector core |
| | `OnePiecePerCore` | when rows are cut no core gets a second piece |
| | `TilesFit` | a tile is a non-empty part of the block, begins aligned, fits into a UB buffer |
| | `CutInvariant`, `CutsPutInPlace`, `CutsStayInside`, `CutsFit`, `CutsAreDisjoint` | `CutSpec => []CutInv`, `[]ElementsInPlace`, `[]StaysInBuffer`, `[]AllReducePiecesFit`, `PiecesDisjoint`: every swizzle and every GEMM kernel of one problem or of batches, on every problem it is for, of any size, and every all-reduce block |
| | `RunInvariant`, `RunsCut`, `RunsCutDisjoint` | the same in the `Spec` of the run, for those of its jobs that are such a problem: `Spec => [](job \in RunCutJobs => ...)` |
| `PipeMachineProofs` | `OneRunDecides` | `Spec`, with the five invariants of `block_programs` true throughout, implies `[](AllDone => \E K : Verdict(P, K))`: a run to the end that satisfies them leaves clocks that certify its stream |
| | `EveryOrderNoRace`, `EveryOrderReadsInOrder`, `EveryOrderFlagsHold`, `EveryOrderDrained` | `AnyOrder /\ program = name => []NoRace`, `[]ReadsInOrder`, `[]FlagsHold`, `[]Drained`, if the stream `name` has clocks with a `Verdict` |
| | `EveryOrderGoesOn` | under the same premise, `[](AllDone \/ \E a \in Agents : Ready(a))`: no order ends in a deadlock |

### Why an inductive invariant, and which

**CrossCoreFlag.** `NoFreeze` alone is not inductive: a flag with few sets in it and a setter with a low count
could be reached from nowhere and would overflow later. `IInv` ties the counters together:
`CountsMatch` says that for each pair the setter's count is what is in the flag, plus what the waiter has counted
since its answer, plus one depth if that answer has not been taken yet; `SetsAccountedFor` says that the
loop indices differ by what is in the flag. From the first and the ranges of the counts, a flag holds at
most the depth; from both, a setter that may set is less than the depth ahead, which is the guard of
the handshake. `DrainedAtEnd` follows from `SetsAccountedFor` for the flag and, for the reverse flag, from `CountsMatch`
and a setter that is not waiting for an answer. Groups of setters and waiters may be infinite.

**BlockCommAllReduce.** A rank talks to another partner in every round, so nothing about one pair is inductive by
itself. `SlotsFollow` reads the two slots of every round off three counts that the position of a rank determines: how
many tiles it has read in round *i*, has announced for it, and has written over after it. `InStep` bounds the counts of
partners (a target is overwritten at most as often as its reader has read it); `SumsFollow` says of which group of ranks
the tile in symmetric memory, the one in UB and the output hold the shares; `AllComputed` that nobody is in a tile that its matmul has not stored.
`TilesAreToldApart` is `CoreLoops = 1 \/ FALSE \notin SplitPaths`: one tile per vector core, or the overload that counts its tiles. Without it
the theorems are false, and the run `allreduce_two_tiles` is the counterexample. The code meets it for the overload with split by `OnePiecePerCore`, for the other
one only if a core's rows fit into one UB buffer. That groups are disjoint and double in size is shown from
the arithmetic of `ButterflyTarget` for powers of two up to 1024, round by round. TLC has checked `IInv` for
2, 4 and 8 ranks with up to three tiles.

**MatmulAllReduce.** `RanksInStep` and `CoresInStep` say how far apart the cores of a rank and of both ranks can be, by the
barriers; `FlagsFollow` that the four flags between a vector core and its cube core hold the
difference of what both have done; `SlotsFollow` that a slot never holds more signals than the peer has sent since it
could have been cleared. The last one is an upper bound, not an equation: a late clear may erase
a signal (section 5), and what is proved is that it can only hold a rank up, never let one read too early. For any number of cores,
comm blocks, launches and any depth, with and without padding, and with and without `promptClear`; two ranks, as the module. TLC: 87,308 states of the run's instance, and two cube cores with one block.

**MatmulReduceScatter.** `RanksInStep` has the two barriers of all ranks: no rank is more than a launch ahead, and it waits at the
start of its launch while the others reduce. `Counted` gives the history variables, `FlagsFollow` the flags, from where the cores are.
`ReducesStored` speaks of all ranks and all cube cores although a vector core has waited for its own cube core only;
the proof goes through the barrier of the cube cores (before they set the flag), the flag, and the barrier of the vector cores.
`NoOverwriteWhenPadded` goes round the other way: the cube core has padding of this launch, hence its rank has passed the first barrier, hence no rank reduces for the last launch.
TLC: 14,982 states of the run's instance.

**AllGatherMatmul.** `CoresAt` and `InStep` (all vector cores of a rank are on the same side of each of its barriers) suffice for padding, in any launch.
What is gathered needs `RowsFollow`: a slot that is set says that its rank has the rows the slot is for, and past the wait a rank knows it of its partner. That is true
in a first launch only, hence `FirstLaunch` (no rank is past its first launch) as a premise of `RowsFollow`; it is what the code promises, as the host clears the slots once. The second
launch is the run `allgather_stale_slot`. `FirstLaunchGathers` has no assumption on the number of launches, and `ReadsOnlyGathered` and `MultipliesAllRows` follow from it when there is only one.
TLC: 550,093 states of the run `allgather_4_ranks` and 1,076,670 of `allgather_relaunch`; 12,419 of two ranks with one cube core each and three launches.

**GroupedMatmulAllToAllV.** Both cores of a pair compute their blocks on their own. `FlagsFollow` says that a flag holds what has been multiplied and not yet
taken, the answers included; `CoresAt` that the *n*-th block of the cube core and the *n*-th of its vector core are the same, that what is sent is a prefix of them, and that a core behind
its loop has been through all of them; `BarrierMet` that vector cores are behind the barrier only if all of them have reached it. That the blocks of all cores are those of the rank
(`CopiesAllSent`) needs the sequence that `FlattenSeq` makes of the experts and the starting core that is
carried from expert to expert. Both are recursive functions, and the lemmas about them (`Recursion`, `Flattened`, `StartsFollow`, `OwnedEvenly`) go by
a least number for which they would fail (`Least`), as the library's induction over naturals cannot be instantiated here. `DealsOutEvenly` rests on two of them: the *i*-th block of an expert
belongs to core `(start + i) % Cores` and to no other (`BlocksOwned`), and up to the end of any expert every core has had equally many blocks, those before the start of the next expert one more (`EvenUpTo`). For experts of any sizes,
any number of ranks and cores. TLC: 6,441 states of the run's instance, 4,033 of one with one rank, experts of 3, 0, 2 and 1 blocks and depth 1.

**Partitions.** The machine of the run puts pieces in place one by one, and its jobs are listed. `CutSpec` is the same `Execute` from
`CutInit`, in which the job is any of `CutJobs`: a problem of any shape, tile, offset, direction and number of cores for any swizzle that
`Serves` it, the same for any of the ten kernels of `Kernels` that `Runs` it, or an all-reduce block of any size for any number of vector cores, with any `Align` and `ComputeLength` that `AlignAssumption` admits. `Serves` says what the code takes for granted:
one batch for the L1 full load, the single core split-k and stream-k, whose kernels have none; a tile of k for each slice of split-k; for the three-dimensional convolution as many blocks as were
asked for (`Conv3dEven`). The last two are among the restrictions of section 5, and outside of them the statement is false. `Runs` likewise: batches for the
batched kernel only, a depth of one on the vector cores, a core for each block in the small kernels, and for the dynamic one no more cores than that, as its host code has it.
`RunCutJobsAre` shows that each swizzle and all-reduce job of the run, and each job of these kernels, is one of these, so none of this is about problems that nobody has.

`CutInv` is `Remaining` and `PiecesOfJob`: what is in place and the pieces that are left are disjoint in pairs, stay within the whole, and together have all of it; and what is left are pieces of the job.
`ElementsInPlace` by itself says something of the last state only, so it needs `Remaining`. Executing a piece keeps that, whatever the pieces are, as long as they are a `Partition` of the whole at first
(`PartitionInit`, `PartitionNext`). The work is in showing that they are, swizzle by swizzle, in three steps, and a fourth for the kernels:

- *An order.* `Passes(rows, cols, n, z)`: the first `n` numbers visit each row and column once. Proved of the two directions of Zn and Nz with their last, lower block (`SwizzledPasses`),
  of the snake of the single core split-k, which turns round in both directions and may join its last block to the one before (`SnakeSwizzledPasses`), and of the L2 diagonal (`MisplacedOrderPasses`). The last one rests on
  the code's `Gcd` and `Lcm`: that `Gcd` is a divisor of both and a sum of their multiples (`GcdBezout`), hence that the diagonal `<<i % rows, (i + i \div Lcm) % cols>>` comes to no place twice (`DiagonalOnce`). It also needs that the search for the sizes of an L2 tile ends with sizes
  that are not zero (`L2TileIs`).
- *Tasks dealt along it.* `Dealt`: the tasks have each batch, place of the order and part of the depth once. For split-k and stream-k this is about runs, `n` things shared out among `k` so that the first get one more (`SomeRun`, `OneRun`):
  the slices of the depth, the blocks of a core dealt out in turn (`Dealing`), and the run of k tiles that a stream-k core has, which may end in the next block (`StreamkRun`, `StreamkHasIs`). `DealtCuts` concludes that the blocks cut the problem: `Cuts`.
- *Numbers.* `Cuts` becomes `Partition` by the numbers of the elements (`IndexIs`, `CutsPartition`), core by core where the code has it so (`CutsByCorePartition`, with what `FlattenSeq` returns).
- *Kernels.* A kernel's whole is not a row of numbers but what belongs in each place of C: which elements of A and of B are multiplied, over which depth, with which bias. `ResultIs` writes that as a function of
  the element of C (`Values`). `MultipliedIs` shows that a block, started at the offsets that the kernel computes from its layouts (`OffsetsAre`), computes just those values for the elements of its tile;
  `CallIs`, `BiasedCallIs` and `TaskIs` take that to the call of each kernel, with the base of a batch and the column of a bias. Then come the tasks that a core takes by its loop (`TaskCountIs`, `CoreTasksAre`): dealt to the cores one by one the blocks
  still cut the problem (`CutsDealt`), and what is computed for them is a partition of the result (`ComputedPartition`). Two kernels need more. The preloading and the dynamic one call the block of a task by what they found as the *next* block of
  the task before (`PreloadPieces`, `DynamicPieces`). The one that loads all of A once leaves it in L1 while the offset is unchanged, and `LoadedAIs` shows that what is there is always the block of A that the call is for.

For the all-reduce the functions that cut a block are proved right directly (`EveryElementOnce`, `OnePiecePerCore`, `TilesFit`). The lemmas they rest on are about division with remainder
(`Quotient`, `RoundUp`) and about the split that is adjusted twice: all pieces but the last have the same aligned length, and the last one is not empty.
The premise is that of the code: either rows are cut (`CutsRows`) or a row fits into a UB buffer (`RowFits`), as otherwise `TilesPerLoop`, a divisor, is zero. `TilesFit` needs the second
in either case: a row that is too long may have pieces that are; so `CutJobs` has the blocks of which it holds.

Recursive functions (`Gcd`, the search for an L2 tile, `FlattenSeq`) are reasoned about through a least counterexample or a function that satisfies their equation step by step (`Least`, `Recursion`, `StepsExist`), as
the library's induction cannot be instantiated here; `GcdIs` uses that pairs are well-founded by their second number. TLC: `Remaining` and `PiecesOfJob` in all states of the run's swizzle jobs, of its kernel jobs that are in `Kernels`, and of every eleventh all-reduce job.

**PipeMachine.** A stream is data, and whether it is right is for TLC to find out. What is proved, for every well-formed stream of any length on
any number of cores and pipes, is that one run of it is enough. `AnyOrder` is the machine without its scheduler: any ready agent may step, nothing is fair.
The proof goes through a table `K` of vector clocks, one per instruction. `Base(p, K)` is the inductive invariant: what an agent
knows, what a scalar unit has handed on, and what is left in an event are entries of `K` (`Truthful`); what has been executed is closed under
what comes right before it (`Closed`); an entry is the least upper bound of those right before it (`ClockOK`); and the entries are ordered as the
instructions happen (`OrderOK`). `MemIs(p, K)` says that a buffer remembers its last writer in that order and the readers since.
No property of section 3 is inductive without them: `NoRace` is about what agents know, and whether that is right depends on all that anybody has been told so far.
There are two halves, and both keep `Base` through every step of any agent:

- *From one run to a table.* Each step enters its clock into the table, and a step at which `NoRace`, `ReadsInOrder` and `FlagsHold` are true
  makes the same true of the table (`Shown`). At the end the table has all instructions, and is a `Verdict`: all conflicts are ordered, every
  read comes right after its writer of the strict order, no event is set too far ahead, sets and waits are equally many, the results are right.
- *From a table to every order.* An instruction can have one clock only (`SameClock`: where the entries of what comes right before agree, so
  do those after), so any other run computes the entries that are already there, and what `Verdict` says of the table is true in that run.
  That no order gets stuck takes an instruction left over with the smallest past, by a well-founded order on finite sets
  (`FirstLeft`): all before it has been executed, so its agent is ready. This needs every wait to have its set, which is a part of `Verdict`.

The table is quantified over, not a variable: a history variable would make a run of thousands of steps carry all of its clocks.
So TLC has not checked this invariant; it has checked, in `block_programs`, what the two halves lead from and to, and both assumptions: `LimitsAssumption`, and
`ProgramsAssumption` for all 95 streams. `WellFormed` asks of an event that each of its sets follows the one before it; not that one pipe makes all of them, as
two do in `gemm/kernel/dynamic_padding_streamk_matmul.hpp:311` and `:319`. There the barrier between the two orders them, hence the second disjunct of `Follows`.
The two halves meet outside of the prover: that each stream has one run to its end in which the five invariants hold is what the run `block_programs` finds.

### What is only model-checked

- Completion and all other liveness properties: fairness and ENABLED are out of the prover's reach.
- `ElementsInPlace`, `StaysInBuffer` and `PiecesDisjoint` of the tile copies and of the three grouped kernels, which are the other jobs of `partitions`. A tile copy is right for the layouts that
  its callers hand to it, each with its own condition on rows, columns and strides, and the run lists those. A grouped kernel goes through sums over its groups, folds over a list of any length, where the first core of a group comes from the blocks of all groups before it:
  that takes an induction over the list.
- That each stream of `block_programs` has one run that is right, and so `DeliversResults`: the streams are built by folds and recursive functions from
  parameters, and are right or wrong one by one. That a run in one order stands for all is proved; that it ends (`Termination`) is liveness, though `EveryOrderGoesOn` is its safety part.
- That a stream is well-formed: TLC evaluates it, as `Loaded` that makes the tables is recursive over the sequence.
- The violated properties, of course: `ReadsGatheredRows` over several launches, the all-reduce with several tiles and without split, `Completion` of `MatmulAllReduce` without `promptClear`.

## 5. Where code and documentation disagree

1. **Two tiles per vector core in the all-reduce** (`allreduce_two_tiles`). The overload without split sets its slots to 1 and
   waits for 1; the slots are not cleared between the tiles of a core, so in the second tile the waits
   of `block_comm_allreduce.hpp:169` and `:183` are over before anything has happened. With four ranks a rank delivers
   something other than the sum. It takes a comm block with more rows per vector core than fit into a UB buffer.
2. **Late clearing** (`matmul_allreduce_late_clear`). Each vector core clears all ready slots of its rank before each block
   (`matmul_allreduce.hpp:333-342`). A vector core that is late erases the signal of a peer that was fast,
   and both ranks wait for ever.
3. **Stale slots in the all-gather** (`allgather_stale_slot`). The slots are cleared once by the host, and set to 1 in every launch. From
   the second launch on the waits hold nobody up, and rows from the last launch can be copied. It shows only
   if A changes from launch to launch; in the example it does not.

One more hazard holds only in part. In the reduce-scatter kernel the barrier after the reduction is
commented out (`matmul_reducescatter.hpp:289`) and the example launches back to back
(`examples/42_matmul_reducescatter/matmul_reducescatter.cpp:446-449`). `NoOverwriteWhenPadded` holds: with padding the cube
cores wait for it, behind the barrier at the start of the launch. Without padding the same statement is false: a rank
that is through stores the next launch's blocks over rows that others are still reading. With the same input in
each launch the example cannot tell.

What the models leave out on purpose because the code is right only within it. Each is a restriction on parameters that the code
does not check; the instances stay within it, as the examples do:

| Where | What holds only within the restriction |
| --- | --- |
| `distributed/kernel/matmul_allreduce.hpp:371` | only vector cores below `rankSize` signal: there must be as many of them as ranks |
| `distributed/block/block_comm_allreduce.hpp:159`, `:114` | the butterfly is for a power of two; a row longer than a UB buffer makes `tilesPerLoop` zero, a divisor |
| `distributed/kernel/allgather_matmul.hpp:240` | with one rank the rank's own rows are never copied |
| `gemm/block/block_swizzle.hpp:290` | split-k with more slices than k has tiles subtracts below zero |
| `gemm/block/block_scheduler_l2_misplace_core.hpp:67` | one constructor leaves the counts that are divided by unset; no kernel uses it |
| `conv/block/block_swizzle.hpp:41` | the number of loops must come out again of the tile made from it, or the last ones begin beyond the output |
| `gemm/kernel/dynamic_small_matmul.hpp:87` | no loop and no guard: as many cores as blocks |
| `gemm/block/block_mmad_small.hpp:183` | k of at most one L1 tile |
| `gemm/kernel/dynamic_single_core_splitk_matmul.hpp:113`, `:361` | the kernels for small k look at rows and columns only: one tile of k |
| `gemm/kernel/streamk_matmul.hpp:92` | a tile row must fit into the share of the buffer a core has |
| `gemm/block/block_mmad_pingpong_with_prologue.hpp:125` | prologues for both operands would share UB addresses and events; no kernel has both |
| `gemm/tile/cast_int4_to_int8.hpp:121` | 32 rows at a time must fit into UB whatever their width |
| `layout/matrix.hpp:866`, `:733`, `:1173` | tiles of a padded layout lie within one block; offsets of fractal layouts are asked for at corners of fractals |
| `gemm/block/block_mmad_fai_pv_normal.hpp:174` | full stacks only; others go to the head and tail variant |

And some places look wrong for parameters the examples do not use. They are outside what the instances contain:

| Where | What the code does |
| --- | --- |
| `gemm/tile/copy_gm_to_l1.hpp:584`, `:689`, `:1038` | rows copied one by one (row stride of 65536 or more) are placed at `i * (row / 16)` fractals: from the 16th row on they are misplaced. Checked for one fractal of rows |
| `gemm/tile/copy_gm_to_l1.hpp:1701`, `:1785`, `:1349`, `:1385` | the stride goes into a 16 bit field without the comparison other copies make |
| `gemm/tile/cast_fp8_to_fp16.hpp:131`, `:263` | for long rows the length to store is never assigned |
| `epilogue/block/block_epilogue_gemv.hpp:99` | buffers for widened values begin at the buffers they are widened from |
| `gemv/kernel/kernel_gemv_aic.hpp:256` | `loopIdx == coreLoops` is never true, the vector cores' last block is not shortened |
| `gemv/kernel/kernel_gemv_aiv.hpp:165` | the height of a block is right for column major, or a split of one |
| `conv/block/block_conv3d_pingpong_bias.hpp:460` | loading the filter ahead asks whether the feature map's tile is the short one; with three k loops for a filter tile of two TLC finds results of the wrong filter tile. `Conv3dParametersOK` asks for filter tiles that divide the k axis |
| `conv_coord.hpp:987` | `MakeConv2dParams` reads the dilations from behind the strides |
| `examples/41_matmul_allreduce/matmul_allreduce.cpp:453` | the host copies into symmetric memory between launches without waiting for the other ranks |

## 6. What is not modelled

- The host's copies into symmetric memory between launches, and initialisation and finalisation of shmem.
- More than two ranks in the full all-reduce kernel; the exchange itself is modelled for all powers of two.
- Element values and floating point: sums are bags of what was added, a vector instruction is a name for a
  function of its sources. Addresses in UB are names of buffers, except in `Paddings`.
- Wrappers of one instruction (`tile_mmad`, `tile_cast`, `distributed/tile`, ...): they are the instructions in the streams.
- MLA attention (example 19) and `block_mmad_fa_*`, `block_epilogue_fa_*`: same structure as the flash attention that is modelled, with
  other blocks; the latter are used by no kernel.
- Windows of the feature map that the convolution kernels hand to their blocks, and their tile copies; the partition of the matrix by
  the gemv kernel for vector cores.
- Copies for other chips (`copy_gm_to_l1` for Ascend950 and the like) and `epilogue/tile/tile_swizzle`.
- Host side: Params and workspace sizes, the choice of tilings in example 102, device adapters, tuner, library, scripts, vendored baselines.

## 7. Plan

1. A refinement between the two levels at which a block mmad appears: that its stream, with its buffers hidden, is the one instruction per operand
   and result that the kernel modules take it for.
2. Conv kernels and gemv for vector cores as jobs of `Partitions`. The grouped kernels' partition for any list of groups, as a theorem.
3. MLA, if its blocks turn out to hand over buffers in a way the flash attention blocks do not.
