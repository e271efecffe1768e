--------------------------- MODULE MatmulAllReduce ---------------------------
(***************************************************************************)
(* The matmul + all-reduce kernel                                          *)
(* (include/catlass/distributed/kernel/matmul_allreduce.hpp) on two ranks, *)
(* launched over and over as the examples and scripts do.                  *)
(*                                                                         *)
(* On every rank the cube cores (AIC) multiply one comm block at a time    *)
(* into symmetric memory, and the vector cores (AIV, two per cube core)    *)
(* then exchange it: FLAG_AIV_FINISH_ALLREDUCE tells the vector cores that *)
(* a block is stored, FLAG_START_STORE tells the cube cores that it has    *)
(* been exchanged.  Between the ranks there are only the signal slots in   *)
(* symmetric memory, which every vector core clears before each block, and *)
(* shmemx_barrier_all_vec at the start of a launch.  With two ranks the    *)
(* exchange of a block is the first round of BlockCommAllReduce: wait for  *)
(* the own slot, wait for the peer's, copy the peer's tile.                *)
(***************************************************************************)
EXTENDS Integers, FiniteSets

CONSTANTS
    Cores,          \* GetBlockNum(): cube cores of a rank
    CocLoop,        \* comm blocks of the problem
    Launches,       \* bound: launches of the kernel
    ReverseDepth,   \* REVERSE_DEPTH of flagAivFinishAllReduce
    Paddings,       \* TRUE in it: PaddingA or PaddingB is not void, FALSE: both are
    Prompts         \* TRUE in it: no block is stored before the peer has cleared for it

ASSUME CoresAssumption == Cores \in Nat \ {0}
ASSUME LoopAssumption == CocLoop \in Nat \ {0} /\ Launches \in Nat \ {0}
ASSUME DepthAssumption == ReverseDepth \in Nat \ {0}
ASSUME ChoicesAssumption == Paddings \subseteq BOOLEAN /\ Prompts \subseteq BOOLEAN

Ranks == {0, 1}

Peer(r) == 1 - r

Aics == 0..(Cores - 1)

Aivs == 0..(2 * Cores - 1)

(* The two vector cores a mode 2 flag of cube core c is shared with. *)
AivsOf(c) == {2 * c, 2 * c + 1}

AicOf(v) == v \div 2

VARIABLES
    padding, promptClear,   \* which of the choices this behaviour has made
    launch,     \* launch[r]: launches rank r has begun
    aic, aiv,   \* aic[r][c], aiv[r][v]: the instruction the core is at
    aicBlock,   \* aicBlock[r][c]: cocIdx of the cube core
    aivBlock,   \* aivBlock[r][v]: cocIdx of the vector core
    start,      \* start[r][v]: flagstart set by v, not yet consumed by its cube core
    padded,     \* padded[r][v]: flagAivFinishPadding, likewise
    mmad,       \* mmad[r][v]: flagAivFinishAllReduce, not yet consumed by v
    reverse,    \* reverse[r][v]: its reverse flag, not yet consumed by the cube core
    setCount, waitCount,    \* flagAivFinishAllReduce.count in either object
    ready       \* ready[r][s]: signal slot at r, "s has stored the block"

choices == <<padding, promptClear>>

flags == <<start, padded, mmad, reverse, setCount, waitCount>>

vars == <<choices, launch, aic, aiv, aicBlock, aivBlock, start, padded, mmad, reverse,
          setCount, waitCount, ready>>

Everywhere(cores, value) == [r \in Ranks |-> [c \in cores |-> value]]

AicStart == IF padding THEN "waitPadding" ELSE "waitStart"

Init ==
    /\ padding \in Paddings
    /\ promptClear \in Prompts
    /\ launch = [r \in Ranks |-> 1]
    /\ aic = Everywhere(Aics, AicStart)
    /\ aiv = Everywhere(Aivs, "barrierAll")
    /\ aicBlock = Everywhere(Aics, 0)
    /\ aivBlock = Everywhere(Aivs, 0)
    /\ start = Everywhere(Aivs, 0)
    /\ padded = Everywhere(Aivs, 0)
    /\ mmad = Everywhere(Aivs, 0)
    /\ reverse = Everywhere(Aivs, 0)
    /\ setCount = Everywhere(Aics, 0)
    /\ waitCount = Everywhere(Aivs, 0)
    /\ ready = Everywhere(Ranks, 0)

-----------------------------------------------------------------------------
AivGoesTo(r, v, there) == aiv' = [aiv EXCEPT ![r][v] = there]

AicGoesTo(r, c, there) == aic' = [aic EXCEPT ![r][c] = there]

(* A flag that both vector cores of cube core c set, and c waits for. *)
SetByBoth(f, r, c) == \A v \in AivsOf(c) : f[r][v] > 0

TakenFromBoth(f, r, c) ==
    [f EXCEPT ![r] = [v \in Aivs |-> IF v \in AivsOf(c) THEN @[v] - 1 ELSE @[v]]]

(* CrossCoreBarrier<0>: the cores of one kind on one rank meet.  A core    *)
(* that leaves the barrier late is a core whose next step comes late.      *)
AivsMeet(r, here, there) ==
    /\ \A v \in Aivs : aiv[r][v] = here
    /\ aiv' = [aiv EXCEPT ![r] = [v \in Aivs |-> there]]

AicsMeet(r, here, there) ==
    /\ \A c \in Aics : aic[r][c] = here
    /\ aic' = [aic EXCEPT ![r] = [c \in Aics |-> there]]

-----------------------------------------------------------------------------
(* The vector cores. *)

(* shmemx_barrier_all_vec: the vector cores of all ranks meet. *)
BarrierAll ==
    /\ \A r \in Ranks, v \in Aivs : aiv[r][v] = "barrierAll"
    /\ aiv' = Everywhere(Aivs, "setStart")
    /\ UNCHANGED <<choices, launch, aic, aicBlock, aivBlock, flags, ready>>

(* The cube cores may go on: with the first block when the launch begins,  *)
(* with the next one when a block is exchanged.                            *)
SetStart(r, v) ==
    /\ aiv[r][v] = "setStart"
    /\ start' = [start EXCEPT ![r][v] = @ + 1]
    /\ AivGoesTo(r, v,
           IF aivBlock[r][v] = 0 /\ padding THEN "pad"
           ELSE IF aivBlock[r][v] = CocLoop THEN "done" ELSE "clear")
    /\ UNCHANGED <<choices, launch, aic, aicBlock, aivBlock, padded, mmad, reverse,
                   setCount, waitCount, ready>>

Pad(r) ==
    /\ AivsMeet(r, "pad", "setPadding")
    /\ UNCHANGED <<choices, launch, aic, aicBlock, aivBlock, flags, ready>>

SetPadding(r, v) ==
    /\ aiv[r][v] = "setPadding"
    /\ padded' = [padded EXCEPT ![r][v] = @ + 1]
    /\ AivGoesTo(r, v, "clear")
    /\ UNCHANGED <<choices, launch, aic, aicBlock, aivBlock, start, mmad, reverse,
                   setCount, waitCount, ready>>

(* Mutant: the slots keep what the last block has left in them. *)
NeverClears(r, v) ==
    /\ aiv[r][v] = "clear"
    /\ AivGoesTo(r, v, "waitMmad")
    /\ UNCHANGED <<choices, launch, aic, aicBlock, aivBlock, flags, ready>>

(* Every vector core clears the own rank's slots of its butterfly targets. *)
Clear(r, v) ==
    /\ aiv[r][v] = "clear"
    /\ ready' = [ready EXCEPT ![r][Peer(r)] = 0]
    /\ AivGoesTo(r, v, "waitMmad")
    /\ UNCHANGED <<choices, launch, aic, aicBlock, aivBlock, flags>>

(* Mutant: the answer to the cube core is never sent. *)
NeverAnswers(r, v) ==
    /\ waitCount' = [waitCount EXCEPT ![r][v] = @ + 1]
    /\ UNCHANGED reverse

(* The tail of CrossCoreWaitFlagWithReverse, see CrossCoreFlag. *)
Answer(r, v) ==
    IF waitCount[r][v] + 1 >= ReverseDepth
    THEN /\ reverse' = [reverse EXCEPT ![r][v] = @ + 1]
         /\ waitCount' = [waitCount EXCEPT ![r][v] = 0]
    ELSE /\ waitCount' = [waitCount EXCEPT ![r][v] = @ + 1]
         /\ UNCHANGED reverse

WaitMmad(r, v) ==
    /\ aiv[r][v] = "waitMmad"
    /\ mmad[r][v] > 0
    /\ mmad' = [mmad EXCEPT ![r][v] = @ - 1]
    /\ Answer(r, v)
    /\ AivGoesTo(r, v, "barrierIn")
    /\ UNCHANGED <<choices, launch, aic, aicBlock, aivBlock, start, padded, setCount, ready>>

BarrierIn(r) ==
    /\ AivsMeet(r, "barrierIn", "signal")
    /\ UNCHANGED <<choices, launch, aic, aicBlock, aivBlock, flags, ready>>

(* Vector core i tells rank i that the block of this rank is stored. *)
Signal(r, v) ==
    /\ aiv[r][v] = "signal"
    /\ ready' = IF v \in Ranks THEN [ready EXCEPT ![v][r] = 1] ELSE ready
    /\ AivGoesTo(r, v, "loadOwn")
    /\ UNCHANGED <<choices, launch, aic, aicBlock, aivBlock, flags>>

LoadOwn(r, v) ==
    /\ aiv[r][v] = "loadOwn"
    /\ ready[r][r] = 1
    /\ AivGoesTo(r, v, "readPeer")
    /\ UNCHANGED <<choices, launch, aic, aicBlock, aivBlock, flags, ready>>

PeerIsReady(r) == ready[r][Peer(r)] = 1

ReadPeer(r, v) ==
    /\ aiv[r][v] = "readPeer"
    /\ PeerIsReady(r)
    /\ AivGoesTo(r, v, "barrierOut")
    /\ UNCHANGED <<choices, launch, aic, aicBlock, aivBlock, flags, ready>>

BarrierOut(r) ==
    /\ AivsMeet(r, "barrierOut", "setStart")
    /\ aivBlock' = [aivBlock EXCEPT ![r] = [v \in Aivs |-> @[v] + 1]]
    /\ UNCHANGED <<choices, launch, aic, aicBlock, flags, ready>>

-----------------------------------------------------------------------------
(* The cube cores. *)

WaitPadding(r, c) ==
    /\ aic[r][c] = "waitPadding"
    /\ SetByBoth(padded, r, c)
    /\ padded' = TakenFromBoth(padded, r, c)
    /\ AicGoesTo(r, c, "waitStart")
    /\ UNCHANGED <<choices, launch, aiv, aicBlock, aivBlock, start, mmad, reverse,
                   setCount, waitCount, ready>>

(* Mutant: the wait for FLAG_START_STORE after the last block is left out. *)
NoLastWait(r, c) ==
    /\ aic[r][c] = "waitStart"
    /\ IF aicBlock[r][c] = CocLoop
       THEN UNCHANGED start
       ELSE SetByBoth(start, r, c) /\ start' = TakenFromBoth(start, r, c)
    /\ AicGoesTo(r, c, "barrierIn")
    /\ UNCHANGED <<choices, launch, aiv, aicBlock, aivBlock, padded, mmad, reverse,
                   setCount, waitCount, ready>>

(* Mutant: the next block is begun without waiting for the exchange. *)
WaitStartOnce(r, c) ==
    /\ aic[r][c] = "waitStart"
    /\ IF aicBlock[r][c] > 0
       THEN UNCHANGED start
       ELSE SetByBoth(start, r, c) /\ start' = TakenFromBoth(start, r, c)
    /\ AicGoesTo(r, c, "barrierIn")
    /\ UNCHANGED <<choices, launch, aiv, aicBlock, aivBlock, padded, mmad, reverse,
                   setCount, waitCount, ready>>

WaitStart(r, c) ==
    /\ aic[r][c] = "waitStart"
    /\ SetByBoth(start, r, c)
    /\ start' = TakenFromBoth(start, r, c)
    /\ AicGoesTo(r, c, "barrierIn")
    /\ UNCHANGED <<choices, launch, aiv, aicBlock, aivBlock, padded, mmad, reverse,
                   setCount, waitCount, ready>>

(* The wait after the last block is followed by the end of the kernel. *)
AicBarrierIn(r) ==
    /\ AicsMeet(r, "barrierIn", IF aicBlock[r][0] < CocLoop THEN "multiply" ELSE "done")
    /\ UNCHANGED <<choices, launch, aiv, aicBlock, aivBlock, flags, ready>>

(* How many clears vector core v of rank r has made in its launches. *)
Clears(r, v) ==
    (launch[r] - 1) * CocLoop + aivBlock[r][v]
        + (IF aiv[r][v] \in {"barrierAll", "setStart", "pad", "setPadding", "clear", "done"}
           THEN 0 ELSE 1)

BlocksBegun(r, c) == (launch[r] - 1) * CocLoop + aicBlock[r][c] + 1

(* Timing, not code: with promptClear a multiplication takes longer than   *)
(* the peer needs to begin the same block.                                 *)
PeerHasCleared(r, c) ==
    promptClear => \A v \in Aivs : Clears(Peer(r), v) >= BlocksBegun(r, c)

(* The core's share of the block, blockMmad by blockMmad, to the end of    *)
(* the store.                                                              *)
Multiply(r, c) ==
    /\ aic[r][c] = "multiply"
    /\ PeerHasCleared(r, c)
    /\ AicGoesTo(r, c, "barrierOut")
    /\ UNCHANGED <<choices, launch, aiv, aicBlock, aivBlock, flags, ready>>

AicBarrierOut(r) ==
    /\ AicsMeet(r, "barrierOut", "setMmad")
    /\ UNCHANGED <<choices, launch, aiv, aicBlock, aivBlock, flags, ready>>

(* CrossCoreSetFlagWithReverse; the wait for the answer is AwaitAnswer.    *)
SetMmad(r, c) ==
    /\ aic[r][c] = "setMmad"
    /\ mmad' = [mmad EXCEPT ![r] = [v \in Aivs |-> IF v \in AivsOf(c) THEN @[v] + 1 ELSE @[v]]]
    /\ setCount' = [setCount EXCEPT ![r][c] = @ + 1]
    /\ aicBlock' = [aicBlock EXCEPT ![r][c] = @ + 1]
    /\ AicGoesTo(r, c, IF setCount[r][c] + 1 >= ReverseDepth THEN "awaitAnswer" ELSE "waitStart")
    /\ UNCHANGED <<choices, launch, aiv, aivBlock, start, padded, reverse, waitCount, ready>>

AwaitAnswer(r, c) ==
    /\ aic[r][c] = "awaitAnswer"
    /\ SetByBoth(reverse, r, c)
    /\ reverse' = TakenFromBoth(reverse, r, c)
    /\ setCount' = [setCount EXCEPT ![r][c] = 0]
    /\ AicGoesTo(r, c, "waitStart")
    /\ UNCHANGED <<choices, launch, aiv, aicBlock, aivBlock, start, padded, mmad, waitCount, ready>>

-----------------------------------------------------------------------------
RankIsDone(r) ==
    /\ \A c \in Aics : aic[r][c] = "done"
    /\ \A v \in Aivs : aiv[r][v] = "done"

(* The host's stream: the next launch begins when this rank's kernel has   *)
(* ended, whatever the other rank is doing.  Flag objects are new, flag    *)
(* registers and signal slots keep what is in them.                        *)
Relaunch(r) ==
    /\ RankIsDone(r)
    /\ launch[r] < Launches
    /\ launch' = [launch EXCEPT ![r] = @ + 1]
    /\ aic' = [aic EXCEPT ![r] = [c \in Aics |-> AicStart]]
    /\ aiv' = [aiv EXCEPT ![r] = [v \in Aivs |-> "barrierAll"]]
    /\ aicBlock' = [aicBlock EXCEPT ![r] = [c \in Aics |-> 0]]
    /\ aivBlock' = [aivBlock EXCEPT ![r] = [v \in Aivs |-> 0]]
    /\ setCount' = [setCount EXCEPT ![r] = [c \in Aics |-> 0]]
    /\ waitCount' = [waitCount EXCEPT ![r] = [v \in Aivs |-> 0]]
    /\ UNCHANGED <<choices, start, padded, mmad, reverse, ready>>

Aiv(r, v) ==
    \/ SetStart(r, v) \/ SetPadding(r, v) \/ Clear(r, v) \/ WaitMmad(r, v)
    \/ Signal(r, v) \/ LoadOwn(r, v) \/ ReadPeer(r, v)

Aic(r, c) ==
    \/ WaitPadding(r, c) \/ WaitStart(r, c) \/ Multiply(r, c)
    \/ SetMmad(r, c) \/ AwaitAnswer(r, c)

Barriers(r) ==
    Pad(r) \/ BarrierIn(r) \/ BarrierOut(r) \/ AicBarrierIn(r) \/ AicBarrierOut(r)

Next ==
    \/ BarrierAll
    \/ \E r \in Ranks :
        \/ Barriers(r)
        \/ Relaunch(r)
        \/ \E v \in Aivs : Aiv(r, v)
        \/ \E c \in Aics : Aic(r, c)

(* Every core runs whenever nothing holds it up.                           *)
Fairness ==
    /\ WF_vars(BarrierAll)
    /\ \A r \in Ranks :
        /\ WF_vars(Pad(r)) /\ WF_vars(BarrierIn(r)) /\ WF_vars(BarrierOut(r))
        /\ WF_vars(AicBarrierIn(r)) /\ WF_vars(AicBarrierOut(r))
        /\ WF_vars(Relaunch(r))
        /\ \A v \in Aivs : WF_vars(Aiv(r, v))
        /\ \A c \in Aics : WF_vars(Aic(r, c))

Spec == Init /\ [][Next]_vars /\ Fairness

-----------------------------------------------------------------------------
(* No core flag is set again before the last set of it has been consumed.   *)
TypeOK ==
    /\ padding \in Paddings /\ promptClear \in Prompts
    /\ launch \in [Ranks -> 1..Launches]
    /\ aicBlock \in [Ranks -> [Aics -> 0..CocLoop]]
    /\ aivBlock \in [Ranks -> [Aivs -> 0..CocLoop]]
    /\ start \in [Ranks -> [Aivs -> 0..1]]
    /\ padded \in [Ranks -> [Aivs -> 0..1]]
    /\ mmad \in [Ranks -> [Aivs -> 0..1]]
    /\ reverse \in [Ranks -> [Aivs -> 0..1]]
    /\ setCount \in [Ranks -> [Aics -> 0..ReverseDepth]]
    /\ waitCount \in [Ranks -> [Aivs -> 0..(ReverseDepth - 1)]]
    /\ ready \in [Ranks -> [Ranks -> 0..1]]

(* Shares of blocks that cube core c of rank r has stored so far.          *)
Stored(r, c) ==
    (launch[r] - 1) * CocLoop + aicBlock[r][c]
        + (IF aic[r][c] \in {"barrierOut", "setMmad"} THEN 1 ELSE 0)

(* The block vector core v is working on, counted over all launches. *)
Wanted(r, v) == (launch[r] - 1) * CocLoop + aivBlock[r][v]

Reading(r, v) == aiv[r][v] = "readPeer" /\ PeerIsReady(r)

Storing(r, c) == aic[r][c] = "multiply"

(* While a vector core copies a block from its peer, every cube core of    *)
(* the peer has stored its share of just this block, and none is storing   *)
(* over it for the next launch - with slots that are cleared by some       *)
(* cores while others still signal, and a barrier between the ranks only   *)
(* at the start of a launch.                                               *)
ReadsStoredBlock ==
    \A r \in Ranks, v \in Aivs : Reading(r, v) =>
        \A c \in Aics :
            /\ Stored(Peer(r), c) > Wanted(r, v)
            /\ Stored(Peer(r), c) + (IF Storing(Peer(r), c) THEN 1 ELSE 0)
                 <= Wanted(r, v) + CocLoop

(* The cube cores never store into symmetric memory while a vector core of *)
(* their own rank has a block between its two barriers.                    *)
PhasesAlternate ==
    \A r \in Ranks, v \in Aivs, c \in Aics :
        aiv[r][v] \in {"signal", "loadOwn", "readPeer"} => ~Storing(r, c)

(* A rank whose kernel has ended leaves no core flag set, so that the next *)
(* launch starts from clear registers.  What the reverse counts have left  *)
(* over goes with the flag object.                                         *)
LeavesNoFlagSet ==
    \A r \in Ranks : RankIsDone(r) =>
        \A v \in Aivs : start[r][v] + padded[r][v] + mmad[r][v] + reverse[r][v] = 0

(* Every launch of the kernel ends on both ranks. *)
Completion == <>(\A r \in Ranks : launch[r] = Launches /\ RankIsDone(r))

(* It does if no rank stores a block before the peer has cleared for it.   *)
PromptCompletion == promptClear => Completion
==============================================================================
