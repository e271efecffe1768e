------------------------- MODULE MatmulReduceScatter -------------------------
(***************************************************************************)
(* The matmul + reduce-scatter kernel                                      *)
(* (include/catlass/distributed/kernel/matmul_reducescatter.hpp), launched *)
(* over and over.                                                          *)
(*                                                                         *)
(* The cube cores (AIC) of every rank multiply into symmetric memory; when *)
(* they are through, the vector cores (AIV) of all ranks meet, and each    *)
(* rank sums its share of the rows over all ranks, reading the other       *)
(* ranks' symmetric memory.  No signal slots are used, and nothing tells a *)
(* rank that the others have finished reading: the barrier at the end is   *)
(* commented out in the code.  Only the padding of A or B, if there is     *)
(* any, holds up the cube cores of the next launch until the barrier at    *)
(* its start.                                                              *)
(***************************************************************************)
EXTENDS Integers

CONSTANTS
    RankSize,       \* shmem_n_pes()
    Cores,          \* GetBlockNum(): cube cores of a rank
    Launches,       \* bound: launches of the kernel
    Paddings        \* TRUE in it: PaddingA or PaddingB is not void, FALSE: both are

ASSUME RankSizeAssumption == RankSize \in Nat \ {0}
ASSUME CoresAssumption == Cores \in Nat \ {0}
ASSUME LaunchesAssumption == Launches \in Nat \ {0}
ASSUME PaddingAssumption == Paddings \subseteq BOOLEAN

Ranks == 0..(RankSize - 1)

Aics == 0..(Cores - 1)

Aivs == 0..(2 * Cores - 1)

AivsOf(c) == {2 * c, 2 * c + 1}

VARIABLES
    padding,    \* which kernel this behaviour launches
    launch,     \* launch[r]: launches rank r has begun
    aic, aiv,   \* aic[r][c], aiv[r][v]: the instruction the core is at
    padded,     \* padded[r][v]: flagAivFinishPadding set by v, not consumed
    pads,       \* pads[r][v]: launches in which v has padded its part
    mmad,       \* mmad[r][v]: flagAicFinishMatmul, not yet consumed by v
    stored      \* stored[r][c]: launches whose blocks of core c are in symmetric memory

vars == <<padding, launch, aic, aiv, padded, pads, mmad, stored>>

Everywhere(cores, value) == [r \in Ranks |-> [c \in cores |-> value]]

AicStart == IF padding THEN "waitPadding" ELSE "multiply"

Init ==
    /\ padding \in Paddings
    /\ launch = [r \in Ranks |-> 1]
    /\ aic = Everywhere(Aics, AicStart)
    /\ aiv = Everywhere(Aivs, "barrierAll")
    /\ padded = Everywhere(Aivs, 0)
    /\ pads = Everywhere(Aivs, 0)
    /\ mmad = Everywhere(Aivs, 0)
    /\ stored = Everywhere(Aics, 0)

-----------------------------------------------------------------------------
AivGoesTo(r, v, there) == aiv' = [aiv EXCEPT ![r][v] = there]

AicGoesTo(r, c, there) == aic' = [aic EXCEPT ![r][c] = there]

(* shmemx_barrier_all_vec *)
AllAivsMeet(here, there) ==
    /\ \A r \in Ranks, v \in Aivs : aiv[r][v] = here
    /\ aiv' = Everywhere(Aivs, there)

(* The barrier of a mutant: each rank goes on by itself. *)
AivsOfOneRankMeet(here, there) ==
    \E r \in Ranks :
        /\ \A v \in Aivs : aiv[r][v] = here
        /\ aiv' = [aiv EXCEPT ![r] = [v \in Aivs |-> there]]

(* Mutant: a rank begins its launch without waiting for the others. *)
BarrierAllOfOneRank ==
    /\ AivsOfOneRankMeet("barrierAll", IF padding THEN "pad" ELSE "waitMmad")
    /\ UNCHANGED <<padding, launch, aic, padded, pads, mmad, stored>>

BarrierAll ==
    /\ AllAivsMeet("barrierAll", IF padding THEN "pad" ELSE "waitMmad")
    /\ UNCHANGED <<padding, launch, aic, padded, pads, mmad, stored>>

Pad(r, v) ==
    /\ aiv[r][v] = "pad"
    /\ pads' = [pads EXCEPT ![r][v] = @ + 1]
    /\ AivGoesTo(r, v, "barrierPad")
    /\ UNCHANGED <<padding, launch, aic, padded, mmad, stored>>

(* Mutant: a vector core sets the flag when its own part is padded. *)
NoBarrierPad(r) ==
    /\ \E v \in Aivs : aiv[r][v] = "barrierPad" /\ AivGoesTo(r, v, "setPadding")
    /\ UNCHANGED <<padding, launch, aic, padded, pads, mmad, stored>>

(* CrossCoreBarrier<0> of the rank's vector cores. *)
BarrierPad(r) ==
    /\ \A v \in Aivs : aiv[r][v] = "barrierPad"
    /\ aiv' = [aiv EXCEPT ![r] = [v \in Aivs |-> "setPadding"]]
    /\ UNCHANGED <<padding, launch, aic, padded, pads, mmad, stored>>

(* Both flags are set once per launch and flag object: the count never     *)
(* reaches the reverse depth.                                              *)
SetPadding(r, v) ==
    /\ aiv[r][v] = "setPadding"
    /\ padded' = [padded EXCEPT ![r][v] = @ + 1]
    /\ AivGoesTo(r, v, "waitMmad")
    /\ UNCHANGED <<padding, launch, aic, pads, mmad, stored>>

WaitMmad(r, v) ==
    /\ aiv[r][v] = "waitMmad"
    /\ mmad[r][v] > 0
    /\ mmad' = [mmad EXCEPT ![r][v] = @ - 1]
    /\ AivGoesTo(r, v, "barrierStored")
    /\ UNCHANGED <<padding, launch, aic, padded, pads, stored>>

(* Mutant: a rank sums without waiting for the others' cube cores. *)
BarrierStoredOfOneRank ==
    /\ AivsOfOneRankMeet("barrierStored", "reduce")
    /\ UNCHANGED <<padding, launch, aic, padded, pads, mmad, stored>>

BarrierStored ==
    /\ AllAivsMeet("barrierStored", "reduce")
    /\ UNCHANGED <<padding, launch, aic, padded, pads, mmad, stored>>

(* The core's rows, read from every rank (see BlockComms). *)
Reduce(r, v) ==
    /\ aiv[r][v] = "reduce"
    /\ AivGoesTo(r, v, "done")
    /\ UNCHANGED <<padding, launch, aic, padded, pads, mmad, stored>>

-----------------------------------------------------------------------------
(* Mutant: the cube core goes on when the first vector core has padded. *)
WaitPaddingOfOne(r, c) ==
    /\ aic[r][c] = "waitPadding"
    /\ \E v \in AivsOf(c) :
          padded[r][v] > 0 /\ padded' = [padded EXCEPT ![r][v] = @ - 1]
    /\ AicGoesTo(r, c, "multiply")
    /\ UNCHANGED <<padding, launch, aiv, pads, mmad, stored>>

WaitPadding(r, c) ==
    /\ aic[r][c] = "waitPadding"
    /\ \A v \in AivsOf(c) : padded[r][v] > 0
    /\ padded' = [padded EXCEPT ![r] =
                    [v \in Aivs |-> IF v \in AivsOf(c) THEN @[v] - 1 ELSE @[v]]]
    /\ AicGoesTo(r, c, "multiply")
    /\ UNCHANGED <<padding, launch, aiv, pads, mmad, stored>>

(* The core's blocks, to the end of the last store. *)
Multiply(r, c) ==
    /\ aic[r][c] = "multiply"
    /\ stored' = [stored EXCEPT ![r][c] = @ + 1]
    /\ AicGoesTo(r, c, "barrierStored")
    /\ UNCHANGED <<padding, launch, aiv, padded, pads, mmad>>

AicBarrier(r) ==
    /\ \A c \in Aics : aic[r][c] = "barrierStored"
    /\ aic' = [aic EXCEPT ![r] = [c \in Aics |-> "setMmad"]]
    /\ UNCHANGED <<padding, launch, aiv, padded, pads, mmad, stored>>

(* Mutant: only the first of its vector cores is told. *)
SetMmadOfOne(r, c) ==
    /\ aic[r][c] = "setMmad"
    /\ mmad' = [mmad EXCEPT ![r][2 * c] = @ + 1]
    /\ AicGoesTo(r, c, "done")
    /\ UNCHANGED <<padding, launch, aiv, padded, pads, stored>>

SetMmad(r, c) ==
    /\ aic[r][c] = "setMmad"
    /\ mmad' = [mmad EXCEPT ![r] =
                  [v \in Aivs |-> IF v \in AivsOf(c) THEN @[v] + 1 ELSE @[v]]]
    /\ AicGoesTo(r, c, "done")
    /\ UNCHANGED <<padding, launch, aiv, padded, pads, stored>>

-----------------------------------------------------------------------------
RankIsDone(r) ==
    /\ \A c \in Aics : aic[r][c] = "done"
    /\ \A v \in Aivs : aiv[r][v] = "done"

(* The next launch in this rank's stream; the ranks' streams are not       *)
(* synchronised by the host.                                               *)
Relaunch(r) ==
    /\ RankIsDone(r)
    /\ launch[r] < Launches
    /\ launch' = [launch EXCEPT ![r] = @ + 1]
    /\ aic' = [aic EXCEPT ![r] = [c \in Aics |-> AicStart]]
    /\ aiv' = [aiv EXCEPT ![r] = [v \in Aivs |-> "barrierAll"]]
    /\ UNCHANGED <<padding, padded, pads, mmad, stored>>

Aiv(r, v) == Pad(r, v) \/ SetPadding(r, v) \/ WaitMmad(r, v) \/ Reduce(r, v)

Aic(r, c) == WaitPadding(r, c) \/ Multiply(r, c) \/ SetMmad(r, c)

Barriers == BarrierAll \/ BarrierStored

Next ==
    \/ Barriers
    \/ \E r \in Ranks :
        \/ BarrierPad(r) \/ AicBarrier(r) \/ Relaunch(r)
        \/ \E v \in Aivs : Aiv(r, v)
        \/ \E c \in Aics : Aic(r, c)

(* Every core runs whenever nothing holds it up. *)
Fairness ==
    /\ WF_vars(Barriers)
    /\ \A r \in Ranks :
        /\ WF_vars(BarrierPad(r)) /\ WF_vars(AicBarrier(r)) /\ WF_vars(Relaunch(r))
        /\ \A v \in Aivs : WF_vars(Aiv(r, v))
        /\ \A c \in Aics : WF_vars(Aic(r, c))

Spec == Init /\ [][Next]_vars /\ Fairness

-----------------------------------------------------------------------------
TypeOK ==
    /\ padding \in Paddings
    /\ launch \in [Ranks -> 1..Launches]
    /\ padded \in [Ranks -> [Aivs -> 0..1]]
    /\ pads \in [Ranks -> [Aivs -> 0..Launches]]
    /\ mmad \in [Ranks -> [Aivs -> 0..1]]
    /\ stored \in [Ranks -> [Aics -> 0..Launches]]

(* While a cube core multiplies padded matrices, every vector core of the  *)
(* rank has padded its part of them in this launch, the cores of other     *)
(* cube cores included.                                                    *)
MultipliesPadded ==
    \A r \in Ranks, c \in Aics : (padding /\ aic[r][c] = "multiply") =>
        \A v \in Aivs : pads[r][v] = launch[r]

(* While a vector core sums its rows, every cube core of every rank has    *)
(* stored the blocks of this launch.                                       *)
ReducesStored ==
    \A r \in Ranks, v \in Aivs : aiv[r][v] = "reduce" =>
        \A s \in Ranks, c \in Aics : stored[s][c] >= launch[r]

(* While a vector core sums its rows, no cube core of any rank overwrites  *)
(* them with those of the next launch, if there is padding: the cube cores *)
(* then wait for it, and it comes after the barrier of the next launch.    *)
(* Without padding nothing keeps them back.                                *)
NoOverwriteWhenPadded ==
    padding =>
        \A r \in Ranks, v \in Aivs : aiv[r][v] = "reduce" =>
            \A s \in Ranks, c \in Aics :
                stored[s][c] + (IF aic[s][c] = "multiply" THEN 1 ELSE 0) <= launch[r]

(* Every launch ends on every rank. *)
Completion == <>(\A r \in Ranks : launch[r] = Launches /\ RankIsDone(r))
==============================================================================
