--------------------------- MODULE AllGatherMatmul ---------------------------
(***************************************************************************)
(* The all-gather + matmul kernel                                          *)
(* (include/catlass/distributed/kernel/allgather_matmul.hpp) with its comm *)
(* block (include/catlass/distributed/block/block_comm_allgather.hpp).     *)
(*                                                                         *)
(* The vector cores (AIV) of every rank collect all ranks' rows of A in    *)
(* the rank's symmetric memory by recursive doubling: in the round cocIdx  *)
(* = 1, 2, 4, ... a rank copies the cocIdx row groups that its partner of  *)
(* the round has collected so far.  The first round begins with copying    *)
(* the rank's own rows.  Signal slot n at a rank says that its partner of  *)
(* round n has its rows together.  Then the cube cores (AIC) multiply.     *)
(*                                                                         *)
(* Every vector core copies a part of the rows of a round, and the rounds  *)
(* cut differently: a part copied in one round may hold pieces of any part *)
(* of the round before.                                                    *)
(***************************************************************************)
EXTENDS Integers, FiniteSets

CONSTANTS
    RankSize,       \* shmem_n_pes()
    Cores,          \* GetBlockNum(): cube cores of a rank
    Launches        \* bound: launches of the kernel

(* Every round pairs the ranks up; with one rank the loop body, the copy   *)
(* of the own rows included, is never run.                                 *)
ASSUME RankSizeAssumption == \E k \in 1..10 : RankSize = 2^k
ASSUME CoresAssumption == Cores \in Nat \ {0}
ASSUME LaunchesAssumption == Launches \in Nat \ {0}

Ranks == 0..(RankSize - 1)

Aics == 0..(Cores - 1)

Aivs == 0..(2 * Cores - 1)

AivsOf(c) == {2 * c, 2 * c + 1}

(* Slot n belongs to round 2^n; log2(RankSize) of them are used. *)
Slots == 0..(CHOOSE n \in 0..10 : 2^n = RankSize) - 1

VARIABLES
    launch,     \* launch[r]: launches rank r has begun
    aiv, aic,   \* aiv[r][v], aic[r][c]: the instruction the core is at
    coc,        \* coc[r][v]: cocIdx
    offset,     \* offset[r][v]: flagOffset
    padded,     \* padded[r][v]: the last launch in which v has padded its part of B
    symm,       \* symm[r][s][v]: from which launch part v of the rows of s, at r, is
    slot,       \* slot[r][n]: signal slot n at r
    gathered    \* gathered[r][v]: flagAivFinishAllGather set by v, not consumed

vars == <<launch, aiv, aic, coc, offset, padded, symm, slot, gathered>>

Everywhere(cores, value) == [r \in Ranks |-> [c \in cores |-> value]]

Init ==
    /\ launch = [r \in Ranks |-> 1]
    /\ aiv = Everywhere(Aivs, "barrierAll")
    /\ aic = Everywhere(Aics, "waitGathered")
    /\ coc = Everywhere(Aivs, 1)
    /\ offset = Everywhere(Aivs, 1)
    /\ padded = Everywhere(Aivs, 0)
    /\ symm = Everywhere(Ranks, [v \in Aivs |-> 0])
    /\ slot = Everywhere(Slots, 0)
    /\ gathered = Everywhere(Aivs, 0)

-----------------------------------------------------------------------------
(* remoteId: the rank that holds the neighbouring group of i row groups. *)
RemoteId(r, i) == ((r + i) % (2 * i)) + (r \div (2 * i)) * (2 * i)

(* Mutant: the offset is added whatever side the neighbour is on. *)
GroupToTheRight(r, i) ==
    LET first == i * ((r \div i) + 1) IN {s \in Ranks : s \in first..(first + i - 1)}

(* tensorBlockSymmetric: the i row groups from symmOffset on. *)
RemoteGroup(r, i) ==
    LET first == i * ((r \div i) + (IF (r \div i) % 2 = 0 THEN 1 ELSE -1))
    IN {s \in Ranks : s \in first..(first + i - 1)}

Oldest(parts) == CHOOSE n \in parts : \A m \in parts : n <= m

AivGoesTo(r, v, there) == aiv' = [aiv EXCEPT ![r][v] = there]

(* Mutant: the barrier holds together only the vector cores of a cube core. *)
AivsOfACoreMeet(r, here, there) ==
    \E c \in Aics :
        /\ \A v \in AivsOf(c) : aiv[r][v] = here
        /\ aiv' = [aiv EXCEPT ![r] =
                      [v \in Aivs |-> IF v \in AivsOf(c) THEN there[v] ELSE @[v]]]

(* CrossCoreBarrier<0>, after which each vector core v is at there[v]. *)
AivsMeet(r, here, there) ==
    /\ \A v \in Aivs : aiv[r][v] = here
    /\ aiv' = [aiv EXCEPT ![r] = there]

BarrierAll ==
    /\ \A r \in Ranks, v \in Aivs : aiv[r][v] = "barrierAll"
    /\ aiv' = Everywhere(Aivs, "padB")
    /\ UNCHANGED <<launch, aic, coc, offset, padded, symm, slot, gathered>>

(* Padding B is not followed by a barrier of its own. *)
PadB(r, v) ==
    /\ aiv[r][v] = "padB"
    /\ padded' = [padded EXCEPT ![r][v] = launch[r]]
    /\ AivGoesTo(r, v, "copyOwn")
    /\ UNCHANGED <<launch, aic, coc, offset, symm, slot, gathered>>

(* isFirstIter: the rank's own rows go to its symmetric memory. *)
CopyOwn(r, v) ==
    /\ aiv[r][v] = "copyOwn"
    /\ symm' = [symm EXCEPT ![r][r][v] = launch[r]]
    /\ AivGoesTo(r, v, "barrierOwn")
    /\ UNCHANGED <<launch, aic, coc, offset, padded, slot, gathered>>

(* Vector core 0 is to tell the first partner, the others go on to wait. *)
BarrierOwn(r) ==
    /\ AivsMeet(r, "barrierOwn", [v \in Aivs |-> IF v = 0 THEN "signalOwn" ELSE "wait"])
    /\ UNCHANGED <<launch, aic, coc, offset, padded, symm, slot, gathered>>

(* Mutant: the signal is on slot flagOffset, which is for the next round. *)
SignalOwnOnNextSlot(r, v) ==
    /\ aiv[r][v] = "signalOwn"
    /\ slot' = [slot EXCEPT ![RemoteId(r, coc[r][v])][offset[r][v]] = 1]
    /\ AivGoesTo(r, v, "wait")
    /\ UNCHANGED <<launch, aic, coc, offset, padded, symm, gathered>>

(* The partner of the first round is told: slot 0. *)
SignalOwn(r, v) ==
    /\ aiv[r][v] = "signalOwn"
    /\ slot' = [slot EXCEPT ![RemoteId(r, coc[r][v])][0] = 1]
    /\ AivGoesTo(r, v, "wait")
    /\ UNCHANGED <<launch, aic, coc, offset, padded, symm, gathered>>

(* Mutant: every round waits for the slot of the first. *)
WaitFirstSlot(r, v) ==
    /\ aiv[r][v] = "wait"
    /\ slot[r][0] = 1
    /\ AivGoesTo(r, v, "copy")
    /\ UNCHANGED <<launch, aic, coc, offset, padded, symm, slot, gathered>>

(* The wait for the partner: in the first round for slot 0 in the comm     *)
(* block, in later rounds for slot flagOffset - 1 in the kernel.           *)
Wait(r, v) ==
    /\ aiv[r][v] = "wait"
    /\ slot[r][offset[r][v] - 1] = 1
    /\ AivGoesTo(r, v, "copy")
    /\ UNCHANGED <<launch, aic, coc, offset, padded, symm, slot, gathered>>

(* The core's part of the partner's groups, as old as the oldest of what   *)
(* it is copied from.                                                      *)
Copy(r, v) ==
    LET remote == RemoteId(r, coc[r][v])
        group == RemoteGroup(r, coc[r][v])
    IN /\ aiv[r][v] = "copy"
       /\ symm' = [symm EXCEPT ![r] = [s \in Ranks |->
             IF s \in group
             THEN [@[s] EXCEPT ![v] = Oldest({symm[remote][s][u] : u \in Aivs})]
             ELSE @[s]]]
       /\ AivGoesTo(r, v, "barrier")
       /\ UNCHANGED <<launch, aic, coc, offset, padded, slot, gathered>>

Barrier(r) ==
    /\ AivsMeet(r, "barrier", [v \in Aivs |-> "signal"])
    /\ UNCHANGED <<launch, aic, coc, offset, padded, symm, slot, gathered>>

IsLastRound(r, v) == 2 * coc[r][v] >= RankSize

(* Vector core 0 tells the partner of the next round, if there is one. *)
Signal(r, v) ==
    /\ aiv[r][v] = "signal"
    /\ slot' = IF v = 0 /\ ~IsLastRound(r, v)
               THEN [slot EXCEPT ![RemoteId(r, 2 * coc[r][v])][offset[r][v]] = 1]
               ELSE slot
    /\ coc' = [coc EXCEPT ![r][v] = 2 * @]
    /\ offset' = [offset EXCEPT ![r][v] = @ + 1]
    /\ AivGoesTo(r, v, IF IsLastRound(r, v) THEN "setGathered" ELSE "wait")
    /\ UNCHANGED <<launch, aic, padded, symm, gathered>>

(* CrossCoreSetFlagWithReverse, once per launch and flag object: the count *)
(* never reaches the reverse depth.                                        *)
SetGathered(r, v) ==
    /\ aiv[r][v] = "setGathered"
    /\ gathered' = [gathered EXCEPT ![r][v] = @ + 1]
    /\ AivGoesTo(r, v, "done")
    /\ UNCHANGED <<launch, aic, coc, offset, padded, symm, slot>>

-----------------------------------------------------------------------------
WaitGathered(r, c) ==
    /\ aic[r][c] = "waitGathered"
    /\ \A v \in AivsOf(c) : gathered[r][v] > 0
    /\ gathered' = [gathered EXCEPT ![r] =
                      [v \in Aivs |-> IF v \in AivsOf(c) THEN @[v] - 1 ELSE @[v]]]
    /\ aic' = [aic EXCEPT ![r][c] = "multiply"]
    /\ UNCHANGED <<launch, aiv, coc, offset, padded, symm, slot>>

(* The core's blocks, to the end: each may need any row of A and of B. *)
Multiply(r, c) ==
    /\ aic[r][c] = "multiply"
    /\ aic' = [aic EXCEPT ![r][c] = "done"]
    /\ UNCHANGED <<launch, aiv, coc, offset, padded, symm, slot, gathered>>

RankIsDone(r) ==
    /\ \A v \in Aivs : aiv[r][v] = "done"
    /\ \A c \in Aics : aic[r][c] = "done"

(* The host launches again (repeat_time).  It has cleared the slots once,  *)
(* before the first launch.                                                *)
Relaunch(r) ==
    /\ RankIsDone(r)
    /\ launch[r] < Launches
    /\ launch' = [launch EXCEPT ![r] = @ + 1]
    /\ aiv' = [aiv EXCEPT ![r] = [v \in Aivs |-> "barrierAll"]]
    /\ aic' = [aic EXCEPT ![r] = [c \in Aics |-> "waitGathered"]]
    /\ coc' = [coc EXCEPT ![r] = [v \in Aivs |-> 1]]
    /\ offset' = [offset EXCEPT ![r] = [v \in Aivs |-> 1]]
    /\ UNCHANGED <<padded, symm, slot, gathered>>

(* The last launch has ended on every rank: the only state to stay in. *)
Ended ==
    /\ \A r \in Ranks : launch[r] = Launches /\ RankIsDone(r)
    /\ UNCHANGED vars

Aiv(r, v) ==
    \/ PadB(r, v) \/ CopyOwn(r, v) \/ SignalOwn(r, v) \/ Wait(r, v) \/ Copy(r, v)
    \/ Signal(r, v) \/ SetGathered(r, v)

Aic(r, c) == WaitGathered(r, c) \/ Multiply(r, c)

Barriers(r) == BarrierOwn(r) \/ Barrier(r)

Next ==
    \/ BarrierAll
    \/ \E r \in Ranks :
        \/ Barriers(r)
        \/ Relaunch(r)
        \/ \E v \in Aivs : Aiv(r, v)
        \/ \E c \in Aics : Aic(r, c)
    \/ Ended

(* As long as some core can run, one does.  That is less than that every   *)
(* core runs whenever nothing holds it up, and enough: no core ever does   *)
(* the same again but in another round or launch.                          *)
Fairness == WF_vars(Next)

Spec == Init /\ [][Next]_vars /\ Fairness

-----------------------------------------------------------------------------
(* While a vector core copies from its partner, all the rows of the group  *)
(* are at the partner, from this launch (the waits at                      *)
(* block_comm_allgather.hpp:165 and allgather_matmul.hpp:272 say they wait *)
(* for just that).                                                         *)
ReadsGatheredRows ==
    \A r \in Ranks, v \in Aivs : aiv[r][v] = "copy" =>
        \A s \in RemoteGroup(r, coc[r][v]), u \in Aivs :
            symm[RemoteId(r, coc[r][v])][s][u] = launch[r]

(* While a cube core multiplies, every row of A of every rank is in its    *)
(* rank's symmetric memory, from this launch.                              *)
MultipliesWholeA ==
    \A r \in Ranks, c \in Aics : aic[r][c] = "multiply" =>
        \A s \in Ranks, u \in Aivs : symm[r][s][u] = launch[r]

(* While a cube core multiplies, all of B is padded, by every vector core  *)
(* of the rank and in this launch: a core waits for its own two vector     *)
(* cores only, and what the others have padded is ordered by the barriers  *)
(* of the rounds (allgather_matmul.hpp:213 has no barrier of its own).     *)
MultipliesPaddedB ==
    \A r \in Ranks, c \in Aics : aic[r][c] = "multiply" =>
        \A u \in Aivs : padded[r][u] = launch[r]

(* Every launch ends on every rank. *)
Completion == <>(\A r \in Ranks : launch[r] = Launches /\ RankIsDone(r))
==============================================================================
