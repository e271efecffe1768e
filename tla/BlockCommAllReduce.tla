------------------------- MODULE BlockCommAllReduce --------------------------
(***************************************************************************)
(* The butterfly all-reduce of one comm block                              *)
(* (include/catlass/distributed/block/block_comm_allreduce.hpp).           *)
(*                                                                         *)
(* Every rank holds its own matmul result in symmetric memory that the     *)
(* other ranks can read.  The vector core with the same aivId on every     *)
(* rank works on the same rows: those cores are one lane, lanes share no   *)
(* rows and no partial or ack slot, and the module models one lane.  In    *)
(* round i = 1, 2, 4, ... a rank adds the tile of the rank i away to its   *)
(* own sum.  Before the next round it overwrites its own tile in symmetric *)
(* memory with the sum, which it may do only when its reader of this round *)
(* has acknowledged, and which its reader of the next round may read only  *)
(* when told that the partial sum is there.                                *)
(***************************************************************************)
EXTENDS Integers

CONSTANTS
    RankSize,       \* shmem_n_pes()
    CoreLoops,      \* tiles the lane goes through one after the other
    SplitPaths      \* the overloads: TRUE for the one with a split count, FALSE for the other

(* rankId ^ i is computed with div and mod: see ButterflyTarget. *)
ASSUME RankSizeAssumption == \E k \in 1..10 : RankSize = 2^k
ASSUME CoreLoopsAssumption == CoreLoops \in Nat \ {0}
ASSUME SplitAssumption == SplitPaths \subseteq BOOLEAN

Ranks == 0..(RankSize - 1)

Tiles == 0..(CoreLoops - 1)

(* A tile is a sum of shares: how often each rank's share is in it. *)
Shares == [Ranks -> 0..RankSize]

Nothing == [s \in Ranks |-> 0]

OwnShare(r) == [s \in Ranks |-> IF s = r THEN 1 ELSE 0]

Add(a, b) == [s \in Ranks |-> a[s] + b[s]]

VARIABLES
    splitPath,  \* the overload the kernel calls, on all ranks the same
    symm,       \* symm[r][t]: tile t in the symmetric memory of rank r
    addUb,      \* addUb[r]: addBuffer[0] of rank r
    out,        \* out[r][t]: tile t of the result of rank r, ptrC
    ready,      \* ready[r][s]: signal slot at r, "the matmul of s is stored"
    partial,    \* partial[r][s]: signal slot at r, "the partial sum of s is stored"
    ack,        \* ack[r][s]: signal slot at r, "s has read your tile"
    computed,   \* ranks whose matmul of this comm block is stored
    pc, loop, step  \* where each rank is: the instruction, loopIdx and i

vars == <<splitPath, symm, addUb, out, ready, partial, ack, computed, pc, loop, step>>

Init ==
    /\ splitPath \in SplitPaths
    /\ computed = {}
    /\ symm = [r \in Ranks |-> [t \in Tiles |-> Nothing]]
    /\ addUb = [r \in Ranks |-> Nothing]
    /\ out = [r \in Ranks |-> [t \in Tiles |-> Nothing]]
    /\ ready = [r \in Ranks |-> [s \in Ranks |-> 0]]
    /\ partial = [r \in Ranks |-> [s \in Ranks |-> 0]]
    /\ ack = [r \in Ranks |-> [s \in Ranks |-> 0]]
    /\ pc = [r \in Ranks |-> "loadOwn"]
    /\ loop = [r \in Ranks |-> 0]
    /\ step = [r \in Ranks |-> 1]

-----------------------------------------------------------------------------
(* targetid: the rank i away in the butterfly, as the code computes it. *)
ButterflyTarget(r, i) == (r \div (2 * i)) * (2 * i) + ((r + i) % (2 * i))

Target(r) == ButterflyTarget(r, step[r])

NextTarget(r) == ButterflyTarget(r, 2 * step[r])

(* Mutant: one round too many. *)
IsLastStepTooLate(r) == 2 * step[r] > RankSize

IsLastStep(r) == 2 * step[r] >= RankSize

(* The two overloads signal in different ways: SHMEM_SIGNAL_SET to 1 and a *)
(* wait for 1, or SHMEM_SIGNAL_ADD of 1 and a wait for waitflag, which     *)
(* counts the tiles.                                                       *)
Signalled(v) == IF splitPath THEN v + 1 ELSE 1

Expected(r) == IF splitPath THEN loop[r] + 1 ELSE 1

(* The kernel around the call: the rank's matmul is stored and its vector  *)
(* cores tell every rank.  They do so one by one, and a rank looks at its  *)
(* slot only to wait for it, so a late signal is a rank that looks late.   *)
FinishMatmul(r) ==
    /\ r \notin computed
    /\ computed' = computed \cup {r}
    /\ symm' = [symm EXCEPT ![r] = [t \in Tiles |-> OwnShare(r)]]
    /\ ready' = [s \in Ranks |-> [ready[s] EXCEPT ![r] = 1]]
    /\ UNCHANGED <<addUb, out, partial, ack, pc, loop, step>>

(* The rank waits for its own slot and loads its own tile into addBuffer.  *)
LoadOwn(r) ==
    /\ pc[r] = "loadOwn"
    /\ ready[r][r] = 1
    /\ addUb' = [addUb EXCEPT ![r] = symm[r][loop[r]]]
    /\ step' = [step EXCEPT ![r] = 1]
    /\ pc' = [pc EXCEPT ![r] = "readTarget"]
    /\ UNCHANGED <<symm, out, ready, partial, ack, computed, loop>>

(* Mutant: later rounds do not wait for the target's partial sum. *)
TargetIsReadyOnly(r) == ready[r][Target(r)] = 1

TargetHasTile(r) ==
    /\ ready[r][Target(r)] = 1
    /\ step[r] > 1 => partial[r][Target(r)] = Expected(r)

(* Wait for the target's slots, copy its tile, and when the copy has       *)
(* landed (MTE2_S) tell the target and add.                                *)
ReadTarget(r) ==
    /\ pc[r] = "readTarget"
    /\ TargetHasTile(r)
    /\ addUb' = [addUb EXCEPT ![r] = Add(@, symm[Target(r)][loop[r]])]
    /\ ack' = [ack EXCEPT ![Target(r)][r] = Signalled(@)]
    /\ pc' = [pc EXCEPT ![r] = IF IsLastStep(r) THEN "store" ELSE "writePartial"]
    /\ UNCHANGED <<symm, out, ready, partial, computed, loop, step>>

(* Mutant: the tile is overwritten without waiting for its reader. *)
NoAckNeeded(r) == TRUE

ReaderIsDone(r) == ack[r][Target(r)] = Expected(r)

(* Mutant: the partial sum is announced to the reader of this round. *)
AnnounceToTarget(r) ==
    partial' = [partial EXCEPT ![Target(r)][r] = Signalled(@)]

AnnouncePartial(r) ==
    partial' = [partial EXCEPT ![NextTarget(r)][r] = Signalled(@)]

(* Unless it was the last round: wait for the reader, write the sum over   *)
(* the own tile, and when it is there (MTE3_S) tell the next round's       *)
(* reader.                                                                 *)
WritePartial(r) ==
    /\ pc[r] = "writePartial"
    /\ ReaderIsDone(r)
    /\ symm' = [symm EXCEPT ![r][loop[r]] = addUb[r]]
    /\ AnnouncePartial(r)
    /\ step' = [step EXCEPT ![r] = 2 * @]
    /\ pc' = [pc EXCEPT ![r] = "readTarget"]
    /\ UNCHANGED <<addUb, out, ready, ack, computed, loop>>

(* copyUb2Gm of the full sum to ptrC, then the next tile of the lane. *)
Store(r) ==
    /\ pc[r] = "store"
    /\ out' = [out EXCEPT ![r][loop[r]] = addUb[r]]
    /\ loop' = [loop EXCEPT ![r] = @ + 1]
    /\ pc' = [pc EXCEPT ![r] = IF loop[r] + 1 < CoreLoops THEN "loadOwn" ELSE "done"]
    /\ UNCHANGED <<symm, addUb, ready, partial, ack, computed, step>>

Lane(r) ==
    LoadOwn(r) \/ ReadTarget(r) \/ WritePartial(r) \/ Store(r)

Rank(r) == (FinishMatmul(r) \/ Lane(r)) /\ UNCHANGED splitPath

Next == \E r \in Ranks : Rank(r)

(* The matmul of every rank ends, and a vector core that is not in a wait  *)
(* runs on.  No step is ever undone, so it is enough that the system does  *)
(* not stop while some rank can move.                                      *)
Fairness == WF_vars(Next)

Spec == Init /\ [][Next]_vars /\ Fairness

-----------------------------------------------------------------------------
TypeOK ==
    /\ splitPath \in SplitPaths
    /\ symm \in [Ranks -> [Tiles -> Shares]]
    /\ addUb \in [Ranks -> Shares]
    /\ out \in [Ranks -> [Tiles -> Shares]]
    /\ ready \in [Ranks -> [Ranks -> 0..1]]
    /\ partial \in [Ranks -> [Ranks -> 0..CoreLoops]]
    /\ ack \in [Ranks -> [Ranks -> 0..CoreLoops]]
    /\ computed \subseteq Ranks
    /\ pc \in [Ranks -> {"loadOwn", "readTarget", "writePartial", "store", "done"}]
    /\ loop \in [Ranks -> 0..CoreLoops]
    /\ step \in [Ranks -> 1..(RankSize \div 2)]

(* The shares of the size ranks around r that the butterfly has combined   *)
(* when its rounds 1, 2, ..., size / 2 are over.                           *)
GroupShare(r, size) ==
    [s \in Ranks |-> IF s \div size = r \div size THEN 1 ELSE 0]

(* Past its wait, a rank may be copying (or writing) at any moment. *)
Reading(r) == pc[r] = "readTarget" /\ TargetHasTile(r)

Writing(r) == pc[r] = "writePartial" /\ ReaderIsDone(r)

(* No rank overwrites its tile while its reader of the round is copying it *)
(* (the waits at block_comm_allreduce.hpp:183 and :310 are there for it).  *)
NoOverwriteWhileRead ==
    \A r \in Ranks :
        Reading(r) => ~(Writing(Target(r)) /\ loop[Target(r)] = loop[r])

(* Whenever a rank copies a tile of its target, that tile is the sum of    *)
(* exactly the group the target has combined in the rounds before: neither *)
(* a tile from an earlier round, nor one of a later round that already     *)
(* contains the reader's own share.                                        *)
ReadsTargetsGroup ==
    \A r \in Ranks :
        Reading(r) => symm[Target(r)][loop[r]] = GroupShare(Target(r), step[r])

(* Every rank delivers every tile: no signal is waited for that was        *)
(* counted away or overwritten.                                            *)
Termination == <>(\A r \in Ranks : pc[r] = "done")

Promise == INSTANCE AllReduce WITH contributed <- computed

(* What reaches ptrC is the sum of all ranks, each of them once.           *)
ImplementsAllReduce == Promise!Spec
==============================================================================
