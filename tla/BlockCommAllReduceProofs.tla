----------------------- MODULE BlockCommAllReduceProofs -----------------------
(***************************************************************************)
(* Proofs about the butterfly all-reduce of one comm block: it implements  *)
(* AllReduce for any number of ranks the butterfly is made for and any     *)
(* number of tiles, in the overload that counts its tiles; in the other    *)
(* one for a single tile.                                                  *)
(***************************************************************************)
EXTENDS BlockCommAllReduce, TLAPS

(* What the proofs are about: the signals tell one tile from the next.     *)
(* Otherwise they do not hold: see the run allreduce_two_tiles.            *)
TilesAreToldApart == CoreLoops = 1 \/ FALSE \notin SplitPaths

(* The rounds of the butterfly. *)
Rounds == {i \in {1, 2, 4, 8, 16, 32, 64, 128, 256, 512} : i < RankSize}

InTile(r) == pc[r] \in {"readTarget", "writePartial", "store"}

(* How many tiles rank r has read in round i, has announced for round i,   *)
(* and has written over after round i.                                     *)
Reads(r, i) ==
    loop[r] + (IF InTile(r) /\ (step[r] > i \/ (step[r] = i /\ pc[r] # "readTarget")) THEN 1 ELSE 0)

Announced(r, i) == loop[r] + (IF InTile(r) /\ step[r] >= i THEN 1 ELSE 0)

Overwritten(r, i) == loop[r] + (IF InTile(r) /\ step[r] > i THEN 1 ELSE 0)

(* Of how many ranks around it rank r has the sum in addBuffer, and in     *)
(* tile t of its symmetric memory.                                         *)
Held(r) == IF pc[r] = "readTarget" THEN step[r] ELSE 2 * step[r]

Kept(r, t) ==
    IF t < loop[r] THEN RankSize \div 2
    ELSE IF t = loop[r] /\ InTile(r) THEN step[r] ELSE 1

PcsOK ==
    \A r \in Ranks :
        /\ step[r] \in Rounds
        /\ pc[r] = "writePartial" => 2 * step[r] < RankSize
        /\ pc[r] = "store" => 2 * step[r] = RankSize
        /\ pc[r] = "done" <=> loop[r] = CoreLoops
        /\ r \notin computed => pc[r] = "loadOwn" /\ loop[r] = 0

(* The slots say how far the other rank is, and nothing else. *)
ReadyOf(r) == \A s \in Ranks : ready[s][r] = IF r \in computed THEN 1 ELSE 0

CountsOf(r, i) ==
    /\ ack[ButterflyTarget(r, i)][r] = Reads(r, i)
    /\ i > 1 => partial[ButterflyTarget(r, i)][r] = Announced(r, i)

SlotsFollow == \A r \in Ranks : ReadyOf(r) /\ \A i \in Rounds : CountsOf(r, i)

(* No tile is written over after a round before the reader of the round    *)
(* has read it.                                                            *)
InStepAt(r, i) == 2 * i < RankSize => Overwritten(ButterflyTarget(r, i), i) <= Reads(r, i)

InStep == \A r \in Ranks, i \in Rounds : InStepAt(r, i)

(* The sums are those of the groups of ranks.  *)
SymmOf(r) ==
    \A t \in Tiles : symm[r][t] = IF r \in computed THEN GroupShare(r, Kept(r, t)) ELSE Nothing

AddUbOf(r) == InTile(r) => addUb[r] = GroupShare(r, Held(r))

OutOf(r) ==
    \A t \in Tiles : out[r][t] = IF t < loop[r] THEN GroupShare(r, RankSize) ELSE Nothing

SumsFollow == \A r \in Ranks : SymmOf(r) /\ AddUbOf(r) /\ OutOf(r)

(* A sum is only made of what has been computed. *)
ComputedBefore(r) ==
    /\ loop[r] > 0 => computed = Ranks
    /\ InTile(r) => \A s \in Ranks : s \div Held(r) = r \div Held(r) => s \in computed

AllComputed == \A r \in Ranks : ComputedBefore(r)

IInv == TypeOK /\ PcsOK /\ SlotsFollow /\ InStep /\ SumsFollow /\ AllComputed

-----------------------------------------------------------------------------
(* The numbers of ranks the butterfly is made for, one by one: with a      *)
(* number in the place of RankSize the provers can divide by it.           *)
LEMMA SizeCases == RankSize \in {2, 4, 8, 16, 32, 64, 128, 256, 512, 1024}
<1>1. PICK k \in 1..10 : RankSize = 2^k
  BY RankSizeAssumption
<1>2. CASE k = 1
  <2>1. RankSize = 2^1
    BY <1>1, <1>2
  <2>2. 2^1 = 2
    OBVIOUS
  <2> QED
    BY <2>1, <2>2
<1>3. CASE k = 2
  <2>1. RankSize = 2^2
    BY <1>1, <1>3
  <2>2. 2^2 = 4
    OBVIOUS
  <2> QED
    BY <2>1, <2>2
<1>4. CASE k = 3
  <2>1. RankSize = 2^3
    BY <1>1, <1>4
  <2>2. 2^3 = 8
    OBVIOUS
  <2> QED
    BY <2>1, <2>2
<1>5. CASE k = 4
  <2>1. RankSize = 2^4
    BY <1>1, <1>5
  <2>2. 2^4 = 16
    OBVIOUS
  <2> QED
    BY <2>1, <2>2
<1>6. CASE k = 5
  <2>1. RankSize = 2^5
    BY <1>1, <1>6
  <2>2. 2^5 = 32
    OBVIOUS
  <2> QED
    BY <2>1, <2>2
<1>7. CASE k = 6
  <2>1. RankSize = 2^6
    BY <1>1, <1>7
  <2>2. 2^6 = 64
    OBVIOUS
  <2> QED
    BY <2>1, <2>2
<1>8. CASE k = 7
  <2>1. RankSize = 2^7
    BY <1>1, <1>8
  <2>2. 2^7 = 128
    OBVIOUS
  <2> QED
    BY <2>1, <2>2
<1>9. CASE k = 8
  <2>1. RankSize = 2^8
    BY <1>1, <1>9
  <2>2. 2^8 = 256
    OBVIOUS
  <2> QED
    BY <2>1, <2>2
<1>10. CASE k = 9
  <2>1. RankSize = 2^9
    BY <1>1, <1>10
  <2>2. 2^9 = 512
    OBVIOUS
  <2> QED
    BY <2>1, <2>2
<1>11. CASE k = 10
  <2>1. RankSize = 2^10
    BY <1>1, <1>11
  <2>2. 2^10 = 1024
    OBVIOUS
  <2> QED
    BY <2>1, <2>2
<1> QED
  BY <1>1, <1>2, <1>3, <1>4, <1>5, <1>6, <1>7, <1>8, <1>9, <1>10, <1>11

(* Every round pairs the ranks within groups that divide the ranks evenly, *)
(* and it is the last round or there is one of twice the distance.         *)
LEMMA RoundFacts ==
    ASSUME NEW i \in Rounds
    PROVE  /\ i \in Nat \ {0}
           /\ RankSize \in Nat
           /\ RankSize % (2 * i) = 0
           /\ 2 * i <= RankSize
           /\ 2 * i < RankSize => 2 * i \in Rounds
           /\ i \in 1..(RankSize \div 2)
           /\ 2 * i = RankSize => RankSize \div 2 = i
<1>1. CASE i = 1
  BY <1>1, SizeCases DEF Rounds
<1>2. CASE i = 2
  BY <1>2, SizeCases DEF Rounds
<1>3. CASE i = 4
  BY <1>3, SizeCases DEF Rounds
<1>4. CASE i = 8
  BY <1>4, SizeCases DEF Rounds
<1>5. CASE i = 16
  BY <1>5, SizeCases DEF Rounds
<1>6. CASE i = 32
  BY <1>6, SizeCases DEF Rounds
<1>7. CASE i = 64
  BY <1>7, SizeCases DEF Rounds
<1>8. CASE i = 128
  BY <1>8, SizeCases DEF Rounds
<1>9. CASE i = 256
  BY <1>9, SizeCases DEF Rounds
<1>10. CASE i = 512
  BY <1>10, SizeCases DEF Rounds
<1> QED
  BY <1>1, <1>2, <1>3, <1>4, <1>5, <1>6, <1>7, <1>8, <1>9, <1>10 DEF Rounds

(* Of two rounds the later one goes at least twice as far.                 *)
LEMMA RoundOrder ==
    ASSUME NEW i \in Rounds, NEW j \in Rounds, j < i
    PROVE  2 * j <= i
<1>1. CASE i = 1
  BY <1>1 DEF Rounds
<1>2. CASE i = 2
  BY <1>2 DEF Rounds
<1>3. CASE i = 4
  BY <1>3 DEF Rounds
<1>4. CASE i = 8
  BY <1>4 DEF Rounds
<1>5. CASE i = 16
  BY <1>5 DEF Rounds
<1>6. CASE i = 32
  BY <1>6 DEF Rounds
<1>7. CASE i = 64
  BY <1>7 DEF Rounds
<1>8. CASE i = 128
  BY <1>8 DEF Rounds
<1>9. CASE i = 256
  BY <1>9 DEF Rounds
<1>10. CASE i = 512
  BY <1>10 DEF Rounds
<1> QED
  BY <1>1, <1>2, <1>3, <1>4, <1>5, <1>6, <1>7, <1>8, <1>9, <1>10 DEF Rounds

(* targetid is rankId ^ i: the rank i up or i down.                        *)
LEMMA TargetForm ==
    ASSUME NEW r \in Nat, NEW i \in Rounds
    PROVE  ButterflyTarget(r, i) = IF (r \div i) % 2 = 0 THEN r + i ELSE r - i
<1>1. CASE i = 1
  BY <1>1 DEF ButterflyTarget
<1>2. CASE i = 2
  BY <1>2 DEF ButterflyTarget
<1>3. CASE i = 4
  BY <1>3 DEF ButterflyTarget
<1>4. CASE i = 8
  BY <1>4 DEF ButterflyTarget
<1>5. CASE i = 16
  BY <1>5 DEF ButterflyTarget
<1>6. CASE i = 32
  BY <1>6 DEF ButterflyTarget
<1>7. CASE i = 64
  BY <1>7 DEF ButterflyTarget
<1>8. CASE i = 128
  BY <1>8 DEF ButterflyTarget
<1>9. CASE i = 256
  BY <1>9 DEF ButterflyTarget
<1>10. CASE i = 512
  BY <1>10 DEF ButterflyTarget
<1> QED
  BY <1>1, <1>2, <1>3, <1>4, <1>5, <1>6, <1>7, <1>8, <1>9, <1>10 DEF Rounds

(* The target is another rank, and the target's target is the rank itself: *)
(* two ranks exchange their tiles in a round, so the reader of a rank is   *)
(* its target.                                                             *)
LEMMA TargetFacts ==
    ASSUME NEW r \in Ranks, NEW i \in Rounds
    PROVE  /\ ButterflyTarget(r, i) \in Ranks
           /\ ButterflyTarget(r, i) # r
           /\ ButterflyTarget(ButterflyTarget(r, i), i) = r
<1> r \in Nat /\ r < RankSize /\ RankSize \in Nat /\ RankSize % (2 * i) = 0
  BY RoundFacts DEF Ranks
<1>1. CASE i = 1
  BY <1>1, RoundFacts DEF ButterflyTarget, Ranks
<1>2. CASE i = 2
  BY <1>2, RoundFacts DEF ButterflyTarget, Ranks
<1>3. CASE i = 4
  BY <1>3, RoundFacts DEF ButterflyTarget, Ranks
<1>4. CASE i = 8
  BY <1>4, RoundFacts DEF ButterflyTarget, Ranks
<1>5. CASE i = 16
  BY <1>5, RoundFacts DEF ButterflyTarget, Ranks
<1>6. CASE i = 32
  BY <1>6, RoundFacts DEF ButterflyTarget, Ranks
<1>7. CASE i = 64
  BY <1>7, RoundFacts DEF ButterflyTarget, Ranks
<1>8. CASE i = 128
  BY <1>8, RoundFacts DEF ButterflyTarget, Ranks
<1>9. CASE i = 256
  BY <1>9, RoundFacts DEF ButterflyTarget, Ranks
<1>10. CASE i = 512
  BY <1>10, RoundFacts DEF ButterflyTarget, Ranks
<1> QED
  BY <1>1, <1>2, <1>3, <1>4, <1>5, <1>6, <1>7, <1>8, <1>9, <1>10 DEF Rounds

(* No two rounds have the same target, so no slot is used for two rounds.  *)
LEMMA TargetsDiffer ==
    ASSUME NEW r \in Ranks, NEW i \in Rounds, NEW j \in Rounds, i # j
    PROVE  ButterflyTarget(r, i) # ButterflyTarget(r, j)
<1> r \in Nat
  BY RoundFacts DEF Ranks
<1> i \in Nat \ {0} /\ j \in Nat \ {0}
  BY RoundFacts
<1> QED
  BY TargetForm

(* The group of 2i ranks around a rank is its group of i ranks and that of *)
(* its target, and these have no rank in common.                           *)
LEMMA GroupSplits ==
    ASSUME NEW r \in Ranks, NEW s \in Ranks, NEW i \in Rounds
    PROVE  /\ s \div (2 * i) = r \div (2 * i)
                 <=> \/ s \div i = r \div i
                     \/ s \div i = ButterflyTarget(r, i) \div i
           /\ r \div i # ButterflyTarget(r, i) \div i
           /\ ButterflyTarget(r, i) \div (2 * i) = r \div (2 * i)
<1> r \in Nat /\ s \in Nat
  BY RoundFacts DEF Ranks
<1>1. CASE i = 1
  BY <1>1 DEF ButterflyTarget
<1>2. CASE i = 2
  BY <1>2 DEF ButterflyTarget
<1>3. CASE i = 4
  BY <1>3 DEF ButterflyTarget
<1>4. CASE i = 8
  BY <1>4 DEF ButterflyTarget
<1>5. CASE i = 16
  BY <1>5 DEF ButterflyTarget
<1>6. CASE i = 32
  BY <1>6 DEF ButterflyTarget
<1>7. CASE i = 64
  BY <1>7 DEF ButterflyTarget
<1>8. CASE i = 128
  BY <1>8 DEF ButterflyTarget
<1>9. CASE i = 256
  BY <1>9 DEF ButterflyTarget
<1>10. CASE i = 512
  BY <1>10 DEF ButterflyTarget
<1> QED
  BY <1>1, <1>2, <1>3, <1>4, <1>5, <1>6, <1>7, <1>8, <1>9, <1>10 DEF Rounds

(* A rank alone is the group of one, and all ranks are that of RankSize.   *)
LEMMA GroupEnds ==
    ASSUME NEW r \in Ranks
    PROVE  r \div 1 = r /\ r \div RankSize = 0
<1> r \in Nat /\ r < RankSize
  BY SizeCases DEF Ranks
<1> QED
  BY SizeCases

(* The groups of a round lie within those of a later one.                  *)
LEMMA GroupNests ==
    ASSUME NEW r \in Ranks, NEW s \in Ranks, NEW i \in Rounds, NEW j \in Rounds, i <= j,
           s \div i = r \div i
    PROVE  s \div j = r \div j
<1> r \in Nat /\ s \in Nat
  BY RoundFacts DEF Ranks
<1>1. i * (j \div i) = j /\ j \div i \in Nat \ {0} /\ i \in Nat \ {0}
  BY RoundOrder, i <= j DEF Rounds
<1>2. CASE j = 1
  BY <1>2, RoundOrder DEF Rounds
<1>3. CASE j = 2
  BY <1>3, RoundOrder DEF Rounds
<1>4. CASE j = 4
  BY <1>4, RoundOrder DEF Rounds
<1>5. CASE j = 8
  BY <1>5, RoundOrder DEF Rounds
<1>6. CASE j = 16
  BY <1>6, RoundOrder DEF Rounds
<1>7. CASE j = 32
  BY <1>7, RoundOrder DEF Rounds
<1>8. CASE j = 64
  BY <1>8, RoundOrder DEF Rounds
<1>9. CASE j = 128
  BY <1>9, RoundOrder DEF Rounds
<1>10. CASE j = 256
  BY <1>10, RoundOrder DEF Rounds
<1>11. CASE j = 512
  BY <1>11, RoundOrder DEF Rounds
<1> QED
  BY <1>2, <1>3, <1>4, <1>5, <1>6, <1>7, <1>8, <1>9, <1>10, <1>11 DEF Rounds

(* The sum of a group is a tile, whose shares cannot exceed the ranks.     *)
LEMMA ShareType ==
    ASSUME NEW r \in Ranks, NEW size
    PROVE  GroupShare(r, size) \in Shares /\ OwnShare(r) \in Shares
BY SizeCases DEF GroupShare, OwnShare, Shares

(* The matmul of a rank is the sum of the group of one.                    *)
LEMMA OwnIsGroup ==
    ASSUME NEW r \in Ranks
    PROVE  OwnShare(r) = GroupShare(r, 1)
BY GroupEnds DEF OwnShare, GroupShare

(* The sum of the group of RankSize is that of all ranks, each of them     *)
(* once.                                                                   *)
LEMMA WholeGroup ==
    ASSUME NEW r \in Ranks
    PROVE  GroupShare(r, RankSize) = [s \in Ranks |-> 1]
BY GroupEnds DEF GroupShare

(* A rank that adds the sum of its target's group has that of both groups. *)
LEMMA GroupsAdd ==
    ASSUME NEW r \in Ranks, NEW i \in Rounds
    PROVE  Add(GroupShare(r, i), GroupShare(ButterflyTarget(r, i), i)) = GroupShare(r, 2 * i)
<1> DEFINE t == ButterflyTarget(r, i)
<1> HIDE DEF t
<1>1. ASSUME NEW s \in Ranks
      PROVE  GroupShare(r, i)[s] + GroupShare(t, i)[s] = GroupShare(r, 2 * i)[s]
  <2>1. (s \div (2 * i) = r \div (2 * i)) <=> ((s \div i = r \div i) \/ (s \div i = t \div i))
    BY GroupSplits DEF t
  <2>2. r \div i # t \div i
    BY GroupSplits DEF t
  <2> QED
    BY <2>1, <2>2 DEF GroupShare
<1> QED
  BY <1>1 DEF Add, GroupShare, t

(* When the signals tell one tile from the next, a wait is for the number  *)
(* of tiles the rank will have been through, and a signal counts one up.   *)
LEMMA Signals ==
    ASSUME TilesAreToldApart, TypeOK, NEW r \in Ranks, loop[r] # CoreLoops
    PROVE  /\ loop[r] \in Tiles /\ loop[r] \in Nat /\ loop[r] + 1 \in 0..CoreLoops
           /\ Expected(r) = loop[r] + 1
           /\ Signalled(loop[r]) = loop[r] + 1
<1>1. loop[r] \in 0..CoreLoops /\ splitPath \in SplitPaths /\ CoreLoops \in Nat \ {0}
  BY CoreLoopsAssumption DEF TypeOK
<1>2. loop[r] \in Tiles /\ loop[r] \in Nat /\ loop[r] + 1 \in 0..CoreLoops
  BY <1>1 DEF Tiles
<1>3. splitPath \in BOOLEAN
  BY <1>1, SplitAssumption
<1>4. CASE splitPath
  BY <1>2, <1>4 DEF Expected, Signalled
<1>5. CASE ~splitPath
  <2>1. CoreLoops = 1
    BY <1>1, <1>3, <1>5 DEF TilesAreToldApart
  <2> QED
    BY <1>1, <1>2, <1>5, <2>1 DEF Expected, Signalled
<1> QED
  BY <1>2, <1>4, <1>5

(* What is said of a rank depends only on where that rank is.              *)
LEMMA Frame ==
    ASSUME NEW s \in Ranks, pc'[s] = pc[s], loop'[s] = loop[s], step'[s] = step[s]
    PROVE  /\ InTile(s)' <=> InTile(s)
           /\ \A i \in Rounds :
                /\ Reads(s, i)' = Reads(s, i)
                /\ Announced(s, i)' = Announced(s, i)
                /\ Overwritten(s, i)' = Overwritten(s, i)
           /\ Held(s)' = Held(s)
           /\ \A t \in Tiles : Kept(s, t)' = Kept(s, t)
<1>1. InTile(s)' <=> InTile(s)
  BY DEF InTile
<1> QED
  BY <1>1 DEF Reads, Announced, Overwritten, Held, Kept

(* Where a rank can be.                                                    *)
LEMMA AtRank ==
    ASSUME IInv, NEW r \in Ranks
    PROVE  /\ loop[r] \in 0..CoreLoops /\ loop[r] \in Int /\ CoreLoops \in Nat \ {0}
           /\ step[r] \in Rounds /\ step[r] \in Nat \ {0}
           /\ RankSize \in Nat /\ 2 * step[r] <= RankSize
           /\ InTile(r) => r \in computed /\ loop[r] # CoreLoops
           /\ pc[r] = "loadOwn" => loop[r] # CoreLoops
<1>1. step[r] \in Rounds
  BY DEF IInv, PcsOK
<1>2. loop[r] \in 0..CoreLoops
  BY DEF IInv, TypeOK
<1>3. InTile(r) => r \in computed /\ loop[r] # CoreLoops
  BY DEF IInv, PcsOK, InTile
<1>4. pc[r] = "loadOwn" => loop[r] # CoreLoops
  BY DEF IInv, PcsOK
<1> QED
  BY <1>1, <1>2, <1>3, <1>4, RoundFacts, CoreLoopsAssumption

(* The waits of a rank that reads do what they are for: its target's tile  *)
(* is the sum of the target's group of this round, not yet that of the     *)
(* next.                                                                   *)
LEMMA ReadingFacts ==
    ASSUME TilesAreToldApart, IInv, NEW r \in Ranks, Reading(r)
    PROVE  /\ Target(r) \in computed
           /\ Kept(Target(r), loop[r]) = step[r]
           /\ symm[Target(r)][loop[r]] = GroupShare(Target(r), step[r])
           /\ \A s \in Ranks : s \div step[r] = Target(r) \div step[r] => s \in computed
           /\ Reads(r, step[r]) = loop[r]
<1> DEFINE i == step[r]
           l == loop[r]
           t == Target(r)
<1> HIDE DEF i, l, t
<1>1. /\ pc[r] = "readTarget" /\ InTile(r) /\ i \in Rounds /\ i \in Nat \ {0}
      /\ l \in Tiles /\ l \in Int /\ RankSize \in Nat
      /\ Expected(r) = l + 1
  BY AtRank, Signals DEF Reading, InTile, i, l, IInv
<1>2. t \in Ranks /\ t = ButterflyTarget(r, i) /\ ButterflyTarget(t, i) = r
  BY <1>1, TargetFacts DEF Target, t, i
<1>3. t \in computed
  <2>1. ready[r][t] = 1
    BY DEF Reading, TargetHasTile, t
  <2> QED
    BY <1>2, <2>1 DEF IInv, SlotsFollow, ReadyOf
<1>4. Reads(r, i) = l
  BY <1>1 DEF Reads, i, l
<1>5. i > 1 => Announced(t, i) = l + 1
  <2> SUFFICES ASSUME i > 1
               PROVE  Announced(t, i) = l + 1
    OBVIOUS
  <2>1. partial[r][t] = l + 1
    BY <1>1 DEF Reading, TargetHasTile, t, i
  <2>2. CountsOf(t, i)
    BY <1>1, <1>2 DEF IInv, SlotsFollow
  <2>3. partial[ButterflyTarget(t, i)][t] = Announced(t, i)
    BY <2>2 DEF CountsOf
  <2> QED
    BY <1>2, <2>1, <2>3
<1>6. 2 * i < RankSize => Overwritten(t, i) <= l
  <2>1. InStepAt(r, i)
    BY <1>1 DEF IInv, InStep
  <2> QED
    BY <1>2, <1>4, <2>1 DEF InStepAt
<1>7. /\ loop[t] \in Int /\ step[t] \in Rounds /\ step[t] \in Nat \ {0}
      /\ 2 * step[t] <= RankSize
  BY <1>2, AtRank
<1>8. 2 * i <= RankSize /\ (2 * i = RankSize => RankSize \div 2 = i)
  BY <1>1, RoundFacts
<1>9. Kept(t, l) = i
  <2>1. CASE 2 * i < RankSize
    <3>1. loop[t] <= l /\ (loop[t] = l => ~(InTile(t) /\ step[t] > i))
      BY <1>1, <1>6, <1>7, <2>1 DEF Overwritten
    <3>2. CASE i = 1
      BY <1>1, <1>7, <3>1, <3>2 DEF Kept
    <3>3. CASE i > 1
      <4>1. loop[t] = l /\ InTile(t) /\ step[t] >= i
        BY <1>1, <1>5, <1>7, <3>1, <3>3 DEF Announced
      <4> QED
        BY <1>1, <1>7, <3>1, <4>1 DEF Kept
    <3> QED
      BY <1>1, <3>2, <3>3
  <2>2. CASE 2 * i = RankSize
    <3>1. CASE i = 1
      <4>1. RankSize \div 2 = 1 /\ step[t] = 1
        BY <1>7, <1>8, <2>2, <3>1
      <4> QED
        BY <3>1, <4>1 DEF Kept
    <3>2. CASE i > 1
      <4>1. \/ loop[t] = l /\ InTile(t) /\ step[t] >= i
            \/ loop[t] = l + 1
        BY <1>1, <1>5, <1>7, <3>2 DEF Announced
      <4>2. CASE loop[t] = l /\ InTile(t) /\ step[t] >= i
        <5>1. step[t] = i
          BY <1>1, <1>7, <2>2, <4>2
        <5> QED
          BY <1>1, <4>2, <5>1 DEF Kept
      <4>3. CASE loop[t] = l + 1
        BY <1>1, <1>8, <2>2, <4>3 DEF Kept
      <4> QED
        BY <4>1, <4>2, <4>3
    <3> QED
      BY <1>1, <3>1, <3>2
  <2> QED
    BY <1>1, <1>8, <2>1, <2>2
<1>10. symm[t][l] = GroupShare(t, i)
  <2>1. SymmOf(t)
    BY <1>2 DEF IInv, SumsFollow
  <2> QED
    BY <1>1, <1>3, <1>9, <2>1 DEF SymmOf
<1>11. ASSUME NEW s \in Ranks, s \div i = t \div i
       PROVE  s \in computed
  <2>1. CASE i = 1
    <3>1. s = t
      BY <1>2, <1>11, <2>1, GroupEnds
    <3> QED
      BY <1>3, <3>1
  <2>2. CASE i > 1
    <3>1. ComputedBefore(t)
      BY <1>2 DEF IInv, AllComputed
    <3>2. \/ InTile(t) /\ step[t] >= i
          \/ loop[t] = l + 1
      BY <1>1, <1>5, <1>7, <2>2 DEF Announced
    <3>3. CASE InTile(t) /\ step[t] >= i
      <4>1. s \div step[t] = t \div step[t]
        BY <1>1, <1>2, <1>7, <1>11, <3>3, GroupNests
      <4>2. s \div (2 * step[t]) = t \div (2 * step[t])
        BY <1>2, <1>7, <4>1, GroupSplits
      <4> QED
        BY <3>1, <3>3, <4>1, <4>2 DEF ComputedBefore, Held
    <3>4. CASE loop[t] = l + 1
      <4>1. loop[t] > 0
        BY <1>1, <3>4 DEF Tiles
      <4> QED
        BY <3>1, <4>1 DEF ComputedBefore
    <3> QED
      BY <3>2, <3>3, <3>4
  <2> QED
    BY <1>1, <2>1, <2>2
<1> QED
  BY <1>3, <1>4, <1>9, <1>10, <1>11 DEF i, l, t

-----------------------------------------------------------------------------
(* At the beginning nothing is computed, announced or read.                *)
THEOREM InitIInv == Init => IInv
<1> SUFFICES ASSUME Init
             PROVE  IInv
  OBVIOUS
<1> USE DEF Init
<1>1. RankSize \in Nat /\ RankSize >= 2 /\ 1 \in Rounds /\ CoreLoops \in Nat \ {0} /\ 0 # CoreLoops
  BY SizeCases, CoreLoopsAssumption DEF Rounds
<1>2. TypeOK
  <2>1. Nothing \in Shares
    BY <1>1 DEF Nothing, Shares
  <2>2. 1 \in 1..(RankSize \div 2)
    BY <1>1, RoundFacts
  <2> QED
    BY <1>1, <2>1, <2>2 DEF TypeOK
<1>3. PcsOK
  BY <1>1 DEF PcsOK
<1>4. \A r \in Ranks : ~InTile(r)
  BY DEF InTile
<1>5. SlotsFollow
  <2>1. ASSUME NEW r \in Ranks
        PROVE  ReadyOf(r)
    BY DEF ReadyOf
  <2>2. ASSUME NEW r \in Ranks, NEW i \in Rounds
        PROVE  CountsOf(r, i)
    <3>1. Reads(r, i) = 0 /\ Announced(r, i) = 0
      BY <1>4 DEF Reads, Announced
    <3> QED
      BY <3>1, TargetFacts DEF CountsOf
  <2> QED
    BY <2>1, <2>2 DEF SlotsFollow
<1>6. InStep
  <2>1. ASSUME NEW r \in Ranks, NEW i \in Rounds
        PROVE  InStepAt(r, i)
    <3>1. ButterflyTarget(r, i) \in Ranks
      BY TargetFacts
    <3>2. Reads(r, i) = 0 /\ Overwritten(ButterflyTarget(r, i), i) = 0
      BY <1>4, <3>1 DEF Reads, Overwritten
    <3> QED
      BY <3>2 DEF InStepAt
  <2> QED
    BY <2>1 DEF InStep
<1>7. SumsFollow
  <2>1. ASSUME NEW r \in Ranks
        PROVE  SymmOf(r) /\ AddUbOf(r) /\ OutOf(r)
    <3>1. \A t \in Tiles : ~(t < loop[r])
      BY DEF Tiles
    <3> QED
      BY <1>4, <3>1 DEF SymmOf, AddUbOf, OutOf
  <2> QED
    BY <2>1 DEF SumsFollow
<1>8. AllComputed
  BY <1>4 DEF AllComputed, ComputedBefore
<1> QED
  BY <1>2, <1>3, <1>5, <1>6, <1>7, <1>8 DEF IInv

(* The matmul of a rank that is stored is the sum of the group of one.     *)
LEMMA FinishMatmulKeeps ==
    ASSUME IInv, NEW r \in Ranks, FinishMatmul(r), UNCHANGED splitPath
    PROVE  IInv'
<1> USE DEF FinishMatmul
<1>1. pc[r] = "loadOwn" /\ loop[r] = 0 /\ ~InTile(r)
  BY DEF IInv, PcsOK, InTile
<1>2. \A s \in Ranks :
         /\ InTile(s)' <=> InTile(s)
         /\ \A i \in Rounds :
                /\ Reads(s, i)' = Reads(s, i)
                /\ Announced(s, i)' = Announced(s, i)
                /\ Overwritten(s, i)' = Overwritten(s, i)
         /\ Held(s)' = Held(s)
         /\ \A t \in Tiles : Kept(s, t)' = Kept(s, t)
  BY Frame
<1>3. TypeOK'
  <2>1. symm' \in [Ranks -> [Tiles -> Shares]]
    BY ShareType DEF IInv, TypeOK
  <2>2. ready' \in [Ranks -> [Ranks -> 0..1]]
    BY DEF IInv, TypeOK
  <2> QED
    BY <2>1, <2>2 DEF IInv, TypeOK
<1>4. PcsOK'
  BY DEF IInv, PcsOK
<1>5. SlotsFollow'
  <2>1. ASSUME NEW s \in Ranks
        PROVE  ReadyOf(s)'
    <3>1. ReadyOf(s)
      BY DEF IInv, SlotsFollow
    <3>2. \A u \in Ranks : ready'[u][s] = IF s = r THEN 1 ELSE ready[u][s]
      BY DEF IInv, TypeOK
    <3> QED
      BY <3>1, <3>2 DEF ReadyOf
  <2>2. ASSUME NEW s \in Ranks, NEW i \in Rounds
        PROVE  CountsOf(s, i)'
    <3>1. CountsOf(s, i)
      BY DEF IInv, SlotsFollow
    <3>2. Reads(s, i)' = Reads(s, i) /\ Announced(s, i)' = Announced(s, i)
      BY <1>2
    <3>3. ack' = ack /\ partial' = partial
      OBVIOUS
    <3> QED
      BY <3>1, <3>2, <3>3 DEF CountsOf
  <2> QED
    BY <2>1, <2>2 DEF SlotsFollow
<1>6. InStep'
  <2>1. ASSUME NEW s \in Ranks, NEW i \in Rounds
        PROVE  InStepAt(s, i)'
    <3>1. InStepAt(s, i)
      BY DEF IInv, InStep
    <3>2. Reads(s, i)' = Reads(s, i)
      BY <1>2
    <3>3. Overwritten(ButterflyTarget(s, i), i)' = Overwritten(ButterflyTarget(s, i), i)
      BY <1>2, TargetFacts
    <3> QED
      BY <3>1, <3>2, <3>3 DEF InStepAt
  <2> QED
    BY <2>1 DEF InStep
<1>7. SumsFollow'
  <2>1. ASSUME NEW s \in Ranks
        PROVE  SymmOf(s)'
    <3>1. SymmOf(s)
      BY DEF IInv, SumsFollow
    <3>2. CASE s = r
      <4>1. \A t \in Tiles : symm'[s][t] = GroupShare(s, 1)
        BY <3>2, OwnIsGroup DEF IInv, TypeOK
      <4>2. \A t \in Tiles : Kept(s, t) = 1
        BY <1>1, <3>2 DEF Kept, Tiles
      <4> QED
        BY <1>2, <3>2, <4>1, <4>2 DEF SymmOf
    <3>3. CASE s # r
      <4>1. symm'[s] = symm[s] /\ (s \in computed' <=> s \in computed)
        BY <3>3 DEF IInv, TypeOK
      <4> QED
        BY <1>2, <3>1, <4>1 DEF SymmOf
    <3> QED
      BY <3>2, <3>3
  <2>2. ASSUME NEW s \in Ranks
        PROVE  AddUbOf(s)' /\ OutOf(s)'
    <3>1. AddUbOf(s) /\ OutOf(s)
      BY DEF IInv, SumsFollow
    <3>2. addUb' = addUb /\ out' = out /\ loop' = loop
      OBVIOUS
    <3> QED
      BY <1>2, <3>1, <3>2 DEF AddUbOf, OutOf
  <2> QED
    BY <2>1, <2>2 DEF SumsFollow
<1>8. AllComputed'
  <2>1. ASSUME NEW s \in Ranks
        PROVE  ComputedBefore(s)'
    <3>1. ComputedBefore(s)
      BY DEF IInv, AllComputed
    <3>2. computed \subseteq computed' /\ computed' \subseteq Ranks /\ loop' = loop
      BY DEF IInv, TypeOK
    <3>3. (InTile(s)' <=> InTile(s)) /\ Held(s)' = Held(s)
      BY <1>2
    <3> QED
      BY <3>1, <3>2, <3>3 DEF ComputedBefore
  <2> QED
    BY <2>1 DEF AllComputed
<1> QED
  BY <1>3, <1>4, <1>5, <1>6, <1>7, <1>8 DEF IInv

(* A rank that loads its tile has read, announced and written over as much *)
(* as before.                                                              *)
LEMMA LoadOwnKeeps ==
    ASSUME IInv, NEW r \in Ranks, LoadOwn(r), UNCHANGED splitPath
    PROVE  IInv'
<1> USE DEF LoadOwn
<1>1. /\ pc[r] = "loadOwn" /\ ~InTile(r) /\ loop[r] # CoreLoops /\ loop[r] \in Tiles
      /\ loop[r] \in Int /\ RankSize >= 2 /\ 1 \in Rounds
  <2>1. RankSize >= 2 /\ 1 \in Rounds
    BY SizeCases DEF Rounds
  <2> QED
    BY <2>1, AtRank DEF InTile, Tiles
<1>2. /\ pc'[r] = "readTarget" /\ step'[r] = 1 /\ loop'[r] = loop[r] /\ InTile(r)'
      /\ Held(r)' = 1
  BY DEF IInv, TypeOK, InTile, Held
<1>3. /\ \A i \in Rounds :
           /\ i \in Nat \ {0}
           /\ Reads(r, i)' = Reads(r, i)
           /\ i > 1 => Announced(r, i)' = Announced(r, i)
           /\ Overwritten(r, i)' = Overwritten(r, i)
      /\ \A t \in Tiles : Kept(r, t)' = Kept(r, t)
  <2>1. ASSUME NEW i \in Rounds
        PROVE  /\ i \in Nat \ {0}
               /\ Reads(r, i)' = Reads(r, i)
               /\ i > 1 => Announced(r, i)' = Announced(r, i)
               /\ Overwritten(r, i)' = Overwritten(r, i)
    <3>1. i \in Nat \ {0}
      BY RoundFacts
    <3> QED
      BY <1>1, <1>2, <3>1 DEF Reads, Announced, Overwritten
  <2>2. ASSUME NEW t \in Tiles
        PROVE  Kept(r, t)' = Kept(r, t)
    BY <1>1, <1>2 DEF Kept
  <2> QED
    BY <2>1, <2>2
<1>4. \A s \in Ranks :
        s # r =>
         /\ pc'[s] = pc[s] /\ loop'[s] = loop[s] /\ step'[s] = step[s]
         /\ InTile(s)' <=> InTile(s)
         /\ \A i \in Rounds :
                /\ Reads(s, i)' = Reads(s, i)
                /\ Announced(s, i)' = Announced(s, i)
                /\ Overwritten(s, i)' = Overwritten(s, i)
         /\ Held(s)' = Held(s)
         /\ \A t \in Tiles : Kept(s, t)' = Kept(s, t)
  <2>1. ASSUME NEW s \in Ranks, s # r
        PROVE  pc'[s] = pc[s] /\ loop'[s] = loop[s] /\ step'[s] = step[s]
    BY <2>1 DEF IInv, TypeOK
  <2> QED
    BY <2>1, Frame
<1>5. r \in computed
  <2>1. ready[r][r] = 1 /\ ReadyOf(r)
    BY DEF IInv, SlotsFollow
  <2> QED
    BY <2>1 DEF ReadyOf
<1>6. addUb'[r] = GroupShare(r, 1)
  <2>1. addUb'[r] = symm[r][loop[r]]
    BY DEF IInv, TypeOK
  <2>2. symm[r][loop[r]] = GroupShare(r, Kept(r, loop[r]))
    BY <1>1, <1>5 DEF IInv, SumsFollow, SymmOf
  <2>3. Kept(r, loop[r]) = 1
    BY <1>1 DEF Kept
  <2> QED
    BY <2>1, <2>2, <2>3
<1>7. TypeOK'
  <2>1. addUb' \in [Ranks -> Shares]
    BY <1>1 DEF IInv, TypeOK
  <2>2. step' \in [Ranks -> 1..(RankSize \div 2)]
    BY <1>1, RoundFacts DEF IInv, TypeOK
  <2>3. pc' \in [Ranks -> {"loadOwn", "readTarget", "writePartial", "store", "done"}]
    BY DEF IInv, TypeOK
  <2> QED
    BY <2>1, <2>2, <2>3 DEF IInv, TypeOK
<1>8. PcsOK'
  <2>1. ASSUME NEW s \in Ranks
        PROVE  /\ step'[s] \in Rounds
               /\ pc'[s] = "writePartial" => 2 * step'[s] < RankSize
               /\ pc'[s] = "store" => 2 * step'[s] = RankSize
               /\ pc'[s] = "done" <=> loop'[s] = CoreLoops
               /\ s \notin computed => pc'[s] = "loadOwn" /\ loop'[s] = 0
    <3>1. CASE s = r
      BY <1>1, <1>2, <1>5, <3>1
    <3>2. CASE s # r
      BY <1>4, <3>2 DEF IInv, PcsOK
    <3> QED
      BY <3>1, <3>2
  <2> QED
    BY <2>1 DEF PcsOK
<1>9. SlotsFollow'
  <2>1. ASSUME NEW s \in Ranks
        PROVE  ReadyOf(s)'
    BY DEF IInv, SlotsFollow, ReadyOf
  <2>2. ASSUME NEW s \in Ranks, NEW i \in Rounds
        PROVE  CountsOf(s, i)'
    <3>1. CountsOf(s, i)
      BY DEF IInv, SlotsFollow
    <3>2. Reads(s, i)' = Reads(s, i) /\ (i > 1 => Announced(s, i)' = Announced(s, i))
      BY <1>3, <1>4
    <3>3. ack' = ack /\ partial' = partial
      OBVIOUS
    <3> QED
      BY <3>1, <3>2, <3>3 DEF CountsOf
  <2> QED
    BY <2>1, <2>2 DEF SlotsFollow
<1>10. InStep'
  <2>1. ASSUME NEW s \in Ranks, NEW i \in Rounds
        PROVE  InStepAt(s, i)'
    <3>1. InStepAt(s, i)
      BY DEF IInv, InStep
    <3>2. Reads(s, i)' = Reads(s, i)
      BY <1>3, <1>4
    <3>3. Overwritten(ButterflyTarget(s, i), i)' = Overwritten(ButterflyTarget(s, i), i)
      BY <1>3, <1>4, TargetFacts
    <3> QED
      BY <3>1, <3>2, <3>3 DEF InStepAt
  <2> QED
    BY <2>1 DEF InStep
<1>11. SumsFollow'
  <2>1. ASSUME NEW s \in Ranks
        PROVE  SymmOf(s)' /\ OutOf(s)'
    <3>1. SymmOf(s) /\ OutOf(s)
      BY DEF IInv, SumsFollow
    <3>2. symm' = symm /\ computed' = computed /\ out' = out /\ loop' = loop
      OBVIOUS
    <3>3. \A t \in Tiles : Kept(s, t)' = Kept(s, t)
      BY <1>3, <1>4
    <3> QED
      BY <3>1, <3>2, <3>3 DEF SymmOf, OutOf
  <2>2. ASSUME NEW s \in Ranks
        PROVE  AddUbOf(s)'
    <3>1. CASE s = r
      BY <1>2, <1>6, <3>1 DEF AddUbOf
    <3>2. CASE s # r
      <4>1. addUb'[s] = addUb[s] /\ AddUbOf(s)
        BY <3>2 DEF IInv, TypeOK, SumsFollow
      <4> QED
        BY <1>4, <3>2, <4>1 DEF AddUbOf
    <3> QED
      BY <3>1, <3>2
  <2> QED
    BY <2>1, <2>2 DEF SumsFollow
<1>12. AllComputed'
  <2>1. ASSUME NEW s \in Ranks
        PROVE  ComputedBefore(s)'
    <3>1. ComputedBefore(s)
      BY DEF IInv, AllComputed
    <3>2. computed' = computed /\ loop' = loop
      OBVIOUS
    <3>3. CASE s = r
      <4>1. \A u \in Ranks : u \div 1 = r \div 1 => u \in computed
        BY <1>5, GroupEnds
      <4> QED
        BY <1>2, <3>1, <3>2, <3>3, <4>1 DEF ComputedBefore
    <3>4. CASE s # r
      BY <1>4, <3>1, <3>2, <3>4 DEF ComputedBefore
    <3> QED
      BY <3>3, <3>4
  <2> QED
    BY <2>1 DEF AllComputed
<1> QED
  BY <1>7, <1>8, <1>9, <1>10, <1>11, <1>12 DEF IInv

(* What a step of rank r leaves as it is at the other ranks.               *)
LEMMA OthersStay ==
    ASSUME IInv, NEW r \in Ranks, ReadTarget(r) \/ WritePartial(r) \/ Store(r)
    PROVE  \A s \in Ranks :
             s # r =>
               /\ pc'[s] = pc[s] /\ loop'[s] = loop[s] /\ step'[s] = step[s]
               /\ addUb'[s] = addUb[s] /\ symm'[s] = symm[s] /\ out'[s] = out[s]
               /\ InTile(s)' <=> InTile(s)
               /\ \A i \in Rounds :
                      /\ Reads(s, i)' = Reads(s, i)
                      /\ Announced(s, i)' = Announced(s, i)
                      /\ Overwritten(s, i)' = Overwritten(s, i)
               /\ Held(s)' = Held(s)
               /\ \A t \in Tiles : Kept(s, t)' = Kept(s, t)
<1>1. ASSUME NEW s \in Ranks, s # r
      PROVE  /\ pc'[s] = pc[s] /\ loop'[s] = loop[s] /\ step'[s] = step[s]
             /\ addUb'[s] = addUb[s] /\ symm'[s] = symm[s] /\ out'[s] = out[s]
  <2>1. CASE ReadTarget(r)
    BY <1>1, <2>1 DEF ReadTarget, IInv, TypeOK
  <2>2. CASE WritePartial(r)
    BY <1>1, <2>2 DEF WritePartial, IInv, TypeOK
  <2>3. CASE Store(r)
    BY <1>1, <2>3 DEF Store, IInv, TypeOK
  <2> QED
    BY <2>1, <2>2, <2>3
<1> QED
  BY <1>1, Frame

(* The rank that has read its target holds the sum of the group of twice   *)
(* the size.                                                               *)
LEMMA ReadTargetKeeps ==
    ASSUME TilesAreToldApart, IInv, NEW r \in Ranks, ReadTarget(r), UNCHANGED splitPath
    PROVE  IInv'
<1> DEFINE i == step[r]
           l == loop[r]
           t == Target(r)
<1> HIDE DEF i, l, t
<1>1. Reading(r) /\ pc[r] = "readTarget" /\ InTile(r) /\ InTile(r)'
  <2>1. pc'[r] \in {"store", "writePartial"}
    BY DEF ReadTarget, IInv, TypeOK
  <2> QED
    BY <2>1 DEF ReadTarget, Reading, InTile
<1>2. /\ i \in Rounds /\ i \in Nat \ {0} /\ l \in Tiles /\ l \in Int /\ r \in computed
      /\ RankSize \in Nat /\ 2 * i <= RankSize /\ l + 1 \in 0..CoreLoops
      /\ Signalled(l) = l + 1 /\ Expected(r) = l + 1
      /\ l # CoreLoops
  BY <1>1, AtRank, Signals DEF i, l, IInv
<1>3. t \in Ranks /\ t = ButterflyTarget(r, i) /\ ButterflyTarget(t, i) = r
  BY <1>2, TargetFacts DEF Target, t, i
<1>4. /\ t \in computed
      /\ symm[t][l] = GroupShare(t, i)
      /\ \A s \in Ranks : s \div i = t \div i => s \in computed
      /\ Reads(r, i) = l
  BY <1>1, ReadingFacts DEF i, l, t
<1>5. /\ loop' = loop /\ step' = step /\ symm' = symm /\ out' = out /\ computed' = computed
      /\ ready' = ready /\ partial' = partial
      /\ step'[r] = i /\ loop'[r] = l
      /\ pc'[r] = IF 2 * i = RankSize THEN "store" ELSE "writePartial"
      /\ Held(r) = i /\ Held(r)' = 2 * i
  <2>1. pc'[r] = IF 2 * i >= RankSize THEN "store" ELSE "writePartial"
    BY DEF ReadTarget, IInv, TypeOK, IsLastStep, i
  <2> QED
    BY <1>1, <1>2, <2>1 DEF ReadTarget, Held, i, l
<1>6. /\ \A j \in Rounds :
           /\ Reads(r, j)' = IF j = i THEN l + 1 ELSE Reads(r, j)
           /\ Announced(r, j)' = Announced(r, j)
           /\ Overwritten(r, j)' = Overwritten(r, j)
      /\ \A u \in Tiles : Kept(r, u)' = Kept(r, u)
  <2>1. ASSUME NEW j \in Rounds
        PROVE  /\ Reads(r, j)' = IF j = i THEN l + 1 ELSE Reads(r, j)
               /\ Announced(r, j)' = Announced(r, j)
               /\ Overwritten(r, j)' = Overwritten(r, j)
    <3>1. j \in Nat \ {0} /\ pc'[r] # "readTarget"
      BY <1>5, RoundFacts
    <3> QED
      BY <1>1, <1>2, <1>5, <3>1 DEF Reads, Announced, Overwritten, i, l
  <2>2. ASSUME NEW u \in Tiles
        PROVE  Kept(r, u)' = Kept(r, u)
    BY <1>1, <1>5 DEF Kept
  <2> QED
    BY <2>1, <2>2
<1>7. /\ \A s \in Ranks : s # r =>
           /\ pc'[s] = pc[s] /\ addUb'[s] = addUb[s]
           /\ InTile(s)' <=> InTile(s)
           /\ \A j \in Rounds :
                  /\ Reads(s, j)' = Reads(s, j)
                  /\ Announced(s, j)' = Announced(s, j)
                  /\ Overwritten(s, j)' = Overwritten(s, j)
           /\ Held(s)' = Held(s)
           /\ \A u \in Tiles : Kept(s, u)' = Kept(s, u)
  BY OthersStay
<1>8. addUb'[r] = GroupShare(r, 2 * i) /\ addUb' \in [Ranks -> Shares]
  <2>1. addUb' = [addUb EXCEPT ![r] = Add(addUb[r], symm[t][l])]
    BY DEF ReadTarget, t, l
  <2>2. addUb[r] = GroupShare(r, i)
    BY <1>1, <1>5 DEF IInv, SumsFollow, AddUbOf
  <2>3. Add(addUb[r], symm[t][l]) = GroupShare(r, 2 * i)
    BY <1>2, <1>3, <1>4, <2>2, GroupsAdd
  <2> QED
    BY <2>1, <2>3, ShareType DEF IInv, TypeOK
<1>9. /\ \A u, s \in Ranks : ack'[u][s] = IF u = t /\ s = r THEN l + 1 ELSE ack[u][s]
      /\ ack' \in [Ranks -> [Ranks -> 0..CoreLoops]]
  <2>1. ack' = [ack EXCEPT ![t][r] = Signalled(ack[t][r])]
    BY DEF ReadTarget, t
  <2>2. ack[t][r] = l
    <3>1. CountsOf(r, i)
      BY <1>2 DEF IInv, SlotsFollow
    <3> QED
      BY <1>3, <1>4, <3>1 DEF CountsOf
  <2>3. ack' = [ack EXCEPT ![t][r] = l + 1]
    BY <1>2, <2>1, <2>2
  <2>4. ack \in [Ranks -> [Ranks -> 0..CoreLoops]]
    BY DEF IInv, TypeOK
  <2> QED
    BY <1>2, <1>3, <2>3, <2>4
<1>10. TypeOK'
  <2>1. pc' \in [Ranks -> {"loadOwn", "readTarget", "writePartial", "store", "done"}]
    BY DEF IInv, TypeOK, ReadTarget
  <2> QED
    BY <1>5, <1>8, <1>9, <2>1 DEF IInv, TypeOK
<1>11. PcsOK'
  <2>1. ASSUME NEW s \in Ranks
        PROVE  /\ step'[s] \in Rounds
               /\ pc'[s] = "writePartial" => 2 * step'[s] < RankSize
               /\ pc'[s] = "store" => 2 * step'[s] = RankSize
               /\ pc'[s] = "done" <=> loop'[s] = CoreLoops
               /\ s \notin computed' => pc'[s] = "loadOwn" /\ loop'[s] = 0
    <3>1. CASE s = r
      BY <1>2, <1>5, <3>1
    <3>2. CASE s # r
      BY <1>5, <1>7, <3>2 DEF IInv, PcsOK
    <3> QED
      BY <3>1, <3>2
  <2> QED
    BY <2>1 DEF PcsOK
<1>12. SlotsFollow'
  <2>1. ASSUME NEW s \in Ranks
        PROVE  ReadyOf(s)'
    BY <1>5 DEF IInv, SlotsFollow, ReadyOf
  <2>2. ASSUME NEW s \in Ranks, NEW j \in Rounds
        PROVE  CountsOf(s, j)'
    <3> DEFINE b == ButterflyTarget(s, j)
    <3> HIDE DEF b
    <3>1. ack[b][s] = Reads(s, j) /\ (j > 1 => partial[b][s] = Announced(s, j))
      BY DEF IInv, SlotsFollow, CountsOf, b
    <3>2. b \in Ranks
      BY TargetFacts DEF b
    <3>3. Announced(s, j)' = Announced(s, j)
      BY <1>6, <1>7
    <3>4. ack'[b][s] = Reads(s, j)'
      <4>1. CASE s = r /\ j = i
        <5>1. b = t
          BY <1>3, <4>1 DEF b
        <5> QED
          BY <1>6, <1>9, <3>2, <4>1, <5>1
      <4>2. CASE s = r /\ j # i
        <5>1. b # t
          BY <1>2, <1>3, <4>2, TargetsDiffer DEF b
        <5> QED
          BY <1>6, <1>9, <3>1, <3>2, <4>2, <5>1
      <4>3. CASE s # r
        BY <1>7, <1>9, <3>1, <3>2, <4>3
      <4> QED
        BY <4>1, <4>2, <4>3
    <3> QED
      BY <1>5, <3>1, <3>3, <3>4 DEF CountsOf, b
  <2> QED
    BY <2>1, <2>2 DEF SlotsFollow
<1>13. InStep'
  <2>1. ASSUME NEW s \in Ranks, NEW j \in Rounds
        PROVE  InStepAt(s, j)'
    <3> DEFINE b == ButterflyTarget(s, j)
    <3> HIDE DEF b
    <3>1. 2 * j < RankSize => Overwritten(b, j) <= Reads(s, j)
      BY DEF IInv, InStep, InStepAt, b
    <3>2. b \in Ranks
      BY TargetFacts DEF b
    <3>3. Overwritten(b, j)' = Overwritten(b, j)
      BY <1>6, <1>7, <3>2
    <3>4. Reads(s, j)' = Reads(s, j) \/ (Reads(s, j) = l /\ Reads(s, j)' = l + 1)
      BY <1>4, <1>6, <1>7
    <3>5. Overwritten(b, j) \in Int
      <4>1. loop[b] \in Int
        BY <3>2, AtRank
      <4> QED
        BY <4>1 DEF Overwritten
    <3> QED
      BY <1>2, <3>1, <3>3, <3>4, <3>5 DEF InStepAt, b
  <2> QED
    BY <2>1 DEF InStep
<1>14. SumsFollow'
  <2>1. ASSUME NEW s \in Ranks
        PROVE  SymmOf(s)' /\ OutOf(s)'
    <3>1. SymmOf(s) /\ OutOf(s)
      BY DEF IInv, SumsFollow
    <3>2. \A u \in Tiles : Kept(s, u)' = Kept(s, u)
      BY <1>6, <1>7
    <3> QED
      BY <1>5, <3>1, <3>2 DEF SymmOf, OutOf
  <2>2. ASSUME NEW s \in Ranks
        PROVE  AddUbOf(s)'
    <3>1. CASE s = r
      BY <1>5, <1>8, <3>1 DEF AddUbOf
    <3>2. CASE s # r
      <4>1. addUb'[s] = addUb[s] /\ AddUbOf(s)
        BY <1>7, <3>2 DEF IInv, SumsFollow
      <4> QED
        BY <1>7, <3>2, <4>1 DEF AddUbOf
    <3> QED
      BY <3>1, <3>2
  <2> QED
    BY <2>1, <2>2 DEF SumsFollow
<1>15. AllComputed'
  <2>1. ASSUME NEW s \in Ranks
        PROVE  ComputedBefore(s)'
    <3>1. ComputedBefore(s)
      BY DEF IInv, AllComputed
    <3>2. CASE s = r
      <4>1. ASSUME NEW u \in Ranks, u \div (2 * i) = r \div (2 * i)
            PROVE  u \in computed
        <5>1. u \div i = r \div i \/ u \div i = t \div i
          BY <1>2, <1>3, <4>1, GroupSplits
        <5>2. u \div i = r \div i => u \in computed
          BY <1>1, <1>5, <3>1, <3>2 DEF ComputedBefore
        <5> QED
          BY <1>4, <5>1, <5>2
      <4> QED
        BY <1>5, <3>1, <3>2, <4>1 DEF ComputedBefore
    <3>3. CASE s # r
      BY <1>5, <1>7, <3>1, <3>3 DEF ComputedBefore
    <3> QED
      BY <3>2, <3>3
  <2> QED
    BY <2>1 DEF AllComputed
<1> QED
  BY <1>10, <1>11, <1>12, <1>13, <1>14, <1>15 DEF IInv

(* The rank that has written its sum over its tile has announced it to the *)
(* reader of the next round, and the reader of this round has read it.     *)
LEMMA WritePartialKeeps ==
    ASSUME TilesAreToldApart, IInv, NEW r \in Ranks, WritePartial(r), UNCHANGED splitPath
    PROVE  IInv'
<1> DEFINE i == step[r]
           l == loop[r]
           t == Target(r)
           n == NextTarget(r)
<1> HIDE DEF i, l, t, n
<1>1. pc[r] = "writePartial" /\ pc'[r] = "readTarget" /\ InTile(r) /\ InTile(r)'
  BY DEF WritePartial, IInv, TypeOK, InTile
<1>2. /\ i \in Rounds /\ i \in Nat \ {0} /\ l \in Tiles /\ l \in Int /\ r \in computed
      /\ RankSize \in Nat /\ 2 * i < RankSize /\ l + 1 \in 0..CoreLoops
      /\ Signalled(l) = l + 1 /\ Expected(r) = l + 1
      /\ l # CoreLoops /\ 2 * i \in Rounds
  <2>1. 2 * i < RankSize
    BY <1>1 DEF IInv, PcsOK, i
  <2> QED
    BY <1>1, <2>1, AtRank, Signals, RoundFacts DEF i, l, IInv
<1>3. /\ t \in Ranks /\ t = ButterflyTarget(r, i) /\ ButterflyTarget(t, i) = r
      /\ n \in Ranks /\ n = ButterflyTarget(r, 2 * i)
  BY <1>2, TargetFacts DEF Target, NextTarget, t, i, n
<1>4. /\ loop' = loop /\ addUb' = addUb /\ out' = out /\ computed' = computed
      /\ ready' = ready /\ ack' = ack
      /\ step'[r] = 2 * i /\ loop'[r] = l
      /\ Held(r) = 2 * i /\ Held(r)' = 2 * i
  <2>1. step'[r] = 2 * i
    BY DEF WritePartial, IInv, TypeOK, i
  <2> QED
    BY <1>1, <2>1 DEF WritePartial, Held, i, l
<1>5. \A j \in Rounds :
           /\ j \in Nat \ {0}
           /\ Reads(r, j)' = Reads(r, j)
           /\ j # 2 * i => Announced(r, j)' = Announced(r, j)
           /\ j = 2 * i => Announced(r, j) = l /\ Announced(r, j)' = l + 1
           /\ j # i => Overwritten(r, j)' = Overwritten(r, j)
           /\ j = i => Overwritten(r, j)' = l + 1
  <2>1. ASSUME NEW j \in Rounds
        PROVE  /\ j \in Nat \ {0}
               /\ Reads(r, j)' = Reads(r, j)
               /\ j # 2 * i => Announced(r, j)' = Announced(r, j)
               /\ j = 2 * i => Announced(r, j) = l /\ Announced(r, j)' = l + 1
               /\ j # i => Overwritten(r, j)' = Overwritten(r, j)
               /\ j = i => Overwritten(r, j)' = l + 1
    <3>1. j \in Nat \ {0} /\ (i < j => 2 * i <= j)
      BY <1>2, RoundFacts, RoundOrder
    <3>2. Reads(r, j) = l + (IF i >= j THEN 1 ELSE 0)
      BY <1>1, <1>2, <3>1 DEF Reads, i, l
    <3>3. Reads(r, j)' = l + (IF 2 * i > j THEN 1 ELSE 0)
      BY <1>1, <1>4 DEF Reads
    <3>4. Announced(r, j) = l + (IF i >= j THEN 1 ELSE 0)
      BY <1>1 DEF Announced, i, l
    <3>5. Announced(r, j)' = l + (IF 2 * i >= j THEN 1 ELSE 0)
      BY <1>1, <1>4 DEF Announced
    <3>6. Overwritten(r, j) = l + (IF i > j THEN 1 ELSE 0)
      BY <1>1 DEF Overwritten, i, l
    <3>7. Overwritten(r, j)' = l + (IF 2 * i > j THEN 1 ELSE 0)
      BY <1>1, <1>4 DEF Overwritten
    <3> QED
      BY <1>2, <3>1, <3>2, <3>3, <3>4, <3>5, <3>6, <3>7
  <2> QED
    BY <2>1
<1>6. \A s \in Ranks : s # r =>
           /\ pc'[s] = pc[s] /\ step'[s] = step[s] /\ symm'[s] = symm[s]
           /\ InTile(s)' <=> InTile(s)
           /\ \A j \in Rounds :
                  /\ Reads(s, j)' = Reads(s, j)
                  /\ Announced(s, j)' = Announced(s, j)
                  /\ Overwritten(s, j)' = Overwritten(s, j)
           /\ Held(s)' = Held(s)
           /\ \A u \in Tiles : Kept(s, u)' = Kept(s, u)
  BY OthersStay
<1>7. /\ symm'[r][l] = GroupShare(r, 2 * i)
      /\ \A u \in Tiles : u # l => symm'[r][u] = symm[r][u]
      /\ symm' \in [Ranks -> [Tiles -> Shares]]
  <2>1. symm' = [symm EXCEPT ![r][l] = addUb[r]]
    BY DEF WritePartial, l
  <2>2. addUb[r] = GroupShare(r, 2 * i)
    BY <1>1, <1>4 DEF IInv, SumsFollow, AddUbOf
  <2>3. symm \in [Ranks -> [Tiles -> Shares]]
    BY DEF IInv, TypeOK
  <2> QED
    BY <1>2, <2>1, <2>2, <2>3, ShareType
<1>8. /\ \A u, s \in Ranks : partial'[u][s] = IF u = n /\ s = r THEN l + 1 ELSE partial[u][s]
      /\ partial' \in [Ranks -> [Ranks -> 0..CoreLoops]]
  <2>1. partial' = [partial EXCEPT ![n][r] = Signalled(partial[n][r])]
    BY DEF WritePartial, AnnouncePartial, n
  <2>2. partial[n][r] = l
    <3>1. CountsOf(r, 2 * i) /\ 2 * i > 1
      BY <1>2 DEF IInv, SlotsFollow
    <3> QED
      BY <1>2, <1>3, <1>5, <3>1 DEF CountsOf
  <2>3. partial' = [partial EXCEPT ![n][r] = l + 1]
    BY <1>2, <2>1, <2>2
  <2>4. partial \in [Ranks -> [Ranks -> 0..CoreLoops]]
    BY DEF IInv, TypeOK
  <2> QED
    BY <1>2, <1>3, <2>3, <2>4
<1>9. Reads(t, i) = l + 1
  <2>1. ack[r][t] = l + 1
    BY <1>2 DEF WritePartial, ReaderIsDone, t
  <2>2. CountsOf(t, i)
    BY <1>2, <1>3 DEF IInv, SlotsFollow
  <2> QED
    BY <1>3, <2>1, <2>2 DEF CountsOf
<1>10. TypeOK'
  <2>1. pc' \in [Ranks -> {"loadOwn", "readTarget", "writePartial", "store", "done"}]
    BY DEF IInv, TypeOK, WritePartial
  <2>2. step' \in [Ranks -> 1..(RankSize \div 2)]
    <3>1. step' = [step EXCEPT ![r] = 2 * i]
      BY DEF WritePartial, i
    <3> QED
      BY <1>2, <3>1, RoundFacts DEF IInv, TypeOK
  <2> QED
    BY <1>4, <1>7, <1>8, <2>1, <2>2 DEF IInv, TypeOK
<1>11. PcsOK'
  <2>1. ASSUME NEW s \in Ranks
        PROVE  /\ step'[s] \in Rounds
               /\ pc'[s] = "writePartial" => 2 * step'[s] < RankSize
               /\ pc'[s] = "store" => 2 * step'[s] = RankSize
               /\ pc'[s] = "done" <=> loop'[s] = CoreLoops
               /\ s \notin computed' => pc'[s] = "loadOwn" /\ loop'[s] = 0
    <3>1. CASE s = r
      BY <1>1, <1>2, <1>4, <3>1
    <3>2. CASE s # r
      BY <1>4, <1>6, <3>2 DEF IInv, PcsOK
    <3> QED
      BY <3>1, <3>2
  <2> QED
    BY <2>1 DEF PcsOK
<1>12. SlotsFollow'
  <2>1. ASSUME NEW s \in Ranks
        PROVE  ReadyOf(s)'
    BY <1>4 DEF IInv, SlotsFollow, ReadyOf
  <2>2. ASSUME NEW s \in Ranks, NEW j \in Rounds
        PROVE  CountsOf(s, j)'
    <3> DEFINE b == ButterflyTarget(s, j)
    <3> HIDE DEF b
    <3>1. ack[b][s] = Reads(s, j) /\ (j > 1 => partial[b][s] = Announced(s, j))
      BY DEF IInv, SlotsFollow, CountsOf, b
    <3>2. b \in Ranks
      BY TargetFacts DEF b
    <3>3. Reads(s, j)' = Reads(s, j)
      BY <1>5, <1>6
    <3>4. j > 1 => partial'[b][s] = Announced(s, j)'
      <4>1. CASE s = r /\ j = 2 * i
        <5>1. b = n
          BY <1>3, <4>1 DEF b
        <5> QED
          BY <1>5, <1>8, <3>2, <4>1, <5>1
      <4>2. CASE s = r /\ j # 2 * i
        <5>1. b # n
          BY <1>2, <1>3, <4>2, TargetsDiffer DEF b
        <5> QED
          BY <1>5, <1>8, <3>1, <3>2, <4>2, <5>1
      <4>3. CASE s # r
        BY <1>6, <1>8, <3>1, <3>2, <4>3
      <4> QED
        BY <4>1, <4>2, <4>3
    <3> QED
      BY <1>4, <3>1, <3>3, <3>4 DEF CountsOf, b
  <2> QED
    BY <2>1, <2>2 DEF SlotsFollow
<1>13. InStep'
  <2>1. ASSUME NEW s \in Ranks, NEW j \in Rounds
        PROVE  InStepAt(s, j)'
    <3> DEFINE b == ButterflyTarget(s, j)
    <3> HIDE DEF b
    <3>1. 2 * j < RankSize => Overwritten(b, j) <= Reads(s, j)
      BY DEF IInv, InStep, InStepAt, b
    <3>2. b \in Ranks /\ ButterflyTarget(b, j) = s
      BY TargetFacts DEF b
    <3>3. Reads(s, j)' = Reads(s, j)
      BY <1>5, <1>6
    <3>4. 2 * j < RankSize => Overwritten(b, j)' <= Reads(s, j)
      <4>1. CASE b = r /\ j = i
        <5>1. s = t
          BY <1>3, <3>2, <4>1
        <5> QED
          BY <1>2, <1>5, <1>9, <4>1, <5>1
      <4>2. CASE ~(b = r /\ j = i)
        BY <1>5, <1>6, <3>1, <3>2, <4>2
      <4> QED
        BY <4>1, <4>2
    <3> QED
      BY <3>3, <3>4 DEF InStepAt, b
  <2> QED
    BY <2>1 DEF InStep
<1>14. SumsFollow'
  <2>1. ASSUME NEW s \in Ranks
        PROVE  SymmOf(s)'
    <3>1. SymmOf(s)
      BY DEF IInv, SumsFollow
    <3>2. CASE s = r
      <4>1. ASSUME NEW u \in Tiles
            PROVE  symm'[r][u] = GroupShare(r, Kept(r, u)')
        <5>1. CASE u = l
          <6>1. Kept(r, u)' = 2 * i
            BY <1>1, <1>2, <1>4, <5>1 DEF Kept
          <6> QED
            BY <1>7, <5>1, <6>1
        <5>2. CASE u # l
          <6>1. Kept(r, u)' = Kept(r, u)
            BY <1>4, <5>2 DEF Kept, l
          <6> QED
            BY <1>2, <1>7, <3>1, <3>2, <5>2, <6>1 DEF SymmOf
        <5> QED
          BY <5>1, <5>2
      <4> QED
        BY <1>2, <1>4, <3>2, <4>1 DEF SymmOf
    <3>3. CASE s # r
      BY <1>4, <1>6, <3>1, <3>3 DEF SymmOf
    <3> QED
      BY <3>2, <3>3
  <2>2. ASSUME NEW s \in Ranks
        PROVE  OutOf(s)'
    BY <1>4 DEF OutOf, IInv, SumsFollow
  <2>3. ASSUME NEW s \in Ranks
        PROVE  AddUbOf(s)'
    <3>1. AddUbOf(s) /\ addUb' = addUb
      BY <1>4 DEF IInv, SumsFollow
    <3>2. Held(s)' = Held(s) /\ (InTile(s)' <=> InTile(s))
      BY <1>1, <1>4, <1>6
    <3> QED
      BY <3>1, <3>2 DEF AddUbOf
  <2> QED
    BY <2>1, <2>2, <2>3 DEF SumsFollow
<1>15. AllComputed'
  <2>1. ASSUME NEW s \in Ranks
        PROVE  ComputedBefore(s)'
    <3>1. ComputedBefore(s) /\ computed' = computed /\ loop' = loop
      BY <1>4 DEF IInv, AllComputed
    <3>2. Held(s)' = Held(s) /\ (InTile(s)' <=> InTile(s))
      BY <1>1, <1>4, <1>6
    <3> QED
      BY <3>1, <3>2 DEF ComputedBefore
  <2> QED
    BY <2>1 DEF AllComputed
<1> QED
  BY <1>10, <1>11, <1>12, <1>13, <1>14, <1>15 DEF IInv

(* The sum that is delivered is that of all ranks.                         *)
LEMMA StoringFacts ==
    ASSUME IInv, NEW r \in Ranks, pc[r] = "store"
    PROVE  /\ 2 * step[r] = RankSize
           /\ addUb[r] = [s \in Ranks |-> 1]
           /\ computed = Ranks
<1>1. InTile(r) /\ Held(r) = 2 * step[r] /\ 2 * step[r] = RankSize
  BY DEF InTile, Held, IInv, PcsOK
<1>2. addUb[r] = GroupShare(r, RankSize)
  BY <1>1 DEF IInv, SumsFollow, AddUbOf
<1>3. ASSUME NEW s \in Ranks
      PROVE  s \in computed
  <2>1. s \div RankSize = r \div RankSize
    BY GroupEnds
  <2> QED
    BY <1>1, <2>1 DEF IInv, AllComputed, ComputedBefore
<1> QED
  BY <1>1, <1>2, <1>3, WholeGroup DEF IInv, TypeOK

(* The rank that has delivered a tile has done with it all the rounds ask  *)
(* for.                                                                    *)
LEMMA StoreKeeps ==
    ASSUME IInv, NEW r \in Ranks, Store(r), UNCHANGED splitPath
    PROVE  IInv'
<1> DEFINE i == step[r]
           l == loop[r]
<1> HIDE DEF i, l
<1>1. /\ pc[r] = "store" /\ InTile(r) /\ ~InTile(r)'
      /\ pc'[r] = IF l + 1 < CoreLoops THEN "loadOwn" ELSE "done"
  BY DEF Store, IInv, TypeOK, InTile, l
<1>2. /\ i \in Rounds /\ i \in Nat \ {0} /\ l \in Tiles /\ l \in Int /\ r \in computed
      /\ RankSize \in Nat /\ 2 * i = RankSize /\ l + 1 \in 0..CoreLoops
      /\ l # CoreLoops /\ CoreLoops \in Nat \ {0} /\ RankSize \div 2 = i
  <2>1. /\ i \in Rounds /\ i \in Nat \ {0} /\ r \in computed /\ RankSize \in Nat
        /\ l \in 0..CoreLoops /\ l # CoreLoops /\ CoreLoops \in Nat \ {0}
    BY <1>1, AtRank DEF i, l
  <2>2. 2 * i = RankSize
    BY <1>1, StoringFacts DEF i
  <2>3. RankSize \div 2 = i
    BY <2>1, <2>2, RoundFacts
  <2> QED
    BY <2>1, <2>2, <2>3 DEF Tiles
<1>3. /\ step' = step /\ addUb' = addUb /\ symm' = symm /\ computed' = computed
      /\ ready' = ready /\ ack' = ack /\ partial' = partial
      /\ step'[r] = i /\ loop'[r] = l + 1
      /\ loop' \in [Ranks -> 0..CoreLoops]
  BY <1>2 DEF Store, IInv, TypeOK, i, l
<1>4. \A j \in Rounds :
           /\ Reads(r, j)' = Reads(r, j)
           /\ Announced(r, j)' = Announced(r, j)
           /\ 2 * j < RankSize => Overwritten(r, j)' = Overwritten(r, j)
  <2>1. ASSUME NEW j \in Rounds
        PROVE  /\ Reads(r, j)' = Reads(r, j)
               /\ Announced(r, j)' = Announced(r, j)
               /\ 2 * j < RankSize => Overwritten(r, j)' = Overwritten(r, j)
    <3>1. j \in Nat \ {0} /\ i >= j /\ (2 * j < RankSize => i > j)
      <4>1. j \in Nat \ {0} /\ 2 * j <= RankSize
        BY RoundFacts
      <4> QED
        BY <1>2, <4>1
    <3> QED
      BY <1>1, <1>2, <1>3, <3>1 DEF Reads, Announced, Overwritten, i, l
  <2> QED
    BY <2>1
<1>5. \A u \in Tiles : Kept(r, u)' = Kept(r, u)
  <2>1. ASSUME NEW u \in Tiles
        PROVE  Kept(r, u)' = Kept(r, u)
    <3>1. u \in Int
      BY DEF Tiles
    <3>2. Kept(r, u) = IF u < l THEN i ELSE IF u = l THEN i ELSE 1
      BY <1>1, <1>2 DEF Kept, i, l
    <3>3. Kept(r, u)' = IF u < l + 1 THEN i ELSE 1
      BY <1>1, <1>2, <1>3 DEF Kept
    <3> QED
      BY <1>2, <3>1, <3>2, <3>3
  <2> QED
    BY <2>1
<1>6. \A s \in Ranks : s # r =>
           /\ pc'[s] = pc[s] /\ loop'[s] = loop[s] /\ out'[s] = out[s]
           /\ InTile(s)' <=> InTile(s)
           /\ \A j \in Rounds :
                  /\ Reads(s, j)' = Reads(s, j)
                  /\ Announced(s, j)' = Announced(s, j)
                  /\ Overwritten(s, j)' = Overwritten(s, j)
           /\ Held(s)' = Held(s)
           /\ \A u \in Tiles : Kept(s, u)' = Kept(s, u)
  BY OthersStay
<1>7. /\ out'[r][l] = GroupShare(r, RankSize)
      /\ \A u \in Tiles : u # l => out'[r][u] = out[r][u]
      /\ out' \in [Ranks -> [Tiles -> Shares]]
  <2>1. out' = [out EXCEPT ![r][l] = addUb[r]]
    BY DEF Store, l
  <2>2. addUb[r] = GroupShare(r, RankSize)
    BY <1>1, StoringFacts, WholeGroup
  <2>3. out \in [Ranks -> [Tiles -> Shares]]
    BY DEF IInv, TypeOK
  <2> QED
    BY <1>2, <2>1, <2>2, <2>3, ShareType
<1>8. TypeOK'
  <2>1. pc' \in [Ranks -> {"loadOwn", "readTarget", "writePartial", "store", "done"}]
    BY DEF IInv, TypeOK, Store
  <2> QED
    BY <1>3, <1>7, <2>1 DEF IInv, TypeOK
<1>9. PcsOK'
  <2>1. ASSUME NEW s \in Ranks
        PROVE  /\ step'[s] \in Rounds
               /\ pc'[s] = "writePartial" => 2 * step'[s] < RankSize
               /\ pc'[s] = "store" => 2 * step'[s] = RankSize
               /\ pc'[s] = "done" <=> loop'[s] = CoreLoops
               /\ s \notin computed' => pc'[s] = "loadOwn" /\ loop'[s] = 0
    <3>1. CASE s = r
      BY <1>1, <1>2, <1>3, <3>1
    <3>2. CASE s # r
      BY <1>3, <1>6, <3>2 DEF IInv, PcsOK
    <3> QED
      BY <3>1, <3>2
  <2> QED
    BY <2>1 DEF PcsOK
<1>10. SlotsFollow'
  <2>1. ASSUME NEW s \in Ranks
        PROVE  ReadyOf(s)'
    BY <1>3 DEF IInv, SlotsFollow, ReadyOf
  <2>2. ASSUME NEW s \in Ranks, NEW j \in Rounds
        PROVE  CountsOf(s, j)'
    <3>1. CountsOf(s, j)
      BY DEF IInv, SlotsFollow
    <3>2. Reads(s, j)' = Reads(s, j) /\ Announced(s, j)' = Announced(s, j)
      BY <1>4, <1>6
    <3> QED
      BY <1>3, <3>1, <3>2 DEF CountsOf
  <2> QED
    BY <2>1, <2>2 DEF SlotsFollow
<1>11. InStep'
  <2>1. ASSUME NEW s \in Ranks, NEW j \in Rounds
        PROVE  InStepAt(s, j)'
    <3>1. InStepAt(s, j)
      BY DEF IInv, InStep
    <3>2. ButterflyTarget(s, j) \in Ranks
      BY TargetFacts
    <3>3. Reads(s, j)' = Reads(s, j)
      BY <1>4, <1>6
    <3>4. 2 * j < RankSize
            => Overwritten(ButterflyTarget(s, j), j)' = Overwritten(ButterflyTarget(s, j), j)
      BY <1>4, <1>6, <3>2
    <3> QED
      BY <3>1, <3>3, <3>4 DEF InStepAt
  <2> QED
    BY <2>1 DEF InStep
<1>12. SumsFollow'
  <2>1. ASSUME NEW s \in Ranks
        PROVE  SymmOf(s)'
    <3>1. SymmOf(s)
      BY DEF IInv, SumsFollow
    <3>2. \A u \in Tiles : Kept(s, u)' = Kept(s, u)
      BY <1>5, <1>6
    <3> QED
      BY <1>3, <3>1, <3>2 DEF SymmOf
  <2>2. ASSUME NEW s \in Ranks
        PROVE  OutOf(s)'
    <3>1. OutOf(s)
      BY DEF IInv, SumsFollow
    <3>2. CASE s = r
      <4>1. ASSUME NEW u \in Tiles
            PROVE  out'[r][u] = IF u < l + 1 THEN GroupShare(r, RankSize) ELSE Nothing
        <5>1. u \in Int
          BY DEF Tiles
        <5>2. CASE u = l
          BY <1>2, <1>7, <5>2
        <5>3. CASE u # l
          <6>1. out[r][u] = IF u < l THEN GroupShare(r, RankSize) ELSE Nothing
            BY <3>1, <3>2 DEF OutOf, l
          <6> QED
            BY <1>2, <1>7, <5>1, <5>3, <6>1
        <5> QED
          BY <5>2, <5>3
      <4> QED
        BY <1>3, <3>2, <4>1 DEF OutOf
    <3>3. CASE s # r
      BY <1>6, <3>1, <3>3 DEF OutOf
    <3> QED
      BY <3>2, <3>3
  <2>3. ASSUME NEW s \in Ranks
        PROVE  AddUbOf(s)'
    <3>1. AddUbOf(s)
      BY DEF IInv, SumsFollow
    <3>2. CASE s = r
      BY <1>1, <3>2 DEF AddUbOf
    <3>3. CASE s # r
      BY <1>3, <1>6, <3>1, <3>3 DEF AddUbOf
    <3> QED
      BY <3>2, <3>3
  <2> QED
    BY <2>1, <2>2, <2>3 DEF SumsFollow
<1>13. AllComputed'
  <2>1. ASSUME NEW s \in Ranks
        PROVE  ComputedBefore(s)'
    <3>1. ComputedBefore(s) /\ computed = Ranks /\ computed' = Ranks
      BY <1>1, <1>3, StoringFacts DEF IInv, AllComputed
    <3> QED
      BY <3>1 DEF ComputedBefore
  <2> QED
    BY <2>1 DEF AllComputed
<1> QED
  BY <1>8, <1>9, <1>10, <1>11, <1>12, <1>13 DEF IInv

-----------------------------------------------------------------------------
(* Every step of a rank keeps the ranks in step and the sums those of the  *)
(* groups.                                                                 *)
THEOREM NextIInv == TilesAreToldApart /\ IInv /\ [Next]_vars => IInv'
<1> SUFFICES ASSUME TilesAreToldApart, IInv, [Next]_vars
             PROVE  IInv'
  OBVIOUS
<1>1. CASE UNCHANGED vars
  BY <1>1 DEF vars, IInv, TypeOK, PcsOK, SlotsFollow, ReadyOf, CountsOf, InStep, InStepAt,
      SumsFollow, SymmOf, AddUbOf, OutOf, AllComputed, ComputedBefore, InTile, Reads,
      Announced, Overwritten, Held, Kept
<1>2. ASSUME NEW r \in Ranks, Rank(r)
      PROVE  IInv'
  <2>1. UNCHANGED splitPath
    BY <1>2 DEF Rank
  <2>2. CASE FinishMatmul(r)
    BY <2>1, <2>2, FinishMatmulKeeps
  <2>3. CASE LoadOwn(r)
    BY <2>1, <2>3, LoadOwnKeeps
  <2>4. CASE ReadTarget(r)
    BY <2>1, <2>4, ReadTargetKeeps
  <2>5. CASE WritePartial(r)
    BY <2>1, <2>5, WritePartialKeeps
  <2>6. CASE Store(r)
    BY <2>1, <2>6, StoreKeeps
  <2> QED
    BY <1>2, <2>2, <2>3, <2>4, <2>5, <2>6 DEF Rank, Lane
<1> QED
  BY <1>1, <1>2 DEF Next

(* So they are in every state of every behaviour.                          *)
THEOREM Invariance == ASSUME TilesAreToldApart PROVE Spec => []IInv
<1>1. Init => IInv
  BY InitIInv
<1>2. IInv /\ [Next]_vars => IInv'
  BY NextIInv
<1> QED
  BY <1>1, <1>2, PTL DEF Spec

(* No signal counts further than the tiles, and no share is added more     *)
(* often than there are ranks.                                             *)
THEOREM TypeCorrect == ASSUME TilesAreToldApart PROVE Spec => []TypeOK
<1>1. IInv => TypeOK
  BY DEF IInv
<1> QED
  BY <1>1, Invariance, PTL

(* For any number of ranks and tiles, a rank copies exactly the sum its    *)
(* target has combined in the rounds before.                               *)
THEOREM ReadsSums == ASSUME TilesAreToldApart PROVE Spec => []ReadsTargetsGroup
<1>1. IInv => ReadsTargetsGroup
  BY ReadingFacts DEF ReadsTargetsGroup
<1> QED
  BY <1>1, Invariance, PTL

(* For any number of ranks and tiles, no rank writes over its tile while   *)
(* its reader of the round is copying it.                                  *)
THEOREM NeverOverwritesWhileRead ==
    ASSUME TilesAreToldApart PROVE Spec => []NoOverwriteWhileRead
<1>1. IInv => NoOverwriteWhileRead
  <2> SUFFICES ASSUME IInv, NEW r \in Ranks, Reading(r), Writing(Target(r)),
                      loop[Target(r)] = loop[r]
               PROVE  FALSE
    BY DEF NoOverwriteWhileRead
  <2> DEFINE t == Target(r)
  <2> HIDE DEF t
  <2>1. /\ InTile(r) /\ step[r] \in Rounds /\ loop[r] \in Int
        /\ Reads(r, step[r]) = loop[r] /\ Kept(t, loop[r]) = step[r]
    BY AtRank, ReadingFacts DEF Reading, InTile, t
  <2>2. t \in Ranks /\ t = ButterflyTarget(r, step[r]) /\ ButterflyTarget(t, step[r]) = r
    BY <2>1, TargetFacts DEF Target, t
  <2>3. InTile(t) /\ loop[t] = loop[r] /\ ReaderIsDone(t)
    BY DEF Writing, InTile, t
  <2>4. step[t] = step[r] /\ Target(t) = r
    BY <2>1, <2>2, <2>3 DEF Kept, Target
  <2>5. loop[t] # CoreLoops
    BY <2>2, <2>3, AtRank
  <2>6. Expected(t) = loop[t] + 1
    BY <2>2, <2>5, Signals DEF IInv
  <2>7. ack[t][r] = loop[r] + 1
    BY <2>3, <2>4, <2>6 DEF ReaderIsDone
  <2>8. CountsOf(r, step[r])
    BY <2>1 DEF IInv, SlotsFollow
  <2> QED
    BY <2>1, <2>2, <2>7, <2>8 DEF CountsOf
<1> QED
  BY <1>1, Invariance, PTL

-----------------------------------------------------------------------------
(* Nothing is contributed or delivered at the beginning.                   *)
LEMMA InitImplements == Init => Promise!Init
BY DEF Init, Promise!Init, Promise!Nothing, Nothing

(* The end of a matmul contributes the rank's share, a store delivers a    *)
(* tile, and every other step is one the caller does not see.              *)
LEMMA StepImplements ==
    ASSUME TilesAreToldApart, IInv, [Next]_vars
    PROVE  [Promise!Next]_Promise!vars
<1>1. CASE UNCHANGED vars
  BY <1>1 DEF vars, Promise!vars
<1>2. ASSUME NEW r \in Ranks, Rank(r)
      PROVE  [Promise!Next]_Promise!vars
  <2>1. CASE FinishMatmul(r)
    <3>1. Promise!Contribute(r)
      BY <2>1 DEF FinishMatmul, Promise!Contribute
    <3> QED
      BY <3>1 DEF Promise!Next
  <2>2. CASE Store(r)
    <3>1. addUb[r] = Promise!Total /\ computed = Ranks
      BY <2>2, StoringFacts DEF Store, Promise!Total
    <3>2. loop[r] \in Tiles /\ loop[r] \in Int
      BY <2>2, AtRank DEF Store, Tiles, InTile
    <3>3. out[r][loop[r]] = Promise!Nothing
      <4>1. OutOf(r)
        BY DEF IInv, SumsFollow
      <4> QED
        BY <3>2, <4>1 DEF OutOf, Nothing, Promise!Nothing
    <3>4. Promise!Deliver(r, loop[r])
      BY <2>2, <3>1, <3>3 DEF Store, Promise!Deliver
    <3> QED
      BY <3>2, <3>4 DEF Promise!Next
  <2>3. CASE LoadOwn(r) \/ ReadTarget(r) \/ WritePartial(r)
    BY <2>3 DEF LoadOwn, ReadTarget, WritePartial, Promise!vars
  <2> QED
    BY <1>2, <2>1, <2>2, <2>3 DEF Rank, Lane
<1> QED
  BY <1>1, <1>2 DEF Next

(* The butterfly does what the caller of the all-reduce relies on: each    *)
(* tile that is delivered has the share of every rank exactly once.        *)
THEOREM Implements == ASSUME TilesAreToldApart PROVE Spec => ImplementsAllReduce
<1>1. Init => Promise!Init
  BY InitImplements
<1>2. IInv /\ [Next]_vars => [Promise!Next]_Promise!vars
  BY StepImplements
<1> QED
  BY <1>1, <1>2, Invariance, PTL DEF Spec, ImplementsAllReduce, Promise!Spec
==============================================================================
