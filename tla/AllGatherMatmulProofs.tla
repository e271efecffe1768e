------------------------ MODULE AllGatherMatmulProofs ------------------------
(***************************************************************************)
(* Proofs about the all-gather + matmul kernel.  For any numbers of ranks  *)
(* and cores and any number of launches, a cube core multiplies only what  *)
(* has been padded.  In the first launch, which finds the signal slots     *)
(* cleared, a vector core copies only rows that its partner has gathered,  *)
(* and a cube core finds the rows of all ranks.  A later launch finds the  *)
(* slots of the one before it set.                                         *)
(***************************************************************************)
EXTENDS AllGatherMatmul, TLAPS

Rounds == {i \in {1, 2, 4, 8, 16, 32, 64, 128, 256, 512} : i < RankSize}

(* The slot of the round i. *)
Number(i) == CHOOSE n \in 0..10 : 2^n = i

(* The cube core of a vector core. *)
AicOf(v) == v \div 2

OwnPcs == {"barrierAll", "padB", "copyOwn", "barrierOwn"}

LoopPcs == {"wait", "copy", "barrier", "signal"}

EndPcs == {"setGathered", "done"}

AivPcs == OwnPcs \cup {"signalOwn"} \cup LoopPcs \cup EndPcs

AicPcs == {"waitGathered", "multiply", "done"}

(* The rows of a rank are a function of the ranks and the cores. *)
Shaped(rows) == rows = [s \in Ranks |-> [v \in Aivs |-> rows[s][v]]]

(* The variables are functions of the cores. *)
ShapesOK ==
    /\ launch \in [Ranks -> 1..Launches]
    /\ aiv \in [Ranks -> [Aivs -> AivPcs]]
    /\ aic \in [Ranks -> [Aics -> AicPcs]]
    /\ coc \in [Ranks -> [Aivs -> Rounds \cup {RankSize}]]
    /\ offset \in [Ranks -> [Aivs -> Nat]]
    /\ padded \in [Ranks -> [Aivs -> 0..Launches]]
    /\ slot \in [Ranks -> [Slots -> 0..1]]
    /\ gathered \in [Ranks -> [Aivs -> Nat]]
    /\ symm = [r \in Ranks |-> symm[r]]
    /\ \A r \in Ranks : Shaped(symm[r])

(* Where a vector core can be, and what it has padded. *)
AivAt(r, v) ==
    /\ aiv[r][v] \in OwnPcs \cup {"signalOwn"} => coc[r][v] = 1
    /\ aiv[r][v] \in LoopPcs => coc[r][v] \in Rounds
    /\ aiv[r][v] \in EndPcs => coc[r][v] = RankSize
    /\ offset[r][v] = Number(coc[r][v]) + 1
    /\ aiv[r][v] \notin {"barrierAll", "padB"} => padded[r][v] = launch[r]

(* A cube core has waited for its vector cores, and what it has not        *)
(* consumed is in their flags.                                             *)
GatheredOf(r, v) ==
    /\ aic[r][AicOf(v)] # "waitGathered" => aiv[r][v] = "done"
    /\ gathered[r][v] =
         IF aiv[r][v] = "done" /\ aic[r][AicOf(v)] = "waitGathered" THEN 1 ELSE 0

CoresAt == \A r \in Ranks, v \in Aivs : AivAt(r, v) /\ GatheredOf(r, v)

(* The row groups the rank has together: what all its vector cores have    *)
(* copied before they last met.                                            *)
Reach(r, v) ==
    IF aiv[r][v] \in OwnPcs THEN 0
    ELSE IF aiv[r][v] = "signal" THEN 2 * coc[r][v] ELSE coc[r][v]

InStep == \A r \in Ranks, v \in Aivs, u \in Aivs : Reach(r, v) = Reach(r, u)

(* The row groups of which the core has copied its part. *)
Had(r, v) ==
    IF aiv[r][v] \in {"barrierAll", "padB", "copyOwn"} THEN 0
    ELSE IF aiv[r][v] \in {"barrier", "signal"} THEN 2 * coc[r][v] ELSE coc[r][v]

(* In the first launch. *)
FirstLaunch == \A r \in Ranks : launch[r] = 1

RowsOf(r, v) ==
    Had(r, v) > 0 =>
        \A s \in Ranks : s \div Had(r, v) = r \div Had(r, v) => symm[r][s][v] = 1

(* A signal says what it is for: the partner of the round has its rows.    *)
SlotSays(r, i) == slot[r][Number(i)] = 1 => \A v \in Aivs : Reach(RemoteId(r, i), v) >= i

HasWaited(r, v) == aiv[r][v] = "copy" => slot[r][offset[r][v] - 1] = 1

RowsFollow ==
    FirstLaunch =>
        /\ \A r \in Ranks, v \in Aivs : RowsOf(r, v) /\ HasWaited(r, v)
        /\ \A r \in Ranks, i \in Rounds : SlotSays(r, i)

IInv == ShapesOK /\ CoresAt /\ InStep /\ RowsFollow

-----------------------------------------------------------------------------
(* The powers of two up to the largest number of ranks.                    *)
LEMMA Powers ==
    /\ 2^0 = 1 /\ 2^1 = 2 /\ 2^2 = 4 /\ 2^3 = 8 /\ 2^4 = 16 /\ 2^5 = 32
    /\ 2^6 = 64 /\ 2^7 = 128 /\ 2^8 = 256 /\ 2^9 = 512 /\ 2^10 = 1024
OBVIOUS

(* The numbers of ranks the rounds are made for, one by one: with a number *)
(* in the place of RankSize the provers can divide by it.                  *)
LEMMA SizeCases == RankSize \in {2, 4, 8, 16, 32, 64, 128, 256, 512, 1024}
<1>1. PICK k \in 1..10 : RankSize = 2^k
  BY RankSizeAssumption
<1>2. CASE k = 1
  <2>1. RankSize = 2^1
    BY <1>1, <1>2
  <2> QED
    BY <2>1, Powers
<1>3. CASE k = 2
  <2>1. RankSize = 2^2
    BY <1>1, <1>3
  <2> QED
    BY <2>1, Powers
<1>4. CASE k = 3
  <2>1. RankSize = 2^3
    BY <1>1, <1>4
  <2> QED
    BY <2>1, Powers
<1>5. CASE k = 4
  <2>1. RankSize = 2^4
    BY <1>1, <1>5
  <2> QED
    BY <2>1, Powers
<1>6. CASE k = 5
  <2>1. RankSize = 2^5
    BY <1>1, <1>6
  <2> QED
    BY <2>1, Powers
<1>7. CASE k = 6
  <2>1. RankSize = 2^6
    BY <1>1, <1>7
  <2> QED
    BY <2>1, Powers
<1>8. CASE k = 7
  <2>1. RankSize = 2^7
    BY <1>1, <1>8
  <2> QED
    BY <2>1, Powers
<1>9. CASE k = 8
  <2>1. RankSize = 2^8
    BY <1>1, <1>9
  <2> QED
    BY <2>1, Powers
<1>10. CASE k = 9
  <2>1. RankSize = 2^9
    BY <1>1, <1>10
  <2> QED
    BY <2>1, Powers
<1>11. CASE k = 10
  <2>1. RankSize = 2^10
    BY <1>1, <1>11
  <2> QED
    BY <2>1, Powers
<1> QED
  BY <1>1, <1>2, <1>3, <1>4, <1>5, <1>6, <1>7, <1>8, <1>9, <1>10, <1>11

(* Which slot is whose.                                                    *)
LEMMA Numbers ==
    /\ Number(1) = 0 /\ Number(2) = 1 /\ Number(4) = 2 /\ Number(8) = 3
    /\ Number(16) = 4 /\ Number(32) = 5 /\ Number(64) = 6 /\ Number(128) = 7
    /\ Number(256) = 8 /\ Number(512) = 9 /\ Number(1024) = 10
<1>1. ASSUME NEW n \in 0..10
      PROVE  \/ n = 0 \/ n = 1 \/ n = 2 \/ n = 3 \/ n = 4 \/ n = 5
             \/ n = 6 \/ n = 7 \/ n = 8 \/ n = 9 \/ n = 10
  OBVIOUS
<1>2. Number(1) = 0
  BY <1>1, Powers DEF Number
<1>3. Number(2) = 1
  BY <1>1, Powers DEF Number
<1>4. Number(4) = 2
  BY <1>1, Powers DEF Number
<1>5. Number(8) = 3
  BY <1>1, Powers DEF Number
<1>6. Number(16) = 4
  BY <1>1, Powers DEF Number
<1>7. Number(32) = 5
  BY <1>1, Powers DEF Number
<1>8. Number(64) = 6
  BY <1>1, Powers DEF Number
<1>9. Number(128) = 7
  BY <1>1, Powers DEF Number
<1>10. Number(256) = 8
  BY <1>1, Powers DEF Number
<1>11. Number(512) = 9
  BY <1>1, Powers DEF Number
<1>12. Number(1024) = 10
  BY <1>1, Powers DEF Number
<1> QED
  BY <1>2, <1>3, <1>4, <1>5, <1>6, <1>7, <1>8, <1>9, <1>10, <1>11, <1>12

(* Every round pairs groups that divide the ranks evenly, it is the last   *)
(* round or there is one of twice the distance, and it has a slot.         *)
LEMMA RoundFacts ==
    ASSUME NEW i \in Rounds
    PROVE  /\ i \in Nat \ {0} /\ RankSize \in Nat \ {0} /\ RankSize % (2 * i) = 0
           /\ 2 * i <= RankSize
           /\ 2 * i < RankSize => 2 * i \in Rounds
           /\ Number(2 * i) = Number(i) + 1
           /\ Number(i) \in Slots /\ Number(i) \in Nat
<1> USE DEF Rounds
<1>0. Slots = 0..(Number(RankSize) - 1)
  BY DEF Slots, Number
<1>1. CASE i = 1
  BY <1>0, <1>1, SizeCases, Numbers
<1>2. CASE i = 2
  BY <1>0, <1>2, SizeCases, Numbers
<1>3. CASE i = 4
  BY <1>0, <1>3, SizeCases, Numbers
<1>4. CASE i = 8
  BY <1>0, <1>4, SizeCases, Numbers
<1>5. CASE i = 16
  BY <1>0, <1>5, SizeCases, Numbers
<1>6. CASE i = 32
  BY <1>0, <1>6, SizeCases, Numbers
<1>7. CASE i = 64
  BY <1>0, <1>7, SizeCases, Numbers
<1>8. CASE i = 128
  BY <1>0, <1>8, SizeCases, Numbers
<1>9. CASE i = 256
  BY <1>0, <1>9, SizeCases, Numbers
<1>10. CASE i = 512
  BY <1>0, <1>10, SizeCases, Numbers
<1> QED
  BY <1>1, <1>2, <1>3, <1>4, <1>5, <1>6, <1>7, <1>8, <1>9, <1>10

(* No two rounds share a slot.                                             *)
LEMMA NumbersDiffer ==
    ASSUME NEW i \in Rounds, NEW j \in Rounds, i # j
    PROVE  Number(i) # Number(j)
BY Numbers DEF Rounds

(* The rounds begin with neighbours and end before RankSize.               *)
LEMMA FirstRound ==
    1 \in Rounds /\ Number(1) = 0 /\ RankSize \in Nat \ {0} /\ RankSize \notin Rounds
BY SizeCases, Numbers DEF Rounds

(* The partner of a round is the rank i up or i down.                      *)
LEMMA RemoteForm ==
    ASSUME NEW r \in Nat, NEW i \in Rounds
    PROVE  RemoteId(r, i) = IF (r \div i) % 2 = 0 THEN r + i ELSE r - i
<1>1. CASE i = 1
  BY <1>1 DEF RemoteId
<1>2. CASE i = 2
  BY <1>2 DEF RemoteId
<1>3. CASE i = 4
  BY <1>3 DEF RemoteId
<1>4. CASE i = 8
  BY <1>4 DEF RemoteId
<1>5. CASE i = 16
  BY <1>5 DEF RemoteId
<1>6. CASE i = 32
  BY <1>6 DEF RemoteId
<1>7. CASE i = 64
  BY <1>7 DEF RemoteId
<1>8. CASE i = 128
  BY <1>8 DEF RemoteId
<1>9. CASE i = 256
  BY <1>9 DEF RemoteId
<1>10. CASE i = 512
  BY <1>10 DEF RemoteId
<1> QED
  BY <1>1, <1>2, <1>3, <1>4, <1>5, <1>6, <1>7, <1>8, <1>9, <1>10 DEF Rounds

(* The partner of a partner is the rank itself.                            *)
LEMMA RemoteFacts ==
    ASSUME NEW r \in Ranks, NEW i \in Rounds
    PROVE  /\ RemoteId(r, i) \in Ranks
           /\ RemoteId(RemoteId(r, i), i) = r
<1> r \in Nat /\ r < RankSize /\ RankSize \in Nat /\ RankSize % (2 * i) = 0
  BY RoundFacts DEF Ranks
<1> DEFINE q == RemoteId(r, i)
<1> /\ q = IF (r \div i) % 2 = 0 THEN r + i ELSE r - i
    /\ q \in Nat => RemoteId(q, i) = IF (q \div i) % 2 = 0 THEN q + i ELSE q - i
  BY RemoteForm
<1> HIDE DEF q
<1> SUFFICES q \in Ranks /\ RemoteId(q, i) = r
  BY DEF q
<1>1. CASE i = 1
  BY <1>1 DEF Ranks
<1>2. CASE i = 2
  BY <1>2 DEF Ranks
<1>3. CASE i = 4
  BY <1>3 DEF Ranks
<1>4. CASE i = 8
  BY <1>4 DEF Ranks
<1>5. CASE i = 16
  BY <1>5 DEF Ranks
<1>6. CASE i = 32
  BY <1>6 DEF Ranks
<1>7. CASE i = 64
  BY <1>7 DEF Ranks
<1>8. CASE i = 128
  BY <1>8 DEF Ranks
<1>9. CASE i = 256
  BY <1>9 DEF Ranks
<1>10. CASE i = 512
  BY <1>10 DEF Ranks
<1> QED
  BY <1>1, <1>2, <1>3, <1>4, <1>5, <1>6, <1>7, <1>8, <1>9, <1>10 DEF Rounds

(* The row groups copied in a round are those of the partner's group of i  *)
(* ranks.                                                                  *)
LEMMA GroupIs ==
    ASSUME NEW r \in Ranks, NEW i \in Rounds, NEW s \in Ranks
    PROVE  s \in RemoteGroup(r, i) <=> s \div i = RemoteId(r, i) \div i
<1> r \in Nat /\ s \in Nat
  BY RoundFacts DEF Ranks
<1> RemoteId(r, i) = IF (r \div i) % 2 = 0 THEN r + i ELSE r - i
  BY RemoteForm
<1>1. CASE i = 1
  BY <1>1 DEF RemoteGroup
<1>2. CASE i = 2
  BY <1>2 DEF RemoteGroup
<1>3. CASE i = 4
  BY <1>3 DEF RemoteGroup
<1>4. CASE i = 8
  BY <1>4 DEF RemoteGroup
<1>5. CASE i = 16
  BY <1>5 DEF RemoteGroup
<1>6. CASE i = 32
  BY <1>6 DEF RemoteGroup
<1>7. CASE i = 64
  BY <1>7 DEF RemoteGroup
<1>8. CASE i = 128
  BY <1>8 DEF RemoteGroup
<1>9. CASE i = 256
  BY <1>9 DEF RemoteGroup
<1>10. CASE i = 512
  BY <1>10 DEF RemoteGroup
<1> QED
  BY <1>1, <1>2, <1>3, <1>4, <1>5, <1>6, <1>7, <1>8, <1>9, <1>10 DEF Rounds

(* The group of 2i ranks around a rank is its group of i ranks and that of *)
(* its partner, and these have no rank in common.                          *)
LEMMA GroupSplits ==
    ASSUME NEW r \in Ranks, NEW s \in Ranks, NEW i \in Rounds
    PROVE  /\ s \div (2 * i) = r \div (2 * i)
                 <=> \/ s \div i = r \div i
                     \/ s \div i = RemoteId(r, i) \div i
           /\ r \div i # RemoteId(r, i) \div i
<1> r \in Nat /\ s \in Nat
  BY RoundFacts DEF Ranks
<1> RemoteId(r, i) = IF (r \div i) % 2 = 0 THEN r + i ELSE r - i
  BY RemoteForm
<1>1. CASE i = 1
  BY <1>1
<1>2. CASE i = 2
  BY <1>2
<1>3. CASE i = 4
  BY <1>3
<1>4. CASE i = 8
  BY <1>4
<1>5. CASE i = 16
  BY <1>5
<1>6. CASE i = 32
  BY <1>6
<1>7. CASE i = 64
  BY <1>7
<1>8. CASE i = 128
  BY <1>8
<1>9. CASE i = 256
  BY <1>9
<1>10. CASE i = 512
  BY <1>10
<1> QED
  BY <1>1, <1>2, <1>3, <1>4, <1>5, <1>6, <1>7, <1>8, <1>9, <1>10 DEF Rounds

(* Of two rounds the later one goes a whole number of times as far.        *)
LEMMA RoundOrder ==
    ASSUME NEW i \in Rounds, NEW j \in Rounds, i <= j
    PROVE  i * (j \div i) = j /\ j \div i \in Nat \ {0} /\ i \in Nat \ {0}
BY DEF Rounds

(* The groups of a round lie within those of a later one.                  *)
LEMMA GroupNests ==
    ASSUME NEW r \in Ranks, NEW s \in Ranks, NEW i \in Rounds, NEW j \in Rounds \cup {RankSize},
           i <= j, s \div i = r \div i
    PROVE  s \div j = r \div j
<1> r \in Nat /\ s \in Nat /\ r < RankSize /\ s < RankSize /\ RankSize \in Nat
  BY RoundFacts DEF Ranks
<1>0. CASE j = RankSize
  <2>1. s \div RankSize = 0 /\ r \div RankSize = 0
    BY SizeCases
  <2> QED
    BY <1>0, <2>1
<1>1. CASE j \in Rounds
  <2>1. CASE j = 1
    BY <1>1, <2>1, RoundOrder DEF Rounds
  <2>2. CASE j = 2
    BY <1>1, <2>2, RoundOrder DEF Rounds
  <2>3. CASE j = 4
    BY <1>1, <2>3, RoundOrder DEF Rounds
  <2>4. CASE j = 8
    BY <1>1, <2>4, RoundOrder DEF Rounds
  <2>5. CASE j = 16
    BY <1>1, <2>5, RoundOrder DEF Rounds
  <2>6. CASE j = 32
    BY <1>1, <2>6, RoundOrder DEF Rounds
  <2>7. CASE j = 64
    BY <1>1, <2>7, RoundOrder DEF Rounds
  <2>8. CASE j = 128
    BY <1>1, <2>8, RoundOrder DEF Rounds
  <2>9. CASE j = 256
    BY <1>1, <2>9, RoundOrder DEF Rounds
  <2>10. CASE j = 512
    BY <1>1, <2>10, RoundOrder DEF Rounds
  <2> QED
    BY <1>1, <2>1, <2>2, <2>3, <2>4, <2>5, <2>6, <2>7, <2>8, <2>9, <2>10 DEF Rounds
<1> QED
  BY <1>0, <1>1

-----------------------------------------------------------------------------
(* What is known of a vector core and of its cube core.                    *)
LEMMA CoreFacts ==
    ASSUME IInv, NEW r \in Ranks, NEW v \in Aivs
    PROVE  /\ aiv[r][v] \in AivPcs /\ coc[r][v] \in Rounds \cup {RankSize}
           /\ coc[r][v] \in Nat \ {0} /\ offset[r][v] \in Nat /\ launch[r] \in 1..Launches
           /\ AivAt(r, v) /\ GatheredOf(r, v)
<1>1. /\ aiv[r][v] \in AivPcs /\ coc[r][v] \in Rounds \cup {RankSize}
      /\ offset[r][v] \in Nat /\ launch[r] \in 1..Launches
  BY DEF IInv, ShapesOK
<1>2. coc[r][v] \in Nat \ {0}
  BY <1>1, RoundFacts, FirstRound
<1> QED
  BY <1>1, <1>2 DEF IInv, CoresAt

(* Every vector core is that of one cube core.                             *)
LEMMA CubeOf ==
    ASSUME NEW v \in Aivs
    PROVE  /\ AicOf(v) \in Aics
           /\ \A c \in Aics : v \in AivsOf(c) <=> AicOf(v) = c
           /\ 0 \in Aivs
<1> USE CoresAssumption DEF Aivs, Aics
<1>1. AicOf(v) \in Aics
  BY DEF AicOf
<1>2. \A c \in Aics : v \in AivsOf(c) <=> AicOf(v) = c
  BY DEF AicOf, AivsOf
<1>3. 0 \in Aivs
  OBVIOUS
<1> QED
  BY <1>1, <1>2, <1>3

(* Row groups come in powers of two, and none is lost by meeting. *)
LEMMA ReachFacts ==
    ASSUME IInv, NEW r \in Ranks, NEW v \in Aivs
    PROVE  /\ Reach(r, v) \in Nat /\ Had(r, v) \in Nat
           /\ Reach(r, v) <= Had(r, v)
           /\ Had(r, v) # 0 => Had(r, v) \in Rounds \cup {RankSize}
<1>1. /\ aiv[r][v] \in AivPcs /\ coc[r][v] \in Rounds \cup {RankSize} /\ coc[r][v] \in Nat \ {0}
      /\ aiv[r][v] \in LoopPcs => coc[r][v] \in Rounds
  BY CoreFacts DEF AivAt
<1>2. coc[r][v] \in Rounds => 2 * coc[r][v] \in Rounds \cup {RankSize}
  BY RoundFacts
<1> QED
  BY <1>1, <1>2 DEF Reach, Had, AivPcs, OwnPcs, LoopPcs, EndPcs

(* Where a vector core can be depends only on where it is, and on the      *)
(* launch.                                                                 *)
LEMMA AivStays ==
    ASSUME NEW r \in Ranks, NEW v \in Aivs, AivAt(r, v),
           aiv'[r][v] = aiv[r][v], coc'[r][v] = coc[r][v], offset'[r][v] = offset[r][v],
           padded'[r][v] = padded[r][v], launch'[r] = launch[r]
    PROVE  AivAt(r, v)'
BY DEF AivAt

(* What is said of a flag depends only on the flag and its two cores.      *)
LEMMA GatheredStays ==
    ASSUME NEW r \in Ranks, NEW v \in Aivs, GatheredOf(r, v),
           aiv'[r][v] = "done" <=> aiv[r][v] = "done",
           aic'[r][AicOf(v)] = aic[r][AicOf(v)], gathered'[r][v] = gathered[r][v]
    PROVE  GatheredOf(r, v)'
BY DEF GatheredOf

(* How far a vector core has got depends only on where it is.              *)
LEMMA ReachStays ==
    ASSUME NEW r \in Ranks, NEW v \in Aivs,
           aiv'[r][v] = aiv[r][v], coc'[r][v] = coc[r][v]
    PROVE  Reach(r, v)' = Reach(r, v) /\ Had(r, v)' = Had(r, v)
BY DEF Reach, Had

(* What is said of the rows of a vector core stays true while it stays,    *)
(* and while it gets rows and loses none.                                  *)
LEMMA RowsStay ==
    ASSUME NEW r \in Ranks, NEW v \in Aivs, RowsOf(r, v), Had(r, v)' = Had(r, v),
           \A s \in Ranks : symm'[r][s][v] = symm[r][s][v]
    PROVE  RowsOf(r, v)'
BY DEF RowsOf

(* What a vector core has waited for stays there while the slots do.       *)
LEMMA WaitedStays ==
    ASSUME NEW r \in Ranks, NEW v \in Aivs, HasWaited(r, v),
           aiv'[r][v] = "copy" => aiv[r][v] = "copy", offset'[r][v] = offset[r][v],
           slot[r][offset[r][v] - 1] = 1 => slot'[r][offset[r][v] - 1] = 1
    PROVE  HasWaited(r, v)'
BY DEF HasWaited

(* What a signal says stays true while no rank goes back.                  *)
LEMMA SlotsStay ==
    ASSUME IInv, NEW r \in Ranks, NEW i \in Rounds, SlotSays(r, i),
           slot'[r][Number(i)] = slot[r][Number(i)],
           \A s \in Ranks, u \in Aivs : Reach(s, u)' \in Nat /\ Reach(s, u) <= Reach(s, u)'
    PROVE  SlotSays(r, i)'
<1>1. RemoteId(r, i) \in Ranks /\ i \in Nat
  BY RemoteFacts, RoundFacts
<1> QED
  BY <1>1, ReachFacts DEF SlotSays

(* A rank that has got as far as the round i has the rows of its group of  *)
(* i ranks.                                                                *)
LEMMA HasRows ==
    ASSUME IInv, FirstLaunch, NEW q \in Ranks, NEW u \in Aivs, NEW i \in Rounds,
           Reach(q, u) >= i, NEW s \in Ranks, s \div i = q \div i
    PROVE  symm[q][s][u] = 1
<1>1. /\ Had(q, u) \in Rounds \cup {RankSize} /\ i <= Had(q, u) /\ Had(q, u) > 0
      /\ i \in Nat \ {0}
  <2>1. i \in Nat \ {0}
    BY RoundFacts
  <2>2. /\ Reach(q, u) \in Nat /\ Had(q, u) \in Nat /\ Reach(q, u) <= Had(q, u)
        /\ Had(q, u) # 0 => Had(q, u) \in Rounds \cup {RankSize}
    BY ReachFacts
  <2>3. i <= Had(q, u) /\ Had(q, u) > 0
    BY <2>1, <2>2
  <2> QED
    BY <2>1, <2>2, <2>3
<1>2. s \div Had(q, u) = q \div Had(q, u)
  BY <1>1, GroupNests
<1> QED
  BY <1>1, <1>2 DEF IInv, RowsFollow, RowsOf

(* What a vector core that copies finds at its partner. *)
LEMMA FindsRows ==
    ASSUME IInv, FirstLaunch, NEW r \in Ranks, NEW v \in Aivs, aiv[r][v] = "copy",
           NEW s \in RemoteGroup(r, coc[r][v]), NEW u \in Aivs
    PROVE  symm[RemoteId(r, coc[r][v])][s][u] = 1
<1> DEFINE i == coc[r][v]
           q == RemoteId(r, i)
<1>1. i \in Rounds /\ offset[r][v] - 1 = Number(i) /\ s \in Ranks
  BY CoreFacts, RoundFacts DEF AivAt, LoopPcs, RemoteGroup
<1> HIDE DEF i
<1>2. q \in Ranks
  BY <1>1, RemoteFacts
<1>3. slot[r][Number(i)] = 1
  BY <1>1 DEF IInv, RowsFollow, HasWaited
<1>4. Reach(q, u) >= i
  BY <1>1, <1>3 DEF IInv, RowsFollow, SlotSays
<1>5. s \div i = q \div i
  BY <1>1, GroupIs DEF i
<1>6. symm[q][s][u] = 1
  BY <1>1, <1>2, <1>4, <1>5, HasRows
<1> QED
  BY <1>6 DEF i

(* The first launch is over when a rank starts the second.                 *)
LEMMA SameFirstLaunch ==
    ASSUME launch' = launch
    PROVE  FirstLaunch' <=> FirstLaunch
BY DEF FirstLaunch

-----------------------------------------------------------------------------
(* At the beginning no rank has rows and no slot is set.                   *)
THEOREM InitIInv == Init => IInv
<1> SUFFICES ASSUME Init
             PROVE  IInv
  OBVIOUS
<1> USE DEF Init, Everywhere
<1>1. ShapesOK
  BY FirstRound, LaunchesAssumption DEF ShapesOK, Shaped, AivPcs, AicPcs, OwnPcs
<1>2. CoresAt
  BY FirstRound, CubeOf DEF CoresAt, AivAt, GatheredOf, OwnPcs, LoopPcs, EndPcs
<1>3. InStep
  BY DEF InStep, Reach, OwnPcs
<1>4. RowsFollow
  <2>1. ASSUME NEW r \in Ranks, NEW i \in Rounds
        PROVE  SlotSays(r, i)
    BY RoundFacts DEF SlotSays
  <2> QED
    BY <2>1 DEF RowsFollow, RowsOf, Had, HasWaited
<1> QED
  BY <1>1, <1>2, <1>3, <1>4 DEF IInv

(* A step after which every rank has got no less far, and which changes no *)
(* rows and no slots, only has to say how it keeps each core.              *)
LEMMA MovesKeep ==
    ASSUME IInv, ShapesOK',
           launch' = launch, symm' = symm, slot' = slot, offset' = offset,
           \A s \in Ranks, u \in Aivs :
              /\ AivAt(s, u)' /\ GatheredOf(s, u)'
              /\ Reach(s, u)' \in Nat /\ Reach(s, u) <= Reach(s, u)'
              /\ Had(s, u)' = Had(s, u)
              /\ aiv'[s][u] = "copy" => aiv[s][u] = "copy" \/ slot[s][offset[s][u] - 1] = 1,
           InStep'
    PROVE  IInv'
<1>1. CoresAt'
  BY DEF CoresAt
<1>2. ASSUME FirstLaunch'
      PROVE  /\ \A s \in Ranks, u \in Aivs : RowsOf(s, u)' /\ HasWaited(s, u)'
             /\ \A s \in Ranks, i \in Rounds : SlotSays(s, i)'
  <2>1. FirstLaunch
    BY <1>2, SameFirstLaunch
  <2>2. ASSUME NEW s \in Ranks, NEW u \in Aivs
        PROVE  RowsOf(s, u)' /\ HasWaited(s, u)'
    <3>1. RowsOf(s, u) /\ HasWaited(s, u)
      BY <2>1 DEF IInv, RowsFollow
    <3>2. RowsOf(s, u)'
      BY <3>1, RowsStay
    <3>3. HasWaited(s, u)'
      BY <3>1 DEF HasWaited
    <3> QED
      BY <3>2, <3>3
  <2>3. ASSUME NEW s \in Ranks, NEW i \in Rounds
        PROVE  SlotSays(s, i)'
    <3>1. SlotSays(s, i)
      BY <2>1 DEF IInv, RowsFollow
    <3> QED
      BY <3>1, SlotsStay
  <2> QED
    BY <2>2, <2>3
<1> QED
  BY <1>1, <1>2 DEF IInv, RowsFollow

(* The cores of a rank stay in step while they get on alike.               *)
LEMMA InStepStays ==
    ASSUME IInv, \A s \in Ranks, u \in Aivs : Reach(s, u)' = Reach(s, u)
    PROVE  InStep'
BY DEF IInv, InStep

(* All ranks leave the first barrier together.                             *)
LEMMA BarrierAllKeeps ==
    ASSUME IInv, BarrierAll
    PROVE  IInv'
<1> USE DEF BarrierAll
<1>1. \A s \in Ranks, u \in Aivs : aiv[s][u] = "barrierAll" /\ aiv'[s][u] = "padB"
  BY DEF Everywhere
<1>2. \A s \in Ranks, u \in Aivs : Reach(s, u)' = Reach(s, u) /\ Had(s, u)' = Had(s, u)
  BY <1>1 DEF Reach, Had, OwnPcs
<1>3. ShapesOK'
  BY DEF IInv, ShapesOK, Everywhere, AivPcs, OwnPcs
<1>4. ASSUME NEW s \in Ranks, NEW u \in Aivs
      PROVE  AivAt(s, u)' /\ GatheredOf(s, u)'
  <2>1. AivAt(s, u) /\ GatheredOf(s, u)
    BY CoreFacts
  <2>2. AivAt(s, u)'
    BY <1>1, <2>1 DEF AivAt, OwnPcs, LoopPcs, EndPcs
  <2>3. GatheredOf(s, u)'
    BY <1>1, <2>1, GatheredStays
  <2> QED
    BY <2>2, <2>3
<1>5. InStep'
  BY <1>2, InStepStays
<1> QED
  BY <1>1, <1>2, <1>3, <1>4, <1>5, ReachFacts, MovesKeep

(* A vector core pads its part of B.                                       *)
LEMMA PadBKeeps ==
    ASSUME IInv, NEW r \in Ranks, NEW v \in Aivs, PadB(r, v)
    PROVE  IInv'
<1> USE DEF PadB, AivGoesTo
<1>1. \A s \in Ranks, u \in Aivs :
        /\ aiv'[s][u] = IF s = r /\ u = v THEN "copyOwn" ELSE aiv[s][u]
        /\ padded'[s][u] = IF s = r /\ u = v THEN launch[r] ELSE padded[s][u]
  BY DEF IInv, ShapesOK
<1>2. \A s \in Ranks, u \in Aivs : Reach(s, u)' = Reach(s, u) /\ Had(s, u)' = Had(s, u)
  BY <1>1 DEF Reach, Had, OwnPcs
<1>3. ShapesOK'
  <2>1. launch[r] \in 0..Launches
    BY CoreFacts, LaunchesAssumption
  <2> QED
    BY <2>1 DEF IInv, ShapesOK, AivPcs, OwnPcs
<1>4. ASSUME NEW s \in Ranks, NEW u \in Aivs
      PROVE  AivAt(s, u)' /\ GatheredOf(s, u)'
  <2>1. AivAt(s, u) /\ GatheredOf(s, u)
    BY CoreFacts
  <2>2. AivAt(s, u)'
    BY <1>1, <2>1 DEF AivAt, OwnPcs, LoopPcs, EndPcs
  <2>3. GatheredOf(s, u)'
    BY <1>1, <2>1, GatheredStays
  <2> QED
    BY <2>2, <2>3
<1>5. InStep'
  BY <1>2, InStepStays
<1> QED
  BY <1>1, <1>2, <1>3, <1>4, <1>5, ReachFacts, MovesKeep

(* A vector core goes on from its wait only when the slot of its round is  *)
(* set.                                                                    *)
LEMMA WaitKeeps ==
    ASSUME IInv, NEW r \in Ranks, NEW v \in Aivs, Wait(r, v)
    PROVE  IInv'
<1> USE DEF Wait, AivGoesTo
<1>1. \A s \in Ranks, u \in Aivs : aiv'[s][u] = IF s = r /\ u = v THEN "copy" ELSE aiv[s][u]
  BY DEF IInv, ShapesOK
<1>2. \A s \in Ranks, u \in Aivs : Reach(s, u)' = Reach(s, u) /\ Had(s, u)' = Had(s, u)
  BY <1>1 DEF Reach, Had, OwnPcs
<1>3. ShapesOK'
  BY DEF IInv, ShapesOK, AivPcs, LoopPcs
<1>4. ASSUME NEW s \in Ranks, NEW u \in Aivs
      PROVE  AivAt(s, u)' /\ GatheredOf(s, u)'
  <2>1. AivAt(s, u) /\ GatheredOf(s, u)
    BY CoreFacts
  <2>2. AivAt(s, u)'
    BY <1>1, <2>1 DEF AivAt, OwnPcs, LoopPcs, EndPcs
  <2>3. GatheredOf(s, u)'
    BY <1>1, <2>1, GatheredStays
  <2> QED
    BY <2>2, <2>3
<1>5. InStep'
  BY <1>2, InStepStays
<1>6. \A s \in Ranks, u \in Aivs :
        aiv'[s][u] = "copy" => aiv[s][u] = "copy" \/ slot[s][offset[s][u] - 1] = 1
  BY <1>1
<1> QED
  BY <1>2, <1>3, <1>4, <1>5, <1>6, ReachFacts, MovesKeep

(* A vector core sets its flag once, at the end, when the cube core has    *)
(* not yet waited.                                                         *)
LEMMA SetGatheredKeeps ==
    ASSUME IInv, NEW r \in Ranks, NEW v \in Aivs, SetGathered(r, v)
    PROVE  IInv'
<1> USE DEF SetGathered, AivGoesTo
<1>1. \A s \in Ranks, u \in Aivs :
        /\ aiv'[s][u] = IF s = r /\ u = v THEN "done" ELSE aiv[s][u]
        /\ gathered'[s][u] = IF s = r /\ u = v THEN gathered[s][u] + 1 ELSE gathered[s][u]
  BY DEF IInv, ShapesOK
<1>2. \A s \in Ranks, u \in Aivs : Reach(s, u)' = Reach(s, u) /\ Had(s, u)' = Had(s, u)
  BY <1>1 DEF Reach, Had, OwnPcs
<1>3. ShapesOK'
  BY DEF IInv, ShapesOK, AivPcs, EndPcs
<1>4. ASSUME NEW s \in Ranks, NEW u \in Aivs
      PROVE  AivAt(s, u)' /\ GatheredOf(s, u)'
  <2>1. AivAt(s, u) /\ GatheredOf(s, u)
    BY CoreFacts
  <2>2. AivAt(s, u)'
    BY <1>1, <2>1 DEF AivAt, OwnPcs, LoopPcs, EndPcs
  <2>3. CASE s = r /\ u = v
    <3>1. /\ aiv[s][u] = "setGathered" /\ aiv'[s][u] = "done"
          /\ gathered'[s][u] = gathered[s][u] + 1
      BY <1>1, <2>3
    <3>2. aic[s][AicOf(u)] = "waitGathered" /\ gathered[s][u] = 0
      BY <2>1, <3>1 DEF GatheredOf
    <3>3. gathered'[s][u] = 1
      BY <3>1, <3>2
    <3>4. GatheredOf(s, u)'
      BY <3>1, <3>2, <3>3 DEF GatheredOf
    <3> QED
      BY <2>2, <3>4
  <2>4. CASE ~(s = r /\ u = v)
    <3>1. aiv'[s][u] = aiv[s][u] /\ gathered'[s][u] = gathered[s][u]
      BY <1>1, <2>4
    <3>2. GatheredOf(s, u)'
      BY <2>1, <3>1, GatheredStays
    <3> QED
      BY <2>2, <3>2
  <2> QED
    BY <2>2, <2>3, <2>4
<1>5. InStep'
  BY <1>2, InStepStays
<1>6. \A s \in Ranks, u \in Aivs : aiv'[s][u] = "copy" => aiv[s][u] = "copy"
  BY <1>1
<1> QED
  BY <1>2, <1>3, <1>4, <1>5, <1>6, ReachFacts, MovesKeep

(* The barriers of a rank: all its vector cores go on. *)
LEMMA MeetingKeeps ==
    ASSUME IInv, NEW r \in Ranks, NEW here, NEW there, AivsMeet(r, here, there),
           \/ here = "barrierOwn" /\ there \in [Aivs -> {"signalOwn", "wait"}]
           \/ here = "barrier" /\ there \in [Aivs -> {"signal"}],
           UNCHANGED <<launch, aic, coc, offset, padded, symm, slot, gathered>>
    PROVE  IInv'
<1> USE DEF AivsMeet
<1>1. \A s \in Ranks, u \in Aivs :
        /\ s = r => aiv[s][u] = here /\ aiv'[s][u] = there[u]
        /\ s # r => aiv'[s][u] = aiv[s][u]
  BY DEF IInv, ShapesOK
<1>2. \A s \in Ranks, u \in Aivs : coc[s][u] \in Nat \ {0}
  BY CoreFacts
<1>3. \A s \in Ranks, u \in Aivs :
        /\ Had(s, u)' = Had(s, u)
        /\ s # r => Reach(s, u)' = Reach(s, u)
        /\ s = r => \/ here = "barrierOwn" /\ Reach(s, u) = 0 /\ Reach(s, u)' = coc[s][u]
                    \/ here = "barrier" /\ Reach(s, u) = coc[s][u] /\ Reach(s, u)' = 2 * coc[s][u]
  BY <1>1 DEF Reach, Had, OwnPcs
<1>4. \A s \in Ranks, u \in Aivs : Reach(s, u)' \in Nat /\ Reach(s, u) <= Reach(s, u)'
  BY <1>2, <1>3, ReachFacts
<1>5. ShapesOK'
  BY DEF IInv, ShapesOK, AivPcs, LoopPcs
<1>6. ASSUME NEW s \in Ranks, NEW u \in Aivs
      PROVE  AivAt(s, u)' /\ GatheredOf(s, u)'
  <2>1. AivAt(s, u) /\ GatheredOf(s, u)
    BY CoreFacts
  <2>2. AivAt(s, u)'
    BY <1>1, <2>1, FirstRound DEF AivAt, OwnPcs, LoopPcs, EndPcs
  <2>3. GatheredOf(s, u)'
    BY <1>1, <2>1, GatheredStays
  <2> QED
    BY <2>2, <2>3
<1>7. InStep'
  <2>1. ASSUME NEW s \in Ranks, NEW u \in Aivs, NEW w \in Aivs
        PROVE  Reach(s, u)' = Reach(s, w)'
    <3>1. Reach(s, u) = Reach(s, w)
      BY DEF IInv, InStep
    <3>2. CASE s = r /\ here = "barrierOwn"
      BY <1>1, <1>3, <3>2, CoreFacts DEF AivAt, OwnPcs
    <3>3. CASE s = r /\ here = "barrier"
      BY <1>3, <3>1, <3>3
    <3>4. CASE s # r
      BY <1>3, <3>1, <3>4
    <3> QED
      BY <3>2, <3>3, <3>4
  <2> QED
    BY <2>1 DEF InStep
<1>8. \A s \in Ranks, u \in Aivs : aiv'[s][u] = "copy" => aiv[s][u] = "copy"
  BY <1>1
<1> QED
  BY <1>3, <1>4, <1>5, <1>6, <1>7, <1>8, MovesKeep

(* The cube core takes the flags of both its vector cores, which are at    *)
(* the end.                                                                *)
LEMMA WaitGatheredKeeps ==
    ASSUME IInv, NEW r \in Ranks, NEW c \in Aics, WaitGathered(r, c)
    PROVE  IInv'
<1> USE DEF WaitGathered
<1>1. /\ \A s \in Ranks, d \in Aics :
           aic'[s][d] = IF s = r /\ d = c THEN "multiply" ELSE aic[s][d]
      /\ \A s \in Ranks, u \in Aivs :
           gathered'[s][u] = IF s = r /\ AicOf(u) = c THEN gathered[s][u] - 1 ELSE gathered[s][u]
      /\ \A u \in Aivs : AicOf(u) = c => gathered[r][u] > 0
  BY CubeOf DEF IInv, ShapesOK
<1>2. \A u \in Aivs : AicOf(u) = c => gathered[r][u] = 1 /\ aiv[r][u] = "done"
  BY <1>1, CoreFacts DEF GatheredOf
<1>3. \A s \in Ranks, u \in Aivs : Reach(s, u)' = Reach(s, u) /\ Had(s, u)' = Had(s, u)
  BY ReachStays
<1>4. ShapesOK'
  <2> DEFINE row == [u \in Aivs |-> IF u \in AivsOf(c) THEN gathered[r][u] - 1 ELSE gathered[r][u]]
  <2>1. row \in [Aivs -> Nat]
    BY <1>2, CubeOf DEF IInv, ShapesOK
  <2>2. gathered' = [gathered EXCEPT ![r] = row]
    OBVIOUS
  <2> HIDE DEF row
  <2> QED
    BY <2>1, <2>2 DEF IInv, ShapesOK, AicPcs
<1>5. ASSUME NEW s \in Ranks, NEW u \in Aivs
      PROVE  AivAt(s, u)' /\ GatheredOf(s, u)'
  <2>1. AivAt(s, u) /\ GatheredOf(s, u) /\ AicOf(u) \in Aics
    BY CoreFacts, CubeOf
  <2>2. AivAt(s, u)'
    BY <2>1, AivStays
  <2>3. CASE s = r /\ AicOf(u) = c
    <3>1. /\ aic'[s][AicOf(u)] = "multiply" /\ gathered'[s][u] = gathered[s][u] - 1
          /\ gathered[s][u] = 1 /\ aiv'[s][u] = "done"
      BY <1>1, <1>2, <2>1, <2>3
    <3>2. gathered'[s][u] = 0
      BY <3>1
    <3>3. GatheredOf(s, u)'
      BY <3>1, <3>2 DEF GatheredOf
    <3> QED
      BY <2>2, <3>3
  <2>4. CASE ~(s = r /\ AicOf(u) = c)
    <3>1. /\ aiv'[s][u] = aiv[s][u] /\ gathered'[s][u] = gathered[s][u]
          /\ aic'[s][AicOf(u)] = aic[s][AicOf(u)]
      BY <1>1, <2>1, <2>4
    <3>2. GatheredOf(s, u)'
      BY <2>1, <3>1, GatheredStays
    <3> QED
      BY <2>2, <3>2
  <2> QED
    BY <2>2, <2>3, <2>4
<1>6. InStep'
  BY <1>3, InStepStays
<1> QED
  BY <1>3, <1>4, <1>5, <1>6, ReachFacts, MovesKeep

(* A cube core that multiplies changes nothing the ranks exchange.         *)
LEMMA MultiplyKeeps ==
    ASSUME IInv, NEW r \in Ranks, NEW c \in Aics, Multiply(r, c)
    PROVE  IInv'
<1> USE DEF Multiply
<1>1. \A s \in Ranks, d \in Aics : aic'[s][d] = IF s = r /\ d = c THEN "done" ELSE aic[s][d]
  BY DEF IInv, ShapesOK
<1>2. \A s \in Ranks, u \in Aivs : Reach(s, u)' = Reach(s, u) /\ Had(s, u)' = Had(s, u)
  BY ReachStays
<1>3. ShapesOK'
  BY DEF IInv, ShapesOK, AicPcs
<1>4. ASSUME NEW s \in Ranks, NEW u \in Aivs
      PROVE  AivAt(s, u)' /\ GatheredOf(s, u)'
  <2>1. AivAt(s, u) /\ GatheredOf(s, u) /\ AicOf(u) \in Aics
    BY CoreFacts, CubeOf
  <2>2. AivAt(s, u)'
    BY <2>1, AivStays
  <2>3. GatheredOf(s, u)'
    BY <1>1, <2>1 DEF GatheredOf
  <2> QED
    BY <2>2, <2>3
<1>5. InStep'
  BY <1>2, InStepStays
<1> QED
  BY <1>2, <1>3, <1>4, <1>5, ReachFacts, MovesKeep

(* A vector core copies its part of the rank's own rows.                   *)
LEMMA CopyOwnKeeps ==
    ASSUME IInv, NEW r \in Ranks, NEW v \in Aivs, CopyOwn(r, v)
    PROVE  IInv'
<1> USE DEF CopyOwn, AivGoesTo
<1>1. /\ \A s \in Ranks, u \in Aivs :
           aiv'[s][u] = IF s = r /\ u = v THEN "barrierOwn" ELSE aiv[s][u]
      /\ \A s \in Ranks, q \in Ranks, u \in Aivs :
           symm'[s][q][u] = IF s = r /\ q = r /\ u = v THEN launch[r] ELSE symm[s][q][u]
  <2>1. \A s \in Ranks, u \in Aivs :
           aiv'[s][u] = IF s = r /\ u = v THEN "barrierOwn" ELSE aiv[s][u]
    BY DEF IInv, ShapesOK, Shaped
  <2>2. ASSUME NEW s \in Ranks, NEW q \in Ranks, NEW u \in Aivs
        PROVE  symm'[s][q][u]
                 = IF s = r /\ q = r /\ u = v THEN launch[r] ELSE symm[s][q][u]
    <3>1. symm' = [symm EXCEPT ![r] = [symm[r] EXCEPT ![r] = [symm[r][r] EXCEPT ![v] = launch[r]]]]
      OBVIOUS
    <3>2. /\ symm = [t \in Ranks |-> symm[t]] /\ symm[r] = [t \in Ranks |-> symm[r][t]]
          /\ symm[r][r] = [w \in Aivs |-> symm[r][r][w]]
      BY DEF IInv, ShapesOK, Shaped
    <3> QED
      BY <3>1, <3>2
  <2> QED
    BY <2>1, <2>2
<1>2. \A s \in Ranks, u \in Aivs : Reach(s, u)' = Reach(s, u)
  BY <1>1 DEF Reach, OwnPcs
<1>3. ShapesOK'
  <2> DEFINE own == [symm[r][r] EXCEPT ![v] = launch[r]]
             rows == [symm[r] EXCEPT ![r] = own]
  <2>1. symm' = [symm EXCEPT ![r] = rows]
    OBVIOUS
  <2>2. own = [u \in Aivs |-> own[u]]
    <3>1. symm[r][r] = [u \in Aivs |-> symm[r][r][u]]
      BY DEF IInv, ShapesOK, Shaped
    <3>2. own = [u \in Aivs |-> IF u = v THEN launch[r] ELSE symm[r][r][u]]
      BY <3>1
    <3> QED
      BY <3>2
  <2> HIDE DEF own
  <2>3. \A p \in Ranks : rows[p] = IF p = r THEN own ELSE symm[r][p]
    BY DEF IInv, ShapesOK, Shaped
  <2>4. Shaped(rows)
    <3>1. \A p \in Ranks : rows[p] = [u \in Aivs |-> rows[p][u]]
      BY <2>2, <2>3 DEF IInv, ShapesOK, Shaped
    <3>2. rows = [p \in Ranks |-> rows[p]]
      BY DEF IInv, ShapesOK, Shaped
    <3> QED
      BY <3>1, <3>2 DEF Shaped
  <2> HIDE DEF rows
  <2>5. symm' = [s \in Ranks |-> symm'[s]]
    BY <2>1 DEF IInv, ShapesOK, Shaped
  <2>6. \A s \in Ranks : symm'[s] = IF s = r THEN rows ELSE symm[s]
    BY <2>1 DEF IInv, ShapesOK
  <2>7. \A s \in Ranks : Shaped(symm'[s])
    BY <2>4, <2>6 DEF IInv, ShapesOK
  <2>8. aiv' \in [Ranks -> [Aivs -> AivPcs]]
    BY DEF IInv, ShapesOK, AivPcs, OwnPcs
  <2> QED
    BY <2>5, <2>7, <2>8 DEF IInv, ShapesOK
<1>4. CoresAt'
  <2>1. ASSUME NEW s \in Ranks, NEW u \in Aivs
        PROVE  AivAt(s, u)' /\ GatheredOf(s, u)'
    <3>1. AivAt(s, u) /\ GatheredOf(s, u)
      BY CoreFacts
    <3>2. AivAt(s, u)'
      BY <1>1, <3>1 DEF AivAt, OwnPcs, LoopPcs, EndPcs
    <3>3. GatheredOf(s, u)'
      BY <1>1, <3>1, GatheredStays
    <3> QED
      BY <3>2, <3>3
  <2> QED
    BY <2>1 DEF CoresAt
<1>5. InStep'
  BY <1>2, InStepStays
<1>6. ASSUME FirstLaunch'
      PROVE  /\ \A s \in Ranks, u \in Aivs : RowsOf(s, u)' /\ HasWaited(s, u)'
             /\ \A s \in Ranks, i \in Rounds : SlotSays(s, i)'
  <2>1. FirstLaunch
    BY <1>6, SameFirstLaunch
  <2>2. ASSUME NEW s \in Ranks, NEW u \in Aivs
        PROVE  RowsOf(s, u)' /\ HasWaited(s, u)'
    <3>1. RowsOf(s, u) /\ HasWaited(s, u)
      BY <2>1 DEF IInv, RowsFollow
    <3>2. HasWaited(s, u)'
      BY <1>1, <3>1, WaitedStays
    <3>3. CASE s = r /\ u = v
      <4>1. Had(s, u)' = 1
        BY <1>1, <3>3, CoreFacts DEF Had, AivAt, OwnPcs
      <4>2. symm'[r][r][v] = 1
        BY <1>1, <2>1 DEF FirstLaunch
      <4>3. \A q \in Ranks : q \div 1 = s \div 1 => q = s
        BY FirstRound DEF Ranks
      <4> QED
        BY <3>2, <3>3, <4>1, <4>2, <4>3 DEF RowsOf
    <3>4. CASE ~(s = r /\ u = v)
      <4>1. aiv'[s][u] = aiv[s][u] /\ \A q \in Ranks : symm'[s][q][u] = symm[s][q][u]
        BY <1>1, <3>4
      <4>2. RowsOf(s, u)'
        BY <3>1, <4>1, ReachStays, RowsStay
      <4> QED
        BY <3>2, <4>2
    <3> QED
      BY <3>3, <3>4
  <2>3. ASSUME NEW s \in Ranks, NEW i \in Rounds
        PROVE  SlotSays(s, i)'
    BY <1>2, <2>1, ReachFacts, SlotsStay DEF IInv, RowsFollow
  <2> QED
    BY <2>2, <2>3
<1> QED
  BY <1>3, <1>4, <1>5, <1>6 DEF IInv, RowsFollow

(* A vector core copies the rows of its partner's group, which the partner *)
(* has had since it signalled.                                             *)
LEMMA CopyKeeps ==
    ASSUME IInv, NEW r \in Ranks, NEW v \in Aivs, Copy(r, v)
    PROVE  IInv'
<1> USE DEF AivGoesTo
<1> DEFINE i == coc[r][v]
           q == RemoteId(r, i)
           group == RemoteGroup(r, i)
           old(s) == Oldest({symm[q][s][u] : u \in Aivs})
<1>0. /\ aiv[r][v] = "copy"
      /\ symm' = [symm EXCEPT ![r] = [s \in Ranks |->
             IF s \in group THEN [symm[r][s] EXCEPT ![v] = old(s)] ELSE symm[r][s]]]
      /\ aiv' = [aiv EXCEPT ![r][v] = "barrier"]
      /\ UNCHANGED <<launch, aic, coc, offset, padded, slot, gathered>>
  BY DEF Copy
<1>1. i \in Rounds /\ i \in Nat \ {0}
  BY <1>0, CoreFacts DEF AivAt, LoopPcs
<1> HIDE DEF i, q, group, old
<1>2. /\ \A s \in Ranks, u \in Aivs :
           aiv'[s][u] = IF s = r /\ u = v THEN "barrier" ELSE aiv[s][u]
      /\ \A s \in Ranks, p \in Ranks, u \in Aivs :
           symm'[s][p][u] = IF s = r /\ u = v /\ p \in group THEN old(p) ELSE symm[s][p][u]
  <2>1. \A s \in Ranks, u \in Aivs :
           aiv'[s][u] = IF s = r /\ u = v THEN "barrier" ELSE aiv[s][u]
    BY <1>0 DEF IInv, ShapesOK, Shaped
  <2>2. ASSUME NEW s \in Ranks, NEW p \in Ranks, NEW u \in Aivs
        PROVE  symm'[s][p][u]
                 = IF s = r /\ u = v /\ p \in group THEN old(p) ELSE symm[s][p][u]
    <3>1. s # r => symm'[s] = symm[s]
      BY <1>0 DEF IInv, ShapesOK, Shaped
    <3>2. s = r => symm'[s][p] = IF p \in group THEN [symm[r][p] EXCEPT ![v] = old(p)]
                                ELSE symm[r][p]
      BY <1>0 DEF IInv, ShapesOK, Shaped
    <3>3. symm[r][p] = [w \in Aivs |-> symm[r][p][w]]
      BY DEF IInv, ShapesOK, Shaped
    <3> QED
      BY <3>1, <3>2, <3>3
  <2> QED
    BY <2>1, <2>2
<1>3. \A s \in Ranks, u \in Aivs : Reach(s, u)' = Reach(s, u)
  BY <1>0, <1>2 DEF Reach, OwnPcs
<1>4. ShapesOK'
  <2>1. symm' = [s \in Ranks |-> symm'[s]]
    BY <1>0 DEF IInv, ShapesOK, Shaped
  <2>2. ASSUME NEW s \in Ranks
        PROVE  Shaped(symm'[s])
    <3>1. CASE s = r
      <4>1. symm'[r] = [p \in Ranks |->
               IF p \in group THEN [symm[r][p] EXCEPT ![v] = old(p)] ELSE symm[r][p]]
        BY <1>0 DEF IInv, ShapesOK
      <4>2. \A p \in Ranks : symm[r][p] = [u \in Aivs |-> symm[r][p][u]]
        BY DEF IInv, ShapesOK, Shaped
      <4>3. \A p \in Ranks : symm'[r][p] = [u \in Aivs |-> symm'[r][p][u]]
        BY <4>1, <4>2
      <4> QED
        BY <3>1, <4>1, <4>3 DEF Shaped
    <3>2. CASE s # r
      <4>1. symm'[s] = symm[s]
        BY <1>0, <3>2 DEF IInv, ShapesOK
      <4> QED
        BY <4>1 DEF IInv, ShapesOK
    <3> QED
      BY <3>1, <3>2
  <2>3. aiv' \in [Ranks -> [Aivs -> AivPcs]]
    BY <1>0 DEF IInv, ShapesOK, AivPcs, LoopPcs
  <2> QED
    BY <1>0, <2>1, <2>2, <2>3 DEF IInv, ShapesOK
<1>5. CoresAt'
  <2>1. ASSUME NEW s \in Ranks, NEW u \in Aivs
        PROVE  AivAt(s, u)' /\ GatheredOf(s, u)'
    <3>1. AivAt(s, u) /\ GatheredOf(s, u)
      BY CoreFacts
    <3>2. AivAt(s, u)'
      BY <1>0, <1>2, <3>1 DEF AivAt, OwnPcs, LoopPcs, EndPcs
    <3>3. GatheredOf(s, u)'
      BY <1>0, <1>2, <3>1, GatheredStays
    <3> QED
      BY <3>2, <3>3
  <2> QED
    BY <2>1 DEF CoresAt
<1>6. InStep'
  BY <1>3, InStepStays
<1>7. ASSUME FirstLaunch'
      PROVE  /\ \A s \in Ranks, u \in Aivs : RowsOf(s, u)' /\ HasWaited(s, u)'
             /\ \A s \in Ranks, j \in Rounds : SlotSays(s, j)'
  <2>1. FirstLaunch
    BY <1>0, <1>7, SameFirstLaunch
  <2>2. \A p \in Ranks : p \in group => old(p) = 1
    <3>1. ASSUME NEW p \in Ranks, p \in group
          PROVE  old(p) = 1
      <4>1. \A u \in Aivs : symm[q][p][u] = 1
        BY <1>0, <2>1, <3>1, FindsRows DEF i, q, group
      <4>2. {symm[q][p][u] : u \in Aivs} = {1}
        BY <4>1, CubeOf
      <4>3. Oldest({1}) = 1
        BY DEF Oldest
      <4> QED
        BY <4>2, <4>3 DEF old
    <3> QED
      BY <3>1
  <2>3. ASSUME NEW s \in Ranks, NEW u \in Aivs
        PROVE  RowsOf(s, u)' /\ HasWaited(s, u)'
    <3>1. RowsOf(s, u) /\ HasWaited(s, u)
      BY <2>1 DEF IInv, RowsFollow
    <3>2. HasWaited(s, u)'
      BY <1>0, <1>2, <3>1, WaitedStays
    <3>3. CASE s = r /\ u = v
      <4>1. Had(r, v) = i /\ Had(r, v)' = 2 * i
        BY <1>0, <1>2 DEF Had, i
      <4>2. \A p \in Ranks : p \div i = r \div i => symm[r][p][v] = 1
        BY <1>1, <3>1, <3>3, <4>1 DEF RowsOf
      <4>3. ASSUME NEW p \in Ranks, p \div (2 * i) = r \div (2 * i)
            PROVE  symm'[r][p][v] = 1
        <5>1. p \div i = r \div i \/ p \in group
          BY <1>1, <4>3, GroupSplits, GroupIs DEF group
        <5> QED
          BY <1>2, <2>2, <4>2, <5>1
      <4> QED
        BY <3>2, <3>3, <4>1, <4>3 DEF RowsOf
    <3>4. CASE ~(s = r /\ u = v)
      <4>1. aiv'[s][u] = aiv[s][u] /\ \A p \in Ranks : symm'[s][p][u] = symm[s][p][u]
        BY <1>2, <3>4
      <4>2. RowsOf(s, u)'
        BY <1>0, <3>1, <4>1, ReachStays, RowsStay
      <4> QED
        BY <3>2, <4>2
    <3> QED
      BY <3>3, <3>4
  <2>4. ASSUME NEW s \in Ranks, NEW j \in Rounds
        PROVE  SlotSays(s, j)'
    BY <1>0, <1>3, <2>1, ReachFacts, SlotsStay DEF IInv, RowsFollow
  <2> QED
    BY <2>3, <2>4
<1> QED
  BY <1>4, <1>5, <1>6, <1>7 DEF IInv, RowsFollow

(* A signal to the partner of the round i, from a rank that has its rows   *)
(* of the round together.                                                  *)
LEMMA SignalSays ==
    ASSUME IInv, FirstLaunch, NEW r \in Ranks, NEW i \in Rounds,
           \A u \in Aivs : Reach(r, u) >= i,
           \A s \in Ranks, u \in Aivs : Reach(s, u)' = Reach(s, u),
           slot' = [slot EXCEPT ![RemoteId(r, i)][Number(i)] = 1],
           NEW s \in Ranks, NEW j \in Rounds
    PROVE  SlotSays(s, j)'
<1>1. SlotSays(s, j)
  BY DEF IInv, RowsFollow
<1>2. CASE s = RemoteId(r, i) /\ j = i
  <2>1. RemoteId(s, j) = r
    BY <1>2, RemoteFacts
  <2> QED
    BY <1>2, <2>1 DEF SlotSays
<1>3. CASE ~(s = RemoteId(r, i) /\ j = i)
  <2>1. slot'[s][Number(j)] = slot[s][Number(j)]
    BY <1>3, NumbersDiffer, RemoteFacts, RoundFacts DEF IInv, ShapesOK
  <2> QED
    BY <1>1, <2>1, ReachFacts, SlotsStay
<1> QED
  BY <1>2, <1>3

(* Nor does it take another signal back. *)
LEMMA SignalsLast ==
    ASSUME IInv, NEW q \in Ranks, NEW n \in Slots, slot' = [slot EXCEPT ![q][n] = 1]
    PROVE  /\ slot' \in [Ranks -> [Slots -> 0..1]]
           /\ \A s \in Ranks, m \in Slots : slot[s][m] = 1 => slot'[s][m] = 1
BY DEF IInv, ShapesOK

(* A vector core that copies has waited on one of the slots.               *)
LEMMA SlotOf ==
    ASSUME IInv, NEW r \in Ranks, NEW v \in Aivs, aiv[r][v] = "copy"
    PROVE  offset[r][v] - 1 \in Slots
BY CoreFacts, RoundFacts DEF AivAt, LoopPcs

(* The first signal says that the rank has its own rows.                   *)
LEMMA SignalOwnKeeps ==
    ASSUME IInv, NEW r \in Ranks, NEW v \in Aivs, SignalOwn(r, v)
    PROVE  IInv'
<1> USE DEF AivGoesTo
<1>0. /\ aiv[r][v] = "signalOwn" /\ coc[r][v] = 1
      /\ aiv' = [aiv EXCEPT ![r][v] = "wait"]
      /\ slot' = [slot EXCEPT ![RemoteId(r, 1)][Number(1)] = 1]
      /\ UNCHANGED <<launch, aic, coc, offset, padded, symm, gathered>>
  BY CoreFacts, FirstRound DEF SignalOwn, AivAt
<1>1. /\ 1 \in Rounds /\ RemoteId(r, 1) \in Ranks /\ Number(1) \in Slots
  BY FirstRound, RemoteFacts, RoundFacts
<1>2. \A s \in Ranks, u \in Aivs : aiv'[s][u] = IF s = r /\ u = v THEN "wait" ELSE aiv[s][u]
  BY <1>0 DEF IInv, ShapesOK
<1>3. \A s \in Ranks, u \in Aivs : Reach(s, u)' = Reach(s, u) /\ Had(s, u)' = Had(s, u)
  BY <1>0, <1>2 DEF Reach, Had, OwnPcs
<1>4. /\ slot' \in [Ranks -> [Slots -> 0..1]]
      /\ \A s \in Ranks, m \in Slots : slot[s][m] = 1 => slot'[s][m] = 1
  BY <1>0, <1>1, SignalsLast DEF IInv, ShapesOK
<1>5. ShapesOK'
  <2>1. aiv' \in [Ranks -> [Aivs -> AivPcs]]
    BY <1>0 DEF IInv, ShapesOK, AivPcs, LoopPcs
  <2> QED
    BY <1>0, <1>4, <2>1 DEF IInv, ShapesOK
<1>6. CoresAt'
  <2>1. ASSUME NEW s \in Ranks, NEW u \in Aivs
        PROVE  AivAt(s, u)' /\ GatheredOf(s, u)'
    <3>1. AivAt(s, u) /\ GatheredOf(s, u)
      BY CoreFacts
    <3>2. AivAt(s, u)'
      BY <1>0, <1>1, <1>2, <3>1 DEF AivAt, OwnPcs, LoopPcs, EndPcs
    <3>3. GatheredOf(s, u)'
      BY <1>0, <1>2, <3>1, GatheredStays
    <3> QED
      BY <3>2, <3>3
  <2> QED
    BY <2>1 DEF CoresAt
<1>7. InStep'
  BY <1>3, InStepStays
<1>8. ASSUME FirstLaunch'
      PROVE  /\ \A s \in Ranks, u \in Aivs : RowsOf(s, u)' /\ HasWaited(s, u)'
             /\ \A s \in Ranks, j \in Rounds : SlotSays(s, j)'
  <2>1. FirstLaunch
    BY <1>0, <1>8, SameFirstLaunch
  <2>2. ASSUME NEW s \in Ranks, NEW u \in Aivs
        PROVE  RowsOf(s, u)' /\ HasWaited(s, u)'
    <3>1. RowsOf(s, u) /\ HasWaited(s, u)
      BY <2>1 DEF IInv, RowsFollow
    <3>2. RowsOf(s, u)'
      BY <1>0, <1>3, <3>1, RowsStay
    <3>3. HasWaited(s, u)'
      BY <1>0, <1>2, <1>4, <3>1, SlotOf DEF HasWaited
    <3> QED
      BY <3>2, <3>3
  <2>3. ASSUME NEW s \in Ranks, NEW j \in Rounds
        PROVE  SlotSays(s, j)'
    <3>1. Reach(r, v) = 1
      BY <1>0 DEF Reach, OwnPcs
    <3>2. \A u \in Aivs : Reach(r, u) >= 1
      BY <3>1 DEF IInv, InStep
    <3> QED
      BY <1>0, <1>1, <1>3, <2>1, <3>2, SignalSays
  <2> QED
    BY <2>2, <2>3
<1> QED
  BY <1>5, <1>6, <1>7, <1>8 DEF IInv, RowsFollow

(* A signal to the partner of the next round says that the rank has the    *)
(* rows of that round, and the last round sends none.                      *)
LEMMA SignalKeeps ==
    ASSUME IInv, NEW r \in Ranks, NEW v \in Aivs, Signal(r, v)
    PROVE  IInv'
<1> USE DEF AivGoesTo
<1> DEFINE i == coc[r][v]
           last == 2 * i >= RankSize
           pcNext == IF last THEN "setGathered" ELSE "wait"
<1>0. /\ aiv[r][v] = "signal" /\ i \in Rounds /\ i \in Nat \ {0} /\ RankSize \in Nat \ {0}
      /\ offset[r][v] = Number(2 * i)
      /\ last => 2 * i = RankSize
      /\ ~last => 2 * i \in Rounds
  <2>1. aiv[r][v] = "signal"
    BY DEF Signal
  <2>2. i \in Rounds /\ offset[r][v] = Number(i) + 1
    BY <2>1, CoreFacts DEF AivAt, LoopPcs
  <2> HIDE DEF i
  <2>3. /\ i \in Nat \ {0} /\ RankSize \in Nat \ {0} /\ 2 * i <= RankSize
        /\ 2 * i < RankSize => 2 * i \in Rounds
        /\ Number(2 * i) = Number(i) + 1
    BY <2>2, RoundFacts
  <2> QED
    BY <2>1, <2>2, <2>3
<1>1. /\ aiv' = [aiv EXCEPT ![r][v] = pcNext]
      /\ coc' = [coc EXCEPT ![r][v] = 2 * i]
      /\ offset' = [offset EXCEPT ![r][v] = offset[r][v] + 1]
      /\ slot' = IF v = 0 /\ ~last
                 THEN [slot EXCEPT ![RemoteId(r, 2 * i)][Number(2 * i)] = 1] ELSE slot
      /\ UNCHANGED <<launch, aic, padded, symm, gathered>>
  BY <1>0 DEF Signal, IsLastRound
<1>2. 2 * i \in Rounds \cup {RankSize}
  BY <1>0
<1> HIDE DEF i, last, pcNext
<1>3. /\ \A s \in Ranks, u \in Aivs :
           aiv'[s][u] = IF s = r /\ u = v THEN pcNext ELSE aiv[s][u]
      /\ \A s \in Ranks, u \in Aivs :
           coc'[s][u] = IF s = r /\ u = v THEN 2 * i ELSE coc[s][u]
      /\ \A s \in Ranks, u \in Aivs :
           offset'[s][u] = IF s = r /\ u = v THEN offset[r][v] + 1 ELSE offset[s][u]
  BY <1>1 DEF IInv, ShapesOK
<1>4. pcNext \in {"setGathered", "wait"}
  BY DEF pcNext
<1>5. \A s \in Ranks, u \in Aivs : Reach(s, u)' = Reach(s, u) /\ Had(s, u)' = Had(s, u)
  <2>1. ASSUME NEW s \in Ranks, NEW u \in Aivs
        PROVE  Reach(s, u)' = Reach(s, u) /\ Had(s, u)' = Had(s, u)
    <3>1. CASE s = r /\ u = v
      <4>1. /\ aiv'[r][v] \in {"setGathered", "wait"} /\ coc'[r][v] = 2 * i
            /\ aiv[r][v] = "signal" /\ coc[r][v] = i
        BY <1>0, <1>3, <1>4 DEF i
      <4> QED
        BY <3>1, <4>1 DEF Reach, Had, OwnPcs
    <3>2. CASE ~(s = r /\ u = v)
      <4>1. aiv'[s][u] = aiv[s][u] /\ coc'[s][u] = coc[s][u]
        BY <1>3, <3>2
      <4> QED
        BY <4>1, ReachStays
    <3> QED
      BY <3>1, <3>2
  <2> QED
    BY <2>1
<1>6. /\ slot' \in [Ranks -> [Slots -> 0..1]]
      /\ \A s \in Ranks, m \in Slots : slot[s][m] = 1 => slot'[s][m] = 1
  <2>1. CASE v = 0 /\ ~last
    <3>1. RemoteId(r, 2 * i) \in Ranks /\ Number(2 * i) \in Slots
      BY <1>0, <2>1, RemoteFacts, RoundFacts
    <3>2. slot' = [slot EXCEPT ![RemoteId(r, 2 * i)][Number(2 * i)] = 1]
      BY <1>1, <2>1
    <3> QED
      BY <3>1, <3>2, SignalsLast
  <2>2. CASE ~(v = 0 /\ ~last)
    <3>1. slot' = slot
      BY <1>1, <2>2
    <3> QED
      BY <3>1 DEF IInv, ShapesOK
  <2> QED
    BY <2>1, <2>2
<1>7. ShapesOK'
  <2>1. aiv' \in [Ranks -> [Aivs -> AivPcs]]
    BY <1>1, <1>4 DEF IInv, ShapesOK, AivPcs, LoopPcs, EndPcs
  <2>2. coc' \in [Ranks -> [Aivs -> Rounds \cup {RankSize}]]
    BY <1>1, <1>2 DEF IInv, ShapesOK
  <2>3. offset' \in [Ranks -> [Aivs -> Nat]]
    <3>1. offset[r][v] + 1 \in Nat
      BY CoreFacts
    <3> QED
      BY <1>1, <3>1 DEF IInv, ShapesOK
  <2> QED
    BY <1>1, <1>6, <2>1, <2>2, <2>3 DEF IInv, ShapesOK
<1>8. CoresAt'
  <2>1. ASSUME NEW s \in Ranks, NEW u \in Aivs
        PROVE  AivAt(s, u)' /\ GatheredOf(s, u)'
    <3>1. AivAt(s, u) /\ GatheredOf(s, u)
      BY CoreFacts
    <3>2. CASE s = r /\ u = v
      <4>1. /\ aiv'[r][v] = pcNext /\ coc'[r][v] = 2 * i
            /\ offset'[r][v] = Number(2 * i) + 1
        BY <1>0, <1>3
      <4>2. padded'[r][v] = launch'[r]
        BY <1>0, <1>1, CoreFacts DEF AivAt
      <4>3. AivAt(r, v)'
        BY <1>0, <4>1, <4>2 DEF AivAt, pcNext, OwnPcs, LoopPcs, EndPcs
      <4>4. aiv'[r][v] # "done" /\ aiv[r][v] # "done"
        BY <1>0, <1>4, <4>1
      <4>5. GatheredOf(r, v)'
        BY <1>1, <3>1, <3>2, <4>4, GatheredStays
      <4> QED
        BY <3>2, <4>3, <4>5
    <3>3. CASE ~(s = r /\ u = v)
      <4>1. aiv'[s][u] = aiv[s][u] /\ coc'[s][u] = coc[s][u] /\ offset'[s][u] = offset[s][u]
        BY <1>3, <3>3
      <4> QED
        BY <1>1, <3>1, <4>1, AivStays, GatheredStays
    <3> QED
      BY <3>2, <3>3
  <2> QED
    BY <2>1 DEF CoresAt
<1>9. InStep'
  BY <1>5, InStepStays
<1>10. ASSUME FirstLaunch'
       PROVE  /\ \A s \in Ranks, u \in Aivs : RowsOf(s, u)' /\ HasWaited(s, u)'
              /\ \A s \in Ranks, j \in Rounds : SlotSays(s, j)'
  <2>1. FirstLaunch
    BY <1>1, <1>10, SameFirstLaunch
  <2>2. ASSUME NEW s \in Ranks, NEW u \in Aivs
        PROVE  RowsOf(s, u)' /\ HasWaited(s, u)'
    <3>1. RowsOf(s, u) /\ HasWaited(s, u)
      BY <2>1 DEF IInv, RowsFollow
    <3>2. RowsOf(s, u)'
      BY <1>1, <1>5, <3>1, RowsStay
    <3>3. HasWaited(s, u)'
      <4>1. aiv'[s][u] = "copy" => aiv[s][u] = "copy" /\ offset'[s][u] = offset[s][u]
        BY <1>3, <1>4
      <4> QED
        BY <1>6, <3>1, <4>1, SlotOf DEF HasWaited
    <3> QED
      BY <3>2, <3>3
  <2>3. ASSUME NEW s \in Ranks, NEW j \in Rounds
        PROVE  SlotSays(s, j)'
    <3>1. CASE v = 0 /\ ~last
      <4>1. Reach(r, v) = 2 * i
        BY <1>0 DEF Reach, OwnPcs, i
      <4>2. \A u \in Aivs : Reach(r, u) >= 2 * i
        <5>1. \A u \in Aivs : Reach(r, u) = 2 * i
          BY <4>1 DEF IInv, InStep
        <5> QED
          BY <1>0, <5>1
      <4>3. slot' = [slot EXCEPT ![RemoteId(r, 2 * i)][Number(2 * i)] = 1]
        BY <1>1, <3>1
      <4>4. 2 * i \in Rounds
        BY <1>0, <3>1
      <4> QED
        BY <1>5, <2>1, <4>2, <4>3, <4>4, SignalSays
    <3>2. CASE ~(v = 0 /\ ~last)
      <4>1. slot' = slot
        BY <1>1, <3>2
      <4> QED
        BY <1>5, <2>1, <4>1, ReachFacts, SlotsStay DEF IInv, RowsFollow
    <3> QED
      BY <3>1, <3>2
  <2> QED
    BY <2>2, <2>3
<1> QED
  BY <1>7, <1>8, <1>9, <1>10 DEF IInv, RowsFollow

(* A rank that starts again ends the first launch; what is kept of its     *)
(* cores and flags is kept as at the beginning.                            *)
LEMMA RelaunchKeeps ==
    ASSUME IInv, NEW r \in Ranks, Relaunch(r)
    PROVE  IInv'
<1> USE DEF Relaunch, RankIsDone
<1>1. launch[r] + 1 \in 2..Launches
  BY CoreFacts, CubeOf, LaunchesAssumption DEF IInv, ShapesOK
<1>2. \A s \in Ranks, u \in Aivs :
        /\ s = r => /\ aiv[s][u] = "done" /\ aic[s][AicOf(u)] = "done"
                    /\ aiv'[s][u] = "barrierAll" /\ aic'[s][AicOf(u)] = "waitGathered"
                    /\ coc'[s][u] = 1 /\ offset'[s][u] = 1
        /\ s # r => /\ aiv'[s][u] = aiv[s][u] /\ aic'[s][AicOf(u)] = aic[s][AicOf(u)]
                    /\ coc'[s][u] = coc[s][u] /\ offset'[s][u] = offset[s][u]
                    /\ launch'[s] = launch[s]
  BY CubeOf DEF IInv, ShapesOK
<1>3. ShapesOK'
  BY <1>1, FirstRound DEF IInv, ShapesOK, AivPcs, OwnPcs, AicPcs
<1>4. CoresAt'
  <2>1. ASSUME NEW s \in Ranks, NEW u \in Aivs
        PROVE  AivAt(s, u)' /\ GatheredOf(s, u)'
    <3>1. AivAt(s, u) /\ GatheredOf(s, u)
      BY CoreFacts
    <3>2. CASE s = r
      <4>1. AivAt(s, u)'
        BY <1>2, <3>2, FirstRound DEF AivAt, OwnPcs, LoopPcs, EndPcs
      <4>2. gathered'[s][u] = 0
        BY <1>2, <3>1, <3>2 DEF GatheredOf
      <4>3. GatheredOf(s, u)'
        BY <1>2, <3>2, <4>2 DEF GatheredOf
      <4> QED
        BY <4>1, <4>3
    <3>3. CASE s # r
      BY <1>2, <3>1, <3>3, AivStays, GatheredStays
    <3> QED
      BY <3>2, <3>3
  <2> QED
    BY <2>1 DEF CoresAt
<1>5. InStep'
  <2>1. ASSUME NEW s \in Ranks, NEW u \in Aivs, NEW w \in Aivs
        PROVE  Reach(s, u)' = Reach(s, w)'
    <3>1. CASE s = r
      BY <1>2, <3>1 DEF Reach, OwnPcs
    <3>2. CASE s # r
      BY <1>2, <3>2, ReachStays DEF IInv, InStep
    <3> QED
      BY <3>1, <3>2
  <2> QED
    BY <2>1 DEF InStep
<1>6. ~FirstLaunch'
  <2>1. launch'[r] = launch[r] + 1
    BY DEF IInv, ShapesOK
  <2> QED
    BY <1>1, <2>1 DEF FirstLaunch
<1> QED
  BY <1>3, <1>4, <1>5, <1>6 DEF IInv, RowsFollow

(* Every step keeps the rows of a rank to what its signals have said.      *)
THEOREM NextIInv == IInv /\ [Next]_vars => IInv'
<1> SUFFICES ASSUME IInv, [Next]_vars
             PROVE  IInv'
  OBVIOUS
<1>1. CASE BarrierAll
  BY <1>1, BarrierAllKeeps
<1>2. ASSUME NEW r \in Ranks, Barriers(r)
      PROVE  IInv'
  <2>1. CASE BarrierOwn(r)
    <3> DEFINE there == [v \in Aivs |-> IF v = 0 THEN "signalOwn" ELSE "wait"]
    <3>1. there \in [Aivs -> {"signalOwn", "wait"}]
      OBVIOUS
    <3>2. /\ AivsMeet(r, "barrierOwn", there)
          /\ UNCHANGED <<launch, aic, coc, offset, padded, symm, slot, gathered>>
      BY <2>1 DEF BarrierOwn
    <3> HIDE DEF there
    <3> QED
      BY <3>1, <3>2, MeetingKeeps
  <2>2. CASE Barrier(r)
    <3> DEFINE there == [v \in Aivs |-> "signal"]
    <3>1. there \in [Aivs -> {"signal"}]
      OBVIOUS
    <3>2. /\ AivsMeet(r, "barrier", there)
          /\ UNCHANGED <<launch, aic, coc, offset, padded, symm, slot, gathered>>
      BY <2>2 DEF Barrier
    <3> HIDE DEF there
    <3> QED
      BY <3>1, <3>2, MeetingKeeps
  <2> QED
    BY <1>2, <2>1, <2>2 DEF Barriers
<1>3. ASSUME NEW r \in Ranks, Relaunch(r)
      PROVE  IInv'
  BY <1>3, RelaunchKeeps
<1>4. ASSUME NEW r \in Ranks, NEW v \in Aivs, Aiv(r, v)
      PROVE  IInv'
  BY <1>4, PadBKeeps, CopyOwnKeeps, SignalOwnKeeps, WaitKeeps, CopyKeeps, SignalKeeps,
     SetGatheredKeeps DEF Aiv
<1>5. ASSUME NEW r \in Ranks, NEW c \in Aics, Aic(r, c)
      PROVE  IInv'
  BY <1>5, WaitGatheredKeeps, MultiplyKeeps DEF Aic
<1>6. CASE UNCHANGED vars
  <2>1. ShapesOK'
    BY <1>6 DEF IInv, ShapesOK, vars
  <2>2. \A s \in Ranks, u \in Aivs : Reach(s, u)' = Reach(s, u) /\ Had(s, u)' = Had(s, u)
    BY <1>6, ReachStays DEF vars
  <2>3. ASSUME NEW s \in Ranks, NEW u \in Aivs
        PROVE  AivAt(s, u)' /\ GatheredOf(s, u)'
    BY <1>6, CoreFacts, AivStays, GatheredStays DEF vars
  <2>4. InStep'
    BY <2>2, InStepStays
  <2> QED
    BY <1>6, <2>1, <2>2, <2>3, <2>4, ReachFacts, MovesKeep DEF vars
<1>7. CASE Ended
  BY <1>6, <1>7 DEF Ended
<1> QED
  BY <1>1, <1>2, <1>3, <1>4, <1>5, <1>6, <1>7 DEF Next

(* So they are in every state of every behaviour.                          *)
THEOREM Invariance == Spec => []IInv
BY InitIInv, NextIInv, PTL DEF Spec

(* A cube core multiplies only when its rank has got to the end. *)
LEMMA AllThere ==
    ASSUME IInv, NEW r \in Ranks, NEW c \in Aics, aic[r][c] = "multiply", NEW u \in Aivs
    PROVE  Reach(r, u) = RankSize
<1>1. 2 * c \in Aivs /\ AicOf(2 * c) = c
  BY CoresAssumption DEF Aics, Aivs, AicOf
<1>2. aiv[r][2 * c] = "done"
  BY <1>1, CoreFacts DEF GatheredOf
<1>3. Reach(r, 2 * c) = RankSize
  BY <1>1, <1>2, CoreFacts DEF AivAt, EndPcs, Reach, OwnPcs
<1> QED
  BY <1>1, <1>3 DEF IInv, InStep

(* For any number of ranks and cores, and in every launch, a cube core     *)
(* finds B padded by all vector cores of its rank.                         *)
THEOREM MultipliesOnlyPadded == Spec => []MultipliesPaddedB
<1>1. IInv => MultipliesPaddedB
  <2> SUFFICES ASSUME IInv, NEW r \in Ranks, NEW c \in Aics, aic[r][c] = "multiply",
                      NEW u \in Aivs
               PROVE  padded[r][u] = launch[r]
    BY DEF MultipliesPaddedB
  <2>1. Reach(r, u) # 0
    BY AllThere, FirstRound
  <2> QED
    BY <2>1, CoreFacts DEF Reach, OwnPcs, AivAt
<1> QED
  BY <1>1, Invariance, PTL

(* What a vector core copies in the first launch is there.                 *)
LEMMA InvReads == IInv /\ FirstLaunch => ReadsGatheredRows
<1> SUFFICES ASSUME IInv, FirstLaunch, NEW r \in Ranks, NEW v \in Aivs, aiv[r][v] = "copy",
                    NEW s \in RemoteGroup(r, coc[r][v]), NEW u \in Aivs
             PROVE  symm[RemoteId(r, coc[r][v])][s][u] = launch[r]
  BY DEF ReadsGatheredRows
<1>1. launch[r] = 1
  BY DEF FirstLaunch
<1> QED
  BY <1>1, FindsRows

(* So are the rows a cube core multiplies in the first launch.             *)
LEMMA InvWhole == IInv /\ FirstLaunch => MultipliesWholeA
<1> SUFFICES ASSUME IInv, FirstLaunch, NEW r \in Ranks, NEW c \in Aics, aic[r][c] = "multiply",
                    NEW s \in Ranks, NEW u \in Aivs
             PROVE  symm[r][s][u] = launch[r]
  BY DEF MultipliesWholeA
<1>1. Reach(r, u) = RankSize /\ RankSize \in Nat \ {0}
  BY AllThere, FirstRound
<1>2. Had(r, u) = RankSize
  <2>1. Reach(r, u) <= Had(r, u) /\ Had(r, u) \in Nat
    BY ReachFacts
  <2>2. Had(r, u) \in Rounds \cup {RankSize}
    BY <1>1, <2>1, ReachFacts
  <2>3. Had(r, u) \in Rounds => Had(r, u) < RankSize
    BY DEF Rounds
  <2> QED
    BY <1>1, <2>1, <2>2, <2>3
<1>3. s \div RankSize = r \div RankSize
  BY SizeCases DEF Ranks
<1> QED
  BY <1>1, <1>2, <1>3 DEF IInv, RowsFollow, RowsOf, FirstLaunch

(* Over any number of launches, as long as no rank has started its second, *)
(* copies find gathered rows and the matmul finds the whole A.             *)
THEOREM FirstLaunchGathers == Spec => [](FirstLaunch => ReadsGatheredRows /\ MultipliesWholeA)
BY InvReads, InvWhole, Invariance, PTL

(* For any number of ranks and cores, a kernel that is launched once       *)
(* copies only rows that its partner has gathered.                         *)
THEOREM ReadsOnlyGathered ==
    ASSUME Launches = 1
    PROVE  Spec => []ReadsGatheredRows
<1>1. IInv => FirstLaunch
  BY DEF IInv, ShapesOK, FirstLaunch
<1> QED
  BY <1>1, InvReads, Invariance, PTL

(* For any number of ranks and cores, a kernel that is launched once       *)
(* multiplies the rows of all ranks.                                       *)
THEOREM MultipliesAllRows ==
    ASSUME Launches = 1
    PROVE  Spec => []MultipliesWholeA
<1>1. IInv => FirstLaunch
  BY DEF IInv, ShapesOK, FirstLaunch
<1> QED
  BY <1>1, InvWhole, Invariance, PTL
==============================================================================
