------------------------ MODULE MatmulAllReduceProofs ------------------------
(***************************************************************************)
(* Proofs about the matmul + all-reduce kernel, for any number of cores,   *)
(* of comm blocks and of launches and any depth of the flag, with and      *)
(* without padding, and whether or not the blocks are stored promptly.     *)
(***************************************************************************)
EXTENDS MatmulAllReduce, TLAPS

AivPcs == {"barrierAll", "setStart", "pad", "setPadding", "clear", "waitMmad", "barrierIn",
           "signal", "loadOwn", "readPeer", "barrierOut", "done"}

AicPcs == {"waitPadding", "waitStart", "barrierIn", "multiply", "barrierOut", "setMmad",
           "awaitAnswer", "done"}

(* How far a vector core is with its comm block: it has taken the flag of  *)
(* its cube core, it is behind the first barrier of the block, it has      *)
(* signalled.                                                              *)
HasTaken == {"barrierIn", "signal", "loadOwn", "readPeer", "barrierOut"}

IsExchanging == {"signal", "loadOwn", "readPeer", "barrierOut"}

HasSignalled == {"loadOwn", "readPeer", "barrierOut"}

(* How far a cube core is: it has taken the flags of its vector cores, it  *)
(* is behind the first barrier.                                            *)
HasStarted == {"barrierIn", "multiply", "barrierOut", "setMmad", "done"}

IsInside == {"multiply", "barrierOut", "setMmad", "done"}

(* Sets and takes of flagstart and of flagAivFinishAllReduce, and barriers *)
(* of the cube cores, so far in this launch.                               *)
StartsSet(r, v) == aivBlock[r][v] + (IF aiv[r][v] \in {"barrierAll", "setStart"} THEN 0 ELSE 1)

StartsTaken(r, c) == aicBlock[r][c] + (IF aic[r][c] \in HasStarted THEN 1 ELSE 0)

MmadsTaken(r, v) == aivBlock[r][v] + (IF aiv[r][v] \in HasTaken THEN 1 ELSE 0)

BarriersIn(r, c) == aicBlock[r][c] + (IF aic[r][c] \in IsInside THEN 1 ELSE 0)

BarriersOut(r, c) == aicBlock[r][c] + (IF aic[r][c] = "setMmad" THEN 1 ELSE 0)

HasPadded(r, v) ==
    aivBlock[r][v] > 0 \/ aiv[r][v] \notin {"barrierAll", "setStart", "pad", "setPadding"}

(* Signals vector core s of rank r has sent, in this launch, to rank s. *)
SignalsSent(r, s) == aivBlock[r][s] + (IF aiv[r][s] \in HasSignalled THEN 1 ELSE 0)

(* Where a core can be at which block. *)
AivOf(r, v) ==
    /\ aiv[r][v] \in {"barrierAll", "pad", "setPadding"} => aivBlock[r][v] = 0
    /\ aiv[r][v] \in {"clear", "waitMmad"} \cup HasTaken => aivBlock[r][v] < CocLoop
    /\ aiv[r][v] = "done" => aivBlock[r][v] = CocLoop
    /\ ~padding => aiv[r][v] \notin {"pad", "setPadding"}

AicOfBlock(r, c) ==
    /\ aic[r][c] = "waitPadding" => aicBlock[r][c] = 0 /\ padding
    /\ aic[r][c] \in {"multiply", "barrierOut", "setMmad"} => aicBlock[r][c] < CocLoop
    /\ aic[r][c] = "done" => aicBlock[r][c] = CocLoop
    /\ aic[r][c] = "awaitAnswer" <=> setCount[r][c] = ReverseDepth

PcsOK ==
    /\ aiv \in [Ranks -> [Aivs -> AivPcs]]
    /\ aic \in [Ranks -> [Aics -> AicPcs]]
    /\ \A r \in Ranks : /\ \A v \in Aivs : AivOf(r, v)
                        /\ \A c \in Aics : AicOfBlock(r, c)

(* A rank that is a launch ahead waits for the other at the start of it,   *)
(* and the start is left by all vector cores at once.                      *)
RanksInStep ==
    \A r, s \in Ranks :
        /\ launch[s] <= launch[r] + 1
        /\ launch[s] = launch[r] + 1 =>
              \A v \in Aivs : aiv[r][v] # "barrierAll" /\ aiv[s][v] = "barrierAll"
        /\ launch[s] = launch[r] =>
              \A u, v \in Aivs : aiv[r][v] = "barrierAll" => aiv[s][u] = "barrierAll"

(* The barriers of one rank. *)
CoresInStep ==
    \A r \in Ranks :
        /\ \A u, v \in Aivs :
              /\ aivBlock[r][u] = aivBlock[r][v]
              /\ aiv[r][u] \in IsExchanging => aiv[r][v] \in IsExchanging
        /\ \A c, d \in Aics :
              BarriersIn(r, c) = BarriersIn(r, d) /\ BarriersOut(r, c) = BarriersOut(r, d)

(* What is in the flags between a cube core and one of its vector cores is *)
(* what has been set and not yet taken, and the private counts of the      *)
(* reverse synchronisation agree (see CrossCoreFlag).                      *)
FlagsOf(r, c, v) ==
    /\ start[r][v] = StartsSet(r, v) - StartsTaken(r, c)
    /\ mmad[r][v] = aicBlock[r][c] - MmadsTaken(r, v)
    /\ padded[r][v] = IF padding /\ HasPadded(r, v) /\ aic[r][c] = "waitPadding" THEN 1 ELSE 0
    /\ padding /\ aic[r][c] # "waitPadding" => HasPadded(r, v)
    /\ setCount[r][c] = mmad[r][v] + waitCount[r][v]
                            + (IF reverse[r][v] = 0 THEN 0 ELSE ReverseDepth)

FlagsFollow == \A r \in Ranks, c \in Aics : \A v \in AivsOf(c) : FlagsOf(r, c, v)

(* In a launch, a peer has signalled every block a rank is through with,   *)
(* and the block itself if a core of the rank has cleared the slots for it *)
(* and the slot is set.                                                    *)
SlotOf(r, v) ==
    LET peer == Peer(r) IN
    launch[r] = launch[peer] =>
        /\ SignalsSent(peer, r) >= aivBlock[r][v]
        /\ aiv[r][v] = "barrierOut" => SignalsSent(peer, r) > aivBlock[r][v]
        /\ aiv[r][v] \in {"waitMmad"} \cup HasTaken /\ ready[r][peer] = 1 =>
              SignalsSent(peer, r) > aivBlock[r][v]

SlotsFollow == \A r \in Ranks, v \in Aivs : SlotOf(r, v)

IInv == TypeOK /\ PcsOK /\ RanksInStep /\ CoresInStep /\ FlagsFollow /\ SlotsFollow

-----------------------------------------------------------------------------
(* Facts about the cores. *)

(* Every vector core belongs to one cube core, and only to one. *)
LEMMA CubeCores ==
    /\ \A c \in Aics : \A v \in AivsOf(c) : v \in Aivs
    /\ \A v \in Aivs : \E c \in Aics : v \in AivsOf(c)
    /\ \A c, d \in Aics : \A v \in AivsOf(c) : v \in AivsOf(d) => c = d
    /\ \A c \in Aics : 2 * c \in AivsOf(c)
<1>1. \A v \in Aivs : v \div 2 \in Aics /\ v \in AivsOf(v \div 2)
  BY CoresAssumption DEF Aivs, Aics, AivsOf
<1>2. \A c \in Aics : \A v \in AivsOf(c) : v \in Aivs
  BY CoresAssumption DEF Aivs, Aics, AivsOf
<1>3. ASSUME NEW c \in Aics, NEW d \in Aics, NEW v \in AivsOf(c), v \in AivsOf(d)
      PROVE  c = d
  BY <1>3 DEF Aics, AivsOf
<1>4. \A c \in Aics : 2 * c \in AivsOf(c)
  BY DEF AivsOf
<1> QED  BY <1>1, <1>2, <1>3, <1>4

(* There is a core of either kind, to stand for the others at a barrier.   *)
LEMMA SomeCores == 0 \in Aics /\ 0 \in Aivs
  BY CoresAssumption DEF Aics, Aivs

(* The two ranks; each rank has a vector core for either. *)
LEMMA Peers ==
    ASSUME NEW r \in Ranks
    PROVE  /\ Peer(r) \in Ranks /\ Peer(r) # r /\ Peer(Peer(r)) = r
           /\ r \in Aivs
           /\ \A s \in Ranks : s = r \/ s = Peer(r)
  BY CoresAssumption DEF Ranks, Peer, Aivs

(* What TypeOK and PcsOK say of one core. *)
LEMMA AivTypes ==
    ASSUME TypeOK, PcsOK, NEW r \in Ranks, NEW v \in Aivs
    PROVE  /\ aivBlock[r][v] \in 0..CocLoop
           /\ start[r][v] \in 0..1 /\ padded[r][v] \in 0..1
           /\ mmad[r][v] \in 0..1 /\ reverse[r][v] \in 0..1
           /\ waitCount[r][v] \in 0..(ReverseDepth - 1)
           /\ aiv[r][v] \in AivPcs
           /\ AivOf(r, v)
  BY DEF TypeOK, PcsOK

(* And of one cube core.                                                   *)
LEMMA AicTypes ==
    ASSUME TypeOK, PcsOK, NEW r \in Ranks, NEW c \in Aics
    PROVE  /\ aicBlock[r][c] \in 0..CocLoop
           /\ setCount[r][c] \in 0..ReverseDepth
           /\ aic[r][c] \in AicPcs
           /\ AicOfBlock(r, c)
  BY DEF TypeOK, PcsOK

(* The flags between a cube core and a vector core hold the two together:  *)
(* the cube core is with the same block or with the next one.              *)
LEMMA BlocksInStep ==
    ASSUME TypeOK, PcsOK, FlagsFollow,
           NEW r \in Ranks, NEW c \in Aics, NEW v \in AivsOf(c)
    PROVE  /\ MmadsTaken(r, v) <= aicBlock[r][c]
           /\ aicBlock[r][c] <= StartsTaken(r, c)
           /\ StartsTaken(r, c) <= StartsSet(r, v)
           /\ StartsSet(r, v) <= MmadsTaken(r, v) + 1
<1>1. v \in Aivs
  BY CubeCores
<1>2. FlagsOf(r, c, v)
  BY DEF FlagsFollow
<1>3. start[r][v] >= 0 /\ mmad[r][v] >= 0
  BY <1>1, AivTypes
<1>4. aivBlock[r][v] \in Int /\ aicBlock[r][c] \in Int
  BY <1>1, AivTypes, AicTypes
<1>5. StartsSet(r, v) \in Int /\ StartsTaken(r, c) \in Int /\ MmadsTaken(r, v) \in Int
  BY <1>4 DEF StartsSet, StartsTaken, MmadsTaken
<1>6. StartsSet(r, v) <= MmadsTaken(r, v) + 1
  BY <1>4 DEF StartsSet, MmadsTaken, HasTaken
<1>7. aicBlock[r][c] <= StartsTaken(r, c)
  BY <1>4 DEF StartsTaken
<1> QED  BY <1>2, <1>3, <1>4, <1>5, <1>6, <1>7 DEF FlagsOf

-----------------------------------------------------------------------------
(* What a step leaves alone. *)

SameAiv(r, v) ==
    /\ aiv'[r][v] = aiv[r][v] /\ aivBlock'[r][v] = aivBlock[r][v]
    /\ start'[r][v] = start[r][v] /\ padded'[r][v] = padded[r][v]
    /\ mmad'[r][v] = mmad[r][v] /\ reverse'[r][v] = reverse[r][v]
    /\ waitCount'[r][v] = waitCount[r][v]

SameAic(r, c) ==
    /\ aic'[r][c] = aic[r][c] /\ aicBlock'[r][c] = aicBlock[r][c]
    /\ setCount'[r][c] = setCount[r][c]

(* A step of one vector core needs to be looked at for this core only. *)
LEMMA AivStep ==
    ASSUME PcsOK, FlagsFollow, NEW r \in Ranks, NEW v \in Aivs,
           aiv' \in [Ranks -> [Aivs -> AivPcs]],
           \A s \in Ranks, u \in Aivs : ~(s = r /\ u = v) => SameAiv(s, u),
           UNCHANGED <<padding, aic, aicBlock, setCount>>,
           AivOf(r, v)',
           \A c \in Aics : v \in AivsOf(c) => FlagsOf(r, c, v)'
    PROVE  PcsOK' /\ FlagsFollow'
<1>1. ASSUME NEW s \in Ranks, NEW u \in Aivs
      PROVE  AivOf(s, u)'
  <2>1. CASE s = r /\ u = v
    BY <2>1
  <2>2. CASE ~(s = r /\ u = v)
    <3>1. SameAiv(s, u) /\ AivOf(s, u)
      BY <2>2 DEF PcsOK
    <3> QED  BY <3>1 DEF AivOf, SameAiv
  <2> QED  BY <2>1, <2>2
<1>2. PcsOK'
  BY <1>1 DEF PcsOK, AicOfBlock
<1>3. ASSUME NEW s \in Ranks, NEW d \in Aics, NEW u \in AivsOf(d)
      PROVE  FlagsOf(s, d, u)'
  <2>1. u \in Aivs /\ FlagsOf(s, d, u)
    BY CubeCores DEF FlagsFollow
  <2>2. CASE s = r /\ u = v
    BY <2>2
  <2>3. CASE ~(s = r /\ u = v)
    <3>1. SameAiv(s, u)
      BY <2>1, <2>3
    <3> QED
      BY <2>1, <3>1 DEF SameAiv, FlagsOf, StartsSet, StartsTaken, MmadsTaken, HasPadded
  <2> QED  BY <2>2, <2>3
<1> QED  BY <1>2, <1>3 DEF FlagsFollow

(* A step of one cube core, for this core and its vector cores. *)
LEMMA AicStep ==
    ASSUME PcsOK, FlagsFollow, NEW r \in Ranks, NEW c \in Aics,
           aic' \in [Ranks -> [Aics -> AicPcs]],
           \A s \in Ranks, d \in Aics : ~(s = r /\ d = c) => SameAic(s, d),
           \A s \in Ranks, u \in Aivs : ~(s = r /\ u \in AivsOf(c)) => SameAiv(s, u),
           UNCHANGED <<padding, aiv, aivBlock>>,
           AicOfBlock(r, c)',
           \A v \in AivsOf(c) : FlagsOf(r, c, v)'
    PROVE  PcsOK' /\ FlagsFollow'
<1>1. ASSUME NEW s \in Ranks, NEW d \in Aics
      PROVE  AicOfBlock(s, d)'
  <2>1. CASE s = r /\ d = c
    BY <2>1
  <2>2. CASE ~(s = r /\ d = c)
    <3>1. SameAic(s, d) /\ AicOfBlock(s, d)
      BY <2>2 DEF PcsOK
    <3> QED  BY <3>1 DEF AicOfBlock, SameAic
  <2> QED  BY <2>1, <2>2
<1>2. PcsOK'
  BY <1>1 DEF PcsOK, AivOf
<1>3. ASSUME NEW s \in Ranks, NEW d \in Aics, NEW u \in AivsOf(d)
      PROVE  FlagsOf(s, d, u)'
  <2>1. u \in Aivs /\ FlagsOf(s, d, u)
    BY CubeCores DEF FlagsFollow
  <2>2. CASE s = r /\ d = c
    BY <2>2
  <2>3. CASE ~(s = r /\ d = c)
    <3>1. SameAiv(s, u) /\ SameAic(s, d)
      BY <2>1, <2>3, CubeCores
    <3> QED
      BY <2>1, <3>1 DEF SameAiv, SameAic, FlagsOf, StartsSet, StartsTaken, MmadsTaken, HasPadded
  <2> QED  BY <2>2, <2>3
<1> QED  BY <1>2, <1>3 DEF FlagsFollow

(* Only the barrier of all ranks and a launch disturb RanksInStep. *)
LEMMA SameSides ==
    ASSUME RanksInStep, launch' = launch,
           \A r \in Ranks, v \in Aivs : aiv'[r][v] = "barrierAll" <=> aiv[r][v] = "barrierAll"
    PROVE  RanksInStep'
  BY DEF RanksInStep

(* Only a barrier of the rank disturbs CoresInStep. *)
LEMMA SamePhases ==
    ASSUME CoresInStep, aivBlock' = aivBlock,
           \A r \in Ranks, v \in Aivs : aiv'[r][v] \in IsExchanging <=> aiv[r][v] \in IsExchanging,
           \A r \in Ranks, c \in Aics :
              BarriersIn(r, c)' = BarriersIn(r, c) /\ BarriersOut(r, c)' = BarriersOut(r, c)
    PROVE  CoresInStep'
<1>1. ASSUME NEW r \in Ranks, NEW u \in Aivs, NEW v \in Aivs
      PROVE  /\ aivBlock'[r][u] = aivBlock'[r][v]
             /\ aiv'[r][u] \in IsExchanging => aiv'[r][v] \in IsExchanging
  BY DEF CoresInStep
<1>2. ASSUME NEW r \in Ranks, NEW c \in Aics, NEW d \in Aics
      PROVE  BarriersIn(r, c)' = BarriersIn(r, d)' /\ BarriersOut(r, c)' = BarriersOut(r, d)'
  BY DEF CoresInStep
<1> QED  BY <1>1, <1>2 DEF CoresInStep

(* What SlotOf says of a core stays true as long as the core does not      *)
(* leave or enter the parts of the block it speaks of, no slot of its rank *)
(* is set and its peer takes no signal back.                               *)
SlotOfStays(r, v) ==
    /\ aivBlock'[r][v] = aivBlock[r][v]
    /\ aiv'[r][v] = "barrierOut" => aiv[r][v] = "barrierOut"
    /\ aiv'[r][v] \in {"waitMmad"} \cup HasTaken => aiv[r][v] \in {"waitMmad"} \cup HasTaken
    /\ ready'[r][Peer(r)] = 1 => ready[r][Peer(r)] = 1

(* A step keeps SlotsFollow if it leaves alone what SlotOf says of every   *)
(* core but the one that moves, and takes no signal back.                  *)
LEMMA SlotsStay ==
    ASSUME TypeOK, PcsOK, SlotsFollow, launch' = launch,
           \A s \in Ranks : /\ SignalsSent(s, Peer(s))' \in Int
                            /\ SignalsSent(s, Peer(s))' >= SignalsSent(s, Peer(s)),
           \A s \in Ranks, u \in Aivs : SlotOfStays(s, u) \/ SlotOf(s, u)'
    PROVE  SlotsFollow'
<1> SUFFICES ASSUME NEW r \in Ranks, NEW v \in Aivs, SlotOfStays(r, v)
             PROVE  SlotOf(r, v)'
  BY DEF SlotsFollow
<1>1. SlotOf(r, v)
  BY DEF SlotsFollow
<1>2. Peer(r) \in Ranks /\ Peer(Peer(r)) = r /\ r \in Aivs
  BY Peers
<1>3. aivBlock[r][v] \in Int /\ SignalsSent(Peer(r), r) \in Int
  BY <1>2, AivTypes DEF SignalsSent
<1>4. SignalsSent(Peer(r), r)' \in Int /\ SignalsSent(Peer(r), r)' >= SignalsSent(Peer(r), r)
  BY <1>2
<1>5. /\ aiv'[r][v] = "barrierOut" => aiv[r][v] = "barrierOut"
      /\ aiv'[r][v] \in {"waitMmad"} \cup HasTaken => aiv[r][v] \in {"waitMmad"} \cup HasTaken
      /\ aivBlock'[r][v] = aivBlock[r][v]
      /\ ready'[r][Peer(r)] = 1 => ready[r][Peer(r)] = 1
  BY DEF SlotOfStays
<1> QED  BY <1>1, <1>3, <1>4, <1>5 DEF SlotOf

(* A vector core that has signalled is behind its signal to the end of the *)
(* block.                                                                  *)
LEMMA SignalsGrow ==
    ASSUME TypeOK, PcsOK, aivBlock' = aivBlock,
           \A s \in Ranks, u \in Aivs : aiv[s][u] \in HasSignalled => aiv'[s][u] \in HasSignalled
    PROVE  \A s \in Ranks : /\ SignalsSent(s, Peer(s))' \in Int
                            /\ SignalsSent(s, Peer(s))' >= SignalsSent(s, Peer(s))
<1> TAKE s \in Ranks
<1>1. Peer(s) \in Aivs
  BY Peers
<1>2. aivBlock[s][Peer(s)] \in Int
  BY <1>1, AivTypes
<1>3. Peer(s)' = Peer(s)
  BY DEF Peer
<1> QED  BY <1>1, <1>2, <1>3 DEF SignalsSent

(* A step of one core moves no other. *)
LEMMA AivMove ==
    ASSUME aiv \in [Ranks -> [Aivs -> AivPcs]],
           NEW r \in Ranks, NEW v \in Aivs, NEW there \in AivPcs,
           AivGoesTo(r, v, there)
    PROVE  /\ aiv' \in [Ranks -> [Aivs -> AivPcs]]
           /\ aiv'[r][v] = there
           /\ \A s \in Ranks, u \in Aivs : ~(s = r /\ u = v) => aiv'[s][u] = aiv[s][u]
  BY DEF AivGoesTo

(* The same for the cube cores.                                            *)
LEMMA AicMove ==
    ASSUME aic \in [Ranks -> [Aics -> AicPcs]],
           NEW r \in Ranks, NEW c \in Aics, NEW there \in AicPcs,
           AicGoesTo(r, c, there)
    PROVE  /\ aic' \in [Ranks -> [Aics -> AicPcs]]
           /\ aic'[r][c] = there
           /\ \A s \in Ranks, d \in Aics : ~(s = r /\ d = c) => aic'[s][d] = aic[s][d]
  BY DEF AicGoesTo

(* A barrier moves all the vector cores of one rank.                       *)
LEMMA AivsMeetMove ==
    ASSUME aiv \in [Ranks -> [Aivs -> AivPcs]],
           NEW r \in Ranks, NEW here, NEW there \in AivPcs,
           AivsMeet(r, here, there)
    PROVE  /\ aiv' \in [Ranks -> [Aivs -> AivPcs]]
           /\ \A u \in Aivs : aiv[r][u] = here /\ aiv'[r][u] = there
           /\ \A s \in Ranks, u \in Aivs : s # r => aiv'[s][u] = aiv[s][u]
  BY DEF AivsMeet

(* And here all its cube cores.                                            *)
LEMMA AicsMeetMove ==
    ASSUME aic \in [Ranks -> [Aics -> AicPcs]],
           NEW r \in Ranks, NEW here, NEW there \in AicPcs,
           AicsMeet(r, here, there)
    PROVE  /\ aic' \in [Ranks -> [Aics -> AicPcs]]
           /\ \A d \in Aics : aic[r][d] = here /\ aic'[r][d] = there
           /\ \A s \in Ranks, d \in Aics : s # r => aic'[s][d] = aic[s][d]
  BY DEF AicsMeet

(* When a launch is over for a cube core and one of its vector cores, the  *)
(* flags between the two are clear.                                        *)
LaunchLeavesFlags(r, c, v) ==
    /\ start[r][v] = 0 /\ padded[r][v] = 0 /\ mmad[r][v] = 0 /\ reverse[r][v] = 0

(* So every launch finds the flags clear, although nothing clears them.    *)
LEMMA FlagsAfterLaunch ==
    ASSUME TypeOK, PcsOK, FlagsFollow,
           NEW r \in Ranks, NEW c \in Aics, NEW v \in AivsOf(c),
           aic[r][c] = "done", aiv[r][v] = "done"
    PROVE  LaunchLeavesFlags(r, c, v)
<1>1. v \in Aivs /\ FlagsOf(r, c, v)
  BY CubeCores DEF FlagsFollow
<1>2. aivBlock[r][v] = CocLoop /\ aicBlock[r][c] = CocLoop
  BY <1>1, AivTypes, AicTypes DEF AivOf, AicOfBlock
<1>3. setCount[r][c] \in 0..ReverseDepth /\ setCount[r][c] # ReverseDepth
  BY AicTypes DEF AicOfBlock
<1>4. /\ mmad[r][v] \in 0..1 /\ reverse[r][v] \in 0..1
      /\ waitCount[r][v] \in 0..(ReverseDepth - 1)
  BY <1>1, AivTypes
<1>5. start[r][v] = 0 /\ mmad[r][v] = 0
  BY <1>1, <1>2, LoopAssumption
     DEF FlagsOf, StartsSet, StartsTaken, MmadsTaken, HasStarted, HasTaken
<1>6. padded[r][v] = 0
  BY <1>1 DEF FlagsOf
<1>7. reverse[r][v] = 0
  BY <1>1, <1>3, <1>4, DepthAssumption DEF FlagsOf
<1> QED  BY <1>5, <1>6, <1>7 DEF LaunchLeavesFlags

-----------------------------------------------------------------------------
(* The first launch begins with everything in step: no block, flag or      *)
(* signal.                                                                 *)
THEOREM InitIInv == Init => IInv
<1> SUFFICES ASSUME Init
             PROVE  IInv
  OBVIOUS
<1> USE CoresAssumption, LoopAssumption, DepthAssumption
<1>1. TypeOK
  BY DEF Init, TypeOK, Everywhere
<1>2. /\ aiv \in [Ranks -> [Aivs -> AivPcs]] /\ aic \in [Ranks -> [Aics -> AicPcs]]
      /\ \A r \in Ranks, v \in Aivs : aiv[r][v] = "barrierAll" /\ aivBlock[r][v] = 0
      /\ \A r \in Ranks, c \in Aics : aic[r][c] = AicStart /\ aicBlock[r][c] = 0
  BY DEF Init, Everywhere, AivPcs, AicPcs, AicStart
<1>3. PcsOK
  <2>1. \A r \in Ranks, v \in Aivs : AivOf(r, v)
    BY <1>2 DEF AivOf, HasTaken
  <2>2. \A r \in Ranks, c \in Aics : setCount[r][c] = 0
    BY DEF Init, Everywhere
  <2>3. ASSUME NEW r \in Ranks, NEW c \in Aics
        PROVE  AicOfBlock(r, c)
    BY <1>2, <2>2 DEF AicOfBlock, AicStart
  <2> QED  BY <1>2, <2>1, <2>3 DEF PcsOK
<1>4. RanksInStep
  BY <1>2 DEF Init, RanksInStep
<1>5. CoresInStep
  BY <1>2 DEF CoresInStep, BarriersIn, BarriersOut, AicStart, IsExchanging
<1>6. ASSUME NEW r \in Ranks, NEW c \in Aics, NEW v \in AivsOf(c)
      PROVE  FlagsOf(r, c, v)
  <2>1. v \in Aivs
    BY CubeCores
  <2>2. /\ start[r][v] = 0 /\ mmad[r][v] = 0 /\ padded[r][v] = 0 /\ reverse[r][v] = 0
        /\ waitCount[r][v] = 0 /\ setCount[r][c] = 0
    BY <2>1 DEF Init, Everywhere
  <2>3. StartsSet(r, v) = 0 /\ MmadsTaken(r, v) = 0 /\ ~HasPadded(r, v)
    BY <1>2, <2>1 DEF StartsSet, MmadsTaken, HasPadded, HasTaken
  <2>4. StartsTaken(r, c) = 0
    BY <1>2 DEF StartsTaken, AicStart, HasStarted
  <2>5. padding => aic[r][c] = "waitPadding"
    BY <1>2 DEF AicStart
  <2> QED  BY <1>2, <2>2, <2>3, <2>4, <2>5 DEF FlagsOf
<1>7. ASSUME NEW r \in Ranks, NEW v \in Aivs
      PROVE  SlotOf(r, v)
  <2>1. Peer(r) \in Ranks /\ r \in Aivs
    BY Peers
  <2>2. SignalsSent(Peer(r), r) = 0
    BY <1>2, <2>1 DEF SignalsSent, HasSignalled
  <2> QED  BY <1>2, <2>2 DEF SlotOf, HasTaken
<1> QED  BY <1>1, <1>3, <1>4, <1>5, <1>6, <1>7 DEF IInv, FlagsFollow, SlotsFollow

(* Every step of a core, every barrier and every launch keeps the cores,   *)
(* the flags and the slots in step.                                        *)
THEOREM NextIInv == IInv /\ [Next]_vars => IInv'
<1> SUFFICES ASSUME IInv, [Next]_vars
             PROVE  IInv'
  OBVIOUS
<1> USE DEF IInv
<1>1. ASSUME BarrierAll
      PROVE  IInv'
  <2>1. /\ aiv' = [r \in Ranks |-> [v \in Aivs |-> "setStart"]]
        /\ \A r \in Ranks, v \in Aivs : aiv[r][v] = "barrierAll"
        /\ UNCHANGED <<padding, promptClear, launch, aic, aicBlock, aivBlock, start, padded, mmad,
                       reverse, setCount, waitCount, ready>>
    BY <1>1 DEF BarrierAll, Everywhere, choices, flags
  <2>2. TypeOK'
    BY <2>1 DEF TypeOK
  <2>3. PcsOK'
    <3>1. \A r \in Ranks, v \in Aivs : AivOf(r, v)'
      BY <2>1 DEF AivOf, HasTaken
    <3> QED  BY <2>1, <3>1 DEF PcsOK, AicOfBlock, AivPcs
  <2>4. RanksInStep'
    <3>1. \A r, s \in Ranks : launch[s] # launch[r] + 1
      BY <2>1, SomeCores DEF RanksInStep
    <3> QED  BY <2>1, <3>1 DEF RanksInStep
  <2>5. CoresInStep'
    BY <2>1, SamePhases DEF BarriersIn, BarriersOut, IsExchanging
  <2>6. ASSUME NEW s \in Ranks, NEW d \in Aics, NEW u \in AivsOf(d)
        PROVE  FlagsOf(s, d, u)'
    <3>1. u \in Aivs /\ FlagsOf(s, d, u)
      BY CubeCores DEF FlagsFollow
    <3>2. aiv[s][u] = "barrierAll" /\ aiv'[s][u] = "setStart"
      BY <2>1, <3>1
    <3> QED
      BY <2>1, <3>1, <3>2 DEF FlagsOf, StartsSet, StartsTaken, MmadsTaken, HasPadded, HasTaken
  <2>7. SlotsFollow'
    <3>1. \A s \in Ranks, u \in Aivs : SlotOfStays(s, u)
      BY <2>1 DEF SlotOfStays, HasTaken
    <3> QED  BY <2>1, <3>1, SignalsGrow, SlotsStay DEF HasSignalled
  <2> QED  BY <2>2, <2>3, <2>4, <2>5, <2>6, <2>7 DEF FlagsFollow
<1>2. ASSUME NEW r \in Ranks, Pad(r)
      PROVE  IInv'
  <2>1. /\ aiv' \in [Ranks -> [Aivs -> AivPcs]]
        /\ \A u \in Aivs : aiv[r][u] = "pad" /\ aiv'[r][u] = "setPadding"
        /\ \A s \in Ranks, u \in Aivs : s # r => aiv'[s][u] = aiv[s][u]
    BY <1>2, AivsMeetMove DEF Pad, PcsOK, AivPcs
  <2>2. UNCHANGED <<padding, promptClear, launch, aic, aicBlock, aivBlock, start, padded, mmad,
                    reverse, setCount, waitCount, ready>>
    BY <1>2 DEF Pad, choices, flags
  <2>3. TypeOK'
    BY <2>2 DEF TypeOK
  <2>4. ASSUME NEW s \in Ranks, NEW u \in Aivs
        PROVE  AivOf(s, u)'
    <3>1. AivOf(s, u)
      BY DEF PcsOK
    <3>2. aiv'[s][u] = aiv[s][u] \/ (aiv[s][u] = "pad" /\ aiv'[s][u] = "setPadding")
      BY <2>1
    <3> QED  BY <2>2, <3>1, <3>2 DEF AivOf, HasTaken
  <2>5. PcsOK'
    BY <2>1, <2>2, <2>4 DEF PcsOK, AicOfBlock
  <2>6. RanksInStep'
    BY <2>1, <2>2, SameSides
  <2>7. CoresInStep'
    BY <2>1, <2>2, SamePhases DEF BarriersIn, BarriersOut, IsExchanging
  <2>8. ASSUME NEW s \in Ranks, NEW d \in Aics, NEW u \in AivsOf(d)
        PROVE  FlagsOf(s, d, u)'
    <3>1. u \in Aivs /\ FlagsOf(s, d, u)
      BY CubeCores DEF FlagsFollow
    <3>2. aiv'[s][u] = aiv[s][u] \/ (aiv[s][u] = "pad" /\ aiv'[s][u] = "setPadding")
      BY <2>1, <3>1
    <3> QED
      BY <2>2, <3>1, <3>2 DEF FlagsOf, StartsSet, StartsTaken, MmadsTaken, HasPadded, HasTaken
  <2>9. SlotsFollow'
    <3>1. \A s \in Ranks, u \in Aivs :
             aiv'[s][u] = aiv[s][u] \/ (aiv[s][u] = "pad" /\ aiv'[s][u] = "setPadding")
      BY <2>1
    <3>2. \A s \in Ranks, u \in Aivs : SlotOfStays(s, u)
      BY <2>2, <3>1 DEF SlotOfStays, HasTaken
    <3> QED  BY <2>2, <3>1, <3>2, SignalsGrow, SlotsStay DEF HasSignalled
  <2> QED  BY <2>3, <2>5, <2>6, <2>7, <2>8, <2>9 DEF FlagsFollow
<1>3. ASSUME NEW r \in Ranks, NEW v \in Aivs, LoadOwn(r, v)
      PROVE  IInv'
  <2>1. /\ aiv' \in [Ranks -> [Aivs -> AivPcs]]
        /\ aiv'[r][v] = "readPeer"
        /\ \A s \in Ranks, u \in Aivs : ~(s = r /\ u = v) => aiv'[s][u] = aiv[s][u]
    BY <1>3, AivMove DEF LoadOwn, PcsOK, AivPcs
  <2>2. /\ aiv[r][v] = "loadOwn"
        /\ UNCHANGED <<padding, promptClear, launch, aic, aicBlock, aivBlock, start, padded, mmad,
                       reverse, setCount, waitCount, ready>>
    BY <1>3 DEF LoadOwn, choices, flags
  <2>3. TypeOK'
    BY <2>2 DEF TypeOK
  <2>4. AivOf(r, v)'
    BY <2>1, <2>2, AivTypes DEF AivOf, HasTaken
  <2>5. ASSUME NEW c \in Aics, v \in AivsOf(c)
        PROVE  FlagsOf(r, c, v)'
    <3>1. FlagsOf(r, c, v)
      BY <2>5 DEF FlagsFollow
    <3> QED
      BY <2>1, <2>2, <3>1 DEF FlagsOf, StartsSet, StartsTaken, MmadsTaken, HasPadded, HasTaken
  <2>6. \A s \in Ranks, u \in Aivs : ~(s = r /\ u = v) => SameAiv(s, u)
    BY <2>1, <2>2 DEF SameAiv
  <2>7. PcsOK' /\ FlagsFollow'
    BY <2>1, <2>2, <2>4, <2>5, <2>6, AivStep
  <2>8. RanksInStep'
    BY <2>1, <2>2, SameSides
  <2>9. CoresInStep'
    BY <2>1, <2>2, SamePhases DEF BarriersIn, BarriersOut, IsExchanging
  <2>10. SlotsFollow'
    <3>1. \A s \in Ranks, u \in Aivs : SlotOfStays(s, u)
      BY <2>1, <2>2 DEF SlotOfStays, HasTaken
    <3> QED  BY <2>1, <2>2, <3>1, SignalsGrow, SlotsStay DEF HasSignalled
  <2> QED  BY <2>3, <2>7, <2>8, <2>9, <2>10
<1>4. ASSUME NEW r \in Ranks, BarrierIn(r)
      PROVE  IInv'
  <2>1. /\ aiv' \in [Ranks -> [Aivs -> AivPcs]]
        /\ \A u \in Aivs : aiv[r][u] = "barrierIn" /\ aiv'[r][u] = "signal"
        /\ \A s \in Ranks, u \in Aivs : s # r => aiv'[s][u] = aiv[s][u]
    BY <1>4, AivsMeetMove DEF BarrierIn, PcsOK, AivPcs
  <2>2. UNCHANGED <<padding, promptClear, launch, aic, aicBlock, aivBlock, start, padded, mmad,
                    reverse, setCount, waitCount, ready>>
    BY <1>4 DEF BarrierIn, choices, flags
  <2>3. TypeOK'
    BY <2>2 DEF TypeOK
  <2>4. \A s \in Ranks, u \in Aivs :
           aiv'[s][u] = aiv[s][u] \/ (aiv[s][u] = "barrierIn" /\ aiv'[s][u] = "signal")
    BY <2>1
  <2>5. ASSUME NEW s \in Ranks, NEW u \in Aivs
        PROVE  AivOf(s, u)'
    <3>1. AivOf(s, u)
      BY DEF PcsOK
    <3> QED  BY <2>2, <2>4, <3>1 DEF AivOf, HasTaken
  <2>6. PcsOK'
    BY <2>1, <2>2, <2>5 DEF PcsOK, AicOfBlock
  <2>7. RanksInStep'
    BY <2>2, <2>4, SameSides
  <2>8. CoresInStep'
    <3>1. ASSUME NEW s \in Ranks, NEW u \in Aivs, NEW v \in Aivs, aiv'[s][u] \in IsExchanging
          PROVE  aiv'[s][v] \in IsExchanging
      <4>1. CASE s = r
        BY <2>1, <4>1 DEF IsExchanging
      <4>2. CASE s # r
        <5>1. aiv'[s][u] = aiv[s][u] /\ aiv'[s][v] = aiv[s][v]
          BY <2>1, <4>2
        <5> QED  BY <3>1, <5>1 DEF CoresInStep
      <4> QED  BY <4>1, <4>2
    <3> QED  BY <2>2, <3>1 DEF CoresInStep, BarriersIn, BarriersOut
  <2>9. ASSUME NEW s \in Ranks, NEW d \in Aics, NEW u \in AivsOf(d)
        PROVE  FlagsOf(s, d, u)'
    <3>1. u \in Aivs /\ FlagsOf(s, d, u)
      BY CubeCores DEF FlagsFollow
    <3>2. aiv'[s][u] = aiv[s][u] \/ (aiv[s][u] = "barrierIn" /\ aiv'[s][u] = "signal")
      BY <2>4, <3>1
    <3> QED
      BY <2>2, <3>1, <3>2 DEF FlagsOf, StartsSet, StartsTaken, MmadsTaken, HasPadded, HasTaken
  <2>10. SlotsFollow'
    <3>1. \A s \in Ranks, u \in Aivs : SlotOfStays(s, u)
      BY <2>2, <2>4 DEF SlotOfStays, HasTaken
    <3> QED  BY <2>2, <2>4, <3>1, SignalsGrow, SlotsStay DEF HasSignalled
  <2> QED  BY <2>3, <2>6, <2>7, <2>8, <2>9, <2>10 DEF FlagsFollow
<1>5. ASSUME NEW r \in Ranks, BarrierOut(r)
      PROVE  IInv'
  <2>1. /\ aiv' \in [Ranks -> [Aivs -> AivPcs]]
        /\ \A u \in Aivs : aiv[r][u] = "barrierOut" /\ aiv'[r][u] = "setStart"
        /\ \A s \in Ranks, u \in Aivs : s # r => aiv'[s][u] = aiv[s][u]
    BY <1>5, AivsMeetMove DEF BarrierOut, PcsOK, AivPcs
  <2>2. UNCHANGED <<padding, promptClear, launch, aic, aicBlock, start, padded, mmad, reverse,
                    setCount, waitCount, ready>>
    BY <1>5 DEF BarrierOut, choices, flags
  <2>3. \A u \in Aivs : aivBlock[r][u] \in Nat /\ aivBlock[r][u] + 1 \in 0..CocLoop
    <3> SUFFICES ASSUME NEW u \in Aivs
                 PROVE  aivBlock[r][u] \in Nat /\ aivBlock[r][u] + 1 \in 0..CocLoop
      OBVIOUS
    <3>1. aivBlock[r][u] < CocLoop
      BY <2>1, AivTypes DEF AivOf, HasTaken
    <3> QED  BY <3>1, AivTypes, LoopAssumption
  <2>4. /\ aivBlock' \in [Ranks -> [Aivs -> 0..CocLoop]]
        /\ \A u \in Aivs : aivBlock'[r][u] = aivBlock[r][u] + 1
        /\ \A s \in Ranks, u \in Aivs : s # r => aivBlock'[s][u] = aivBlock[s][u]
    BY <1>5, <2>3 DEF BarrierOut, TypeOK
  <2>5. TypeOK'
    BY <2>2, <2>4 DEF TypeOK
  <2>6. ASSUME NEW s \in Ranks, NEW u \in Aivs
        PROVE  AivOf(s, u)'
    <3>1. AivOf(s, u)
      BY DEF PcsOK
    <3>2. CASE s = r
      BY <2>1, <3>2 DEF AivOf, HasTaken
    <3>3. CASE s # r
      <4>1. aiv'[s][u] = aiv[s][u] /\ aivBlock'[s][u] = aivBlock[s][u]
        BY <2>1, <2>4, <3>3
      <4> QED  BY <2>2, <3>1, <4>1 DEF AivOf
    <3> QED  BY <3>2, <3>3
  <2>7. PcsOK'
    BY <2>1, <2>2, <2>6 DEF PcsOK, AicOfBlock
  <2>8. RanksInStep'
    <3>1. \A s \in Ranks, u \in Aivs : aiv'[s][u] = "barrierAll" <=> aiv[s][u] = "barrierAll"
      BY <2>1
    <3> QED  BY <2>2, <3>1, SameSides
  <2>9. CoresInStep'
    <3>1. ASSUME NEW s \in Ranks, NEW u \in Aivs, NEW v \in Aivs
          PROVE  /\ aivBlock'[s][u] = aivBlock'[s][v]
                 /\ aiv'[s][u] \in IsExchanging => aiv'[s][v] \in IsExchanging
      <4>1. CASE s = r
        <5>1. aivBlock[s][u] = aivBlock[s][v]
          BY DEF CoresInStep
        <5> QED  BY <2>1, <2>4, <4>1, <5>1 DEF IsExchanging
      <4>2. CASE s # r
        <5>1. /\ aiv'[s][u] = aiv[s][u] /\ aiv'[s][v] = aiv[s][v]
              /\ aivBlock'[s][u] = aivBlock[s][u] /\ aivBlock'[s][v] = aivBlock[s][v]
          BY <2>1, <2>4, <4>2
        <5> QED  BY <5>1 DEF CoresInStep
      <4> QED  BY <4>1, <4>2
    <3> QED  BY <2>2, <3>1 DEF CoresInStep, BarriersIn, BarriersOut
  <2>10. ASSUME NEW s \in Ranks, NEW d \in Aics, NEW u \in AivsOf(d)
         PROVE  FlagsOf(s, d, u)'
    <3>1. u \in Aivs /\ FlagsOf(s, d, u)
      BY CubeCores DEF FlagsFollow
    <3>2. CASE s = r
      <4>1. /\ aiv[s][u] = "barrierOut" /\ aiv'[s][u] = "setStart"
            /\ aivBlock'[s][u] = aivBlock[s][u] + 1 /\ aivBlock[s][u] \in Nat
        BY <2>1, <2>3, <2>4, <3>1, <3>2
      <4>2. StartsSet(s, u)' = StartsSet(s, u) /\ MmadsTaken(s, u)' = MmadsTaken(s, u)
        BY <4>1 DEF StartsSet, MmadsTaken, HasTaken
      <4>3. HasPadded(s, u)' /\ HasPadded(s, u)
        BY <4>1 DEF HasPadded
      <4> QED  BY <2>2, <3>1, <4>2, <4>3 DEF FlagsOf, StartsTaken
    <3>3. CASE s # r
      <4>1. aiv'[s][u] = aiv[s][u] /\ aivBlock'[s][u] = aivBlock[s][u]
        BY <2>1, <2>4, <3>1, <3>3
      <4> QED
        BY <2>2, <3>1, <4>1 DEF FlagsOf, StartsSet, StartsTaken, MmadsTaken, HasPadded
    <3> QED  BY <3>2, <3>3
  <2>11. \A s \in Ranks : /\ SignalsSent(s, Peer(s)) \in Int
                          /\ SignalsSent(s, Peer(s))' = SignalsSent(s, Peer(s))
    <3> SUFFICES ASSUME NEW s \in Ranks
                 PROVE  /\ SignalsSent(s, Peer(s)) \in Int
                        /\ SignalsSent(s, Peer(s))' = SignalsSent(s, Peer(s))
      OBVIOUS
    <3>1. Peer(s) \in Aivs /\ Peer(s)' = Peer(s)
      BY Peers DEF Peer
    <3>2. aivBlock[s][Peer(s)] \in Int
      BY <3>1, AivTypes
    <3>3. CASE s = r
      BY <2>1, <2>4, <3>1, <3>2, <3>3 DEF SignalsSent, HasSignalled
    <3>4. CASE s # r
      BY <2>1, <2>4, <3>1, <3>2, <3>4 DEF SignalsSent
    <3> QED  BY <3>3, <3>4
  <2>12. ASSUME NEW s \in Ranks, NEW u \in Aivs
         PROVE  SlotOfStays(s, u) \/ SlotOf(s, u)'
    <3>1. CASE s = r
      <4>1. Peer(s) \in Ranks /\ Peer(Peer(s)) = s /\ s \in Aivs
        BY Peers
      <4>2. launch[s] = launch[Peer(s)] => SignalsSent(Peer(s), s) > aivBlock[s][u]
        BY <2>1, <3>1 DEF SlotsFollow, SlotOf
      <4>3. /\ SignalsSent(Peer(s), s)' = SignalsSent(Peer(s), s)
            /\ SignalsSent(Peer(s), s) \in Int
        BY <2>11, <4>1
      <4>4. /\ aivBlock'[s][u] = aivBlock[s][u] + 1 /\ aivBlock[s][u] \in Nat
            /\ aiv'[s][u] = "setStart"
        BY <2>1, <2>3, <2>4, <3>1
      <4> QED  BY <2>2, <4>2, <4>3, <4>4 DEF SlotOf, HasTaken
    <3>2. CASE s # r
      BY <2>1, <2>2, <2>4, <3>2 DEF SlotOfStays
    <3> QED  BY <3>1, <3>2
  <2>13. SlotsFollow'
    BY <2>2, <2>11, <2>12, SlotsStay
  <2> QED  BY <2>5, <2>7, <2>8, <2>9, <2>10, <2>13 DEF FlagsFollow
<1>6. ASSUME NEW r \in Ranks, AicBarrierIn(r)
      PROVE  IInv'
  <2> DEFINE there == IF aicBlock[r][0] < CocLoop THEN "multiply" ELSE "done"
  <2>1. /\ aic' \in [Ranks -> [Aics -> AicPcs]]
        /\ \A d \in Aics : aic[r][d] = "barrierIn" /\ aic'[r][d] = there
        /\ \A s \in Ranks, d \in Aics : s # r => aic'[s][d] = aic[s][d]
    <3>1. there \in AicPcs
      BY DEF AicPcs
    <3> QED  BY <1>6, <3>1, AicsMeetMove DEF AicBarrierIn, PcsOK
  <2>2. UNCHANGED <<padding, promptClear, launch, aiv, aicBlock, aivBlock, start, padded, mmad,
                    reverse, setCount, waitCount, ready>>
    BY <1>6 DEF AicBarrierIn, choices, flags
  <2>3. \A d \in Aics : aicBlock[r][d] = aicBlock[r][0] /\ aicBlock[r][d] \in 0..CocLoop
    <3> SUFFICES ASSUME NEW d \in Aics
                 PROVE  aicBlock[r][d] = aicBlock[r][0] /\ aicBlock[r][d] \in 0..CocLoop
      OBVIOUS
    <3>1. BarriersIn(r, d) = BarriersIn(r, 0)
      BY SomeCores DEF CoresInStep
    <3>2. aicBlock[r][d] \in 0..CocLoop /\ aicBlock[r][0] \in 0..CocLoop
      BY SomeCores, AicTypes
    <3>3. aic[r][d] = "barrierIn" /\ aic[r][0] = "barrierIn"
      BY <2>1, SomeCores
    <3> QED  BY <3>1, <3>2, <3>3 DEF BarriersIn, IsInside
  <2>4. TypeOK'
    BY <2>2 DEF TypeOK
  <2>5. ASSUME NEW s \in Ranks, NEW d \in Aics
        PROVE  AicOfBlock(s, d)'
    <3>1. AicOfBlock(s, d)
      BY DEF PcsOK
    <3>2. CASE s = r
      <4>1. aic[s][d] = "barrierIn" /\ aic'[s][d] = there
        BY <2>1, <3>2
      <4>2. aicBlock[s][d] = aicBlock[r][0] /\ aicBlock[s][d] \in 0..CocLoop
        BY <2>3, <3>2
      <4> QED  BY <2>2, <3>1, <4>1, <4>2, LoopAssumption DEF AicOfBlock
    <3>3. CASE s # r
      <4>1. aic'[s][d] = aic[s][d]
        BY <2>1, <3>3
      <4> QED  BY <2>2, <3>1, <4>1 DEF AicOfBlock
    <3> QED  BY <3>2, <3>3
  <2>6. PcsOK'
    BY <2>1, <2>2, <2>5 DEF PcsOK, AivOf
  <2>7. RanksInStep'
    BY <2>2, SameSides
  <2>8. CoresInStep'
    <3>1. ASSUME NEW s \in Ranks, NEW c \in Aics, NEW d \in Aics
          PROVE  BarriersIn(s, c)' = BarriersIn(s, d)' /\ BarriersOut(s, c)' = BarriersOut(s, d)'
      <4>1. CASE s = r
        <5>1. aic'[s][c] = there /\ aic'[s][d] = there
          BY <2>1, <4>1
        <5>2. aicBlock'[s][c] = aicBlock'[s][d]
          BY <2>2, <2>3, <4>1
        <5> QED  BY <5>1, <5>2 DEF BarriersIn, BarriersOut
      <4>2. CASE s # r
        <5>1. aic'[s][c] = aic[s][c] /\ aic'[s][d] = aic[s][d]
          BY <2>1, <4>2
        <5>2. BarriersIn(s, c) = BarriersIn(s, d) /\ BarriersOut(s, c) = BarriersOut(s, d)
          BY DEF CoresInStep
        <5> QED  BY <2>2, <5>1, <5>2 DEF BarriersIn, BarriersOut
      <4> QED  BY <4>1, <4>2
    <3> QED  BY <2>2, <3>1 DEF CoresInStep
  <2>9. ASSUME NEW s \in Ranks, NEW d \in Aics, NEW u \in AivsOf(d)
        PROVE  FlagsOf(s, d, u)'
    <3>1. FlagsOf(s, d, u)
      BY DEF FlagsFollow
    <3>2. aic'[s][d] = aic[s][d] \/ (aic[s][d] = "barrierIn" /\ aic'[s][d] = there)
      BY <2>1
    <3>3. there \in HasStarted /\ there # "waitPadding"
      BY DEF HasStarted
    <3> HIDE DEF there
    <3> QED
      BY <2>2, <3>1, <3>2, <3>3
         DEF FlagsOf, StartsSet, StartsTaken, MmadsTaken, HasPadded, HasStarted
  <2>10. SlotsFollow'
    BY <2>2 DEF SlotsFollow, SlotOf, SignalsSent, Peer
  <2> QED  BY <2>4, <2>6, <2>7, <2>8, <2>9, <2>10 DEF FlagsFollow
<1>7. ASSUME NEW r \in Ranks, AicBarrierOut(r)
      PROVE  IInv'
  <2>1. /\ aic' \in [Ranks -> [Aics -> AicPcs]]
        /\ \A d \in Aics : aic[r][d] = "barrierOut" /\ aic'[r][d] = "setMmad"
        /\ \A s \in Ranks, d \in Aics : s # r => aic'[s][d] = aic[s][d]
    BY <1>7, AicsMeetMove DEF AicBarrierOut, PcsOK, AicPcs
  <2>2. UNCHANGED <<padding, promptClear, launch, aiv, aicBlock, aivBlock, start, padded, mmad,
                    reverse, setCount, waitCount, ready>>
    BY <1>7 DEF AicBarrierOut, choices, flags
  <2>3. TypeOK'
    BY <2>2 DEF TypeOK
  <2>4. \A s \in Ranks, d \in Aics :
           aic'[s][d] = aic[s][d] \/ (aic[s][d] = "barrierOut" /\ aic'[s][d] = "setMmad")
    BY <2>1
  <2>5. ASSUME NEW s \in Ranks, NEW d \in Aics
        PROVE  AicOfBlock(s, d)'
    <3>1. AicOfBlock(s, d)
      BY DEF PcsOK
    <3> QED  BY <2>2, <2>4, <3>1 DEF AicOfBlock
  <2>6. PcsOK'
    BY <2>1, <2>2, <2>5 DEF PcsOK, AivOf
  <2>7. RanksInStep'
    BY <2>2, SameSides
  <2>8. CoresInStep'
    <3>1. ASSUME NEW s \in Ranks, NEW c \in Aics, NEW d \in Aics
          PROVE  BarriersIn(s, c)' = BarriersIn(s, d)' /\ BarriersOut(s, c)' = BarriersOut(s, d)'
      <4>1. BarriersIn(s, c) = BarriersIn(s, d) /\ BarriersOut(s, c) = BarriersOut(s, d)
        BY DEF CoresInStep
      <4>2. aicBlock[s][c] \in Int /\ aicBlock[s][d] \in Int
        BY AicTypes
      <4>3. CASE s = r
        <5>1. /\ aic[s][c] = "barrierOut" /\ aic'[s][c] = "setMmad"
              /\ aic[s][d] = "barrierOut" /\ aic'[s][d] = "setMmad"
          BY <2>1, <4>3
        <5> QED  BY <2>2, <4>1, <4>2, <5>1 DEF BarriersIn, BarriersOut, IsInside
      <4>4. CASE s # r
        <5>1. aic'[s][c] = aic[s][c] /\ aic'[s][d] = aic[s][d]
          BY <2>1, <4>4
        <5> QED  BY <2>2, <4>1, <5>1 DEF BarriersIn, BarriersOut
      <4> QED  BY <4>3, <4>4
    <3> QED  BY <2>2, <3>1 DEF CoresInStep
  <2>9. ASSUME NEW s \in Ranks, NEW d \in Aics, NEW u \in AivsOf(d)
        PROVE  FlagsOf(s, d, u)'
    <3>1. FlagsOf(s, d, u)
      BY DEF FlagsFollow
    <3> QED
      BY <2>2, <2>4, <3>1 DEF FlagsOf, StartsSet, StartsTaken, MmadsTaken, HasPadded, HasStarted
  <2>10. SlotsFollow'
    BY <2>2 DEF SlotsFollow, SlotOf, SignalsSent, Peer
  <2> QED  BY <2>3, <2>6, <2>7, <2>8, <2>9, <2>10 DEF FlagsFollow
<1>8. ASSUME NEW r \in Ranks, Relaunch(r)
      PROVE  IInv'
  <2>1. /\ aiv' \in [Ranks -> [Aivs -> AivPcs]]
        /\ \A u \in Aivs : aiv[r][u] = "done" /\ aiv'[r][u] = "barrierAll"
        /\ \A s \in Ranks, u \in Aivs : s # r => aiv'[s][u] = aiv[s][u]
    BY <1>8 DEF Relaunch, RankIsDone, PcsOK, AivPcs
  <2>2. /\ aic' \in [Ranks -> [Aics -> AicPcs]]
        /\ \A d \in Aics : aic[r][d] = "done" /\ aic'[r][d] = AicStart
        /\ \A s \in Ranks, d \in Aics : s # r => aic'[s][d] = aic[s][d]
    <3>1. AicStart \in AicPcs
      BY DEF AicStart, AicPcs
    <3> QED  BY <1>8, <3>1 DEF Relaunch, RankIsDone, PcsOK
  <2>3. /\ launch' \in [Ranks -> 1..Launches]
        /\ launch'[r] = launch[r] + 1
        /\ \A s \in Ranks : s # r => launch'[s] = launch[s]
    <3>1. launch[r] + 1 \in 1..Launches
      BY <1>8, LoopAssumption DEF Relaunch, TypeOK
    <3> QED  BY <1>8, <3>1 DEF Relaunch, TypeOK
  <2>4. /\ aicBlock' \in [Ranks -> [Aics -> 0..CocLoop]]
        /\ aivBlock' \in [Ranks -> [Aivs -> 0..CocLoop]]
        /\ setCount' \in [Ranks -> [Aics -> 0..ReverseDepth]]
        /\ waitCount' \in [Ranks -> [Aivs -> 0..(ReverseDepth - 1)]]
        /\ \A d \in Aics : aicBlock'[r][d] = 0 /\ setCount'[r][d] = 0
        /\ \A u \in Aivs : aivBlock'[r][u] = 0 /\ waitCount'[r][u] = 0
    BY <1>8, LoopAssumption, DepthAssumption DEF Relaunch, TypeOK
  <2>5. \A s \in Ranks : s # r =>
           /\ \A d \in Aics : SameAic(s, d)
           /\ \A u \in Aivs : SameAiv(s, u)
    BY <1>8, <2>1, <2>2 DEF Relaunch, TypeOK, SameAic, SameAiv
  <2>6. UNCHANGED <<padding, promptClear, start, padded, mmad, reverse, ready>>
    BY <1>8 DEF Relaunch, choices
  <2>7. TypeOK'
    BY <2>3, <2>4, <2>6 DEF TypeOK
  <2>8. PcsOK'
    <3>1. ASSUME NEW s \in Ranks, NEW u \in Aivs
          PROVE  AivOf(s, u)'
      <4>1. CASE s = r
        BY <2>1, <2>4, <4>1 DEF AivOf, HasTaken
      <4>2. CASE s # r
        <5>1. SameAiv(s, u) /\ AivOf(s, u)
          BY <2>5, <4>2 DEF PcsOK
        <5> QED  BY <2>6, <5>1 DEF AivOf, SameAiv
      <4> QED  BY <4>1, <4>2
    <3>2. ASSUME NEW s \in Ranks, NEW d \in Aics
          PROVE  AicOfBlock(s, d)'
      <4>1. CASE s = r
        <5>1. aic'[s][d] = AicStart /\ aicBlock'[s][d] = 0 /\ setCount'[s][d] = 0
          BY <2>2, <2>4, <4>1
        <5> QED  BY <2>6, <5>1, DepthAssumption DEF AicOfBlock, AicStart
      <4>2. CASE s # r
        <5>1. SameAic(s, d) /\ AicOfBlock(s, d)
          BY <2>5, <4>2 DEF PcsOK
        <5> QED  BY <2>6, <5>1 DEF AicOfBlock, SameAic
      <4> QED  BY <4>1, <4>2
    <3> QED  BY <2>1, <2>2, <3>1, <3>2 DEF PcsOK
  <2>9. /\ Peer(r) \in Ranks /\ Peer(r) # r /\ \A s \in Ranks : s = r \/ s = Peer(r)
    BY Peers
  (* The other rank has begun the same launch, or it waits at the next. *)
  <2>10. /\ launch[r] \in Int /\ launch[Peer(r)] \in Int
         /\ launch[Peer(r)] = launch[r] \/ launch[Peer(r)] = launch[r] + 1
         /\ launch[Peer(r)] = launch[r] => \A u \in Aivs : aiv[Peer(r)][u] # "barrierAll"
         /\ launch[Peer(r)] = launch[r] + 1 => \A u \in Aivs : aiv[Peer(r)][u] = "barrierAll"
    <3>1. launch[r] \in Int /\ launch[Peer(r)] \in Int
      BY <2>9 DEF TypeOK
    <3>2. launch[r] # launch[Peer(r)] + 1
      BY <2>1, <2>9, SomeCores DEF RanksInStep
    <3>3. launch[r] <= launch[Peer(r)] + 1 /\ launch[Peer(r)] <= launch[r] + 1
      BY <2>9 DEF RanksInStep
    <3>4. launch[Peer(r)] = launch[r] => \A u \in Aivs : aiv[Peer(r)][u] # "barrierAll"
      BY <2>1, <2>9, SomeCores DEF RanksInStep
    <3>5. launch[Peer(r)] = launch[r] + 1 => \A u \in Aivs : aiv[Peer(r)][u] = "barrierAll"
      BY <2>9 DEF RanksInStep
    <3> QED  BY <3>1, <3>2, <3>3, <3>4, <3>5
  <2>11. /\ launch'[r] = launch[r] + 1 /\ launch'[Peer(r)] = launch[Peer(r)]
         /\ \A u \in Aivs : aiv'[r][u] = "barrierAll" /\ aiv'[Peer(r)][u] = aiv[Peer(r)][u]
    BY <2>1, <2>3, <2>9
  <2>12. RanksInStep'
    <3> SUFFICES ASSUME NEW p \in Ranks, NEW q \in Ranks
                 PROVE  /\ launch'[q] <= launch'[p] + 1
                        /\ launch'[q] = launch'[p] + 1 =>
                              \A v \in Aivs : aiv'[p][v] # "barrierAll" /\ aiv'[q][v] = "barrierAll"
                        /\ launch'[q] = launch'[p] =>
                              \A u, v \in Aivs :
                                 aiv'[p][v] = "barrierAll" => aiv'[q][u] = "barrierAll"
      BY DEF RanksInStep
    <3>1. CASE p = r /\ q = r
      BY <2>10, <2>11, <3>1
    <3>2. CASE p = r /\ q = Peer(r)
      BY <2>10, <2>11, <3>2
    <3>3. CASE p = Peer(r) /\ q = r
      BY <2>10, <2>11, <3>3
    <3>4. CASE p = Peer(r) /\ q = Peer(r)
      <4>1. launch[p] = launch[q]
        BY <3>4
      <4>2. \A u, v \in Aivs : aiv[p][v] = "barrierAll" => aiv[q][u] = "barrierAll"
        BY <4>1 DEF RanksInStep
      <4> QED  BY <2>10, <2>11, <3>4, <4>2
    <3> QED  BY <2>9, <3>1, <3>2, <3>3, <3>4
  <2>13. CoresInStep'
    <3>1. ASSUME NEW s \in Ranks, NEW u \in Aivs, NEW v \in Aivs
          PROVE  /\ aivBlock'[s][u] = aivBlock'[s][v]
                 /\ aiv'[s][u] \in IsExchanging => aiv'[s][v] \in IsExchanging
      <4>1. CASE s = r
        BY <2>1, <2>4, <4>1 DEF IsExchanging
      <4>2. CASE s # r
        BY <2>5, <4>2 DEF CoresInStep, SameAiv
      <4> QED  BY <4>1, <4>2
    <3>2. ASSUME NEW s \in Ranks, NEW c \in Aics, NEW d \in Aics
          PROVE  BarriersIn(s, c)' = BarriersIn(s, d)' /\ BarriersOut(s, c)' = BarriersOut(s, d)'
      <4>1. CASE s = r
        <5>1. /\ aic'[s][c] = AicStart /\ aic'[s][d] = AicStart
              /\ aicBlock'[s][c] = 0 /\ aicBlock'[s][d] = 0
          BY <2>2, <2>4, <4>1
        <5> QED  BY <5>1 DEF BarriersIn, BarriersOut
      <4>2. CASE s # r
        <5>1. SameAic(s, c) /\ SameAic(s, d)
          BY <2>5, <4>2
        <5>2. BarriersIn(s, c) = BarriersIn(s, d) /\ BarriersOut(s, c) = BarriersOut(s, d)
          BY DEF CoresInStep
        <5> QED  BY <5>1, <5>2 DEF SameAic, BarriersIn, BarriersOut
      <4> QED  BY <4>1, <4>2
    <3> QED  BY <3>1, <3>2 DEF CoresInStep
  <2>14. ASSUME NEW s \in Ranks, NEW d \in Aics, NEW u \in AivsOf(d)
         PROVE  FlagsOf(s, d, u)'
    <3>1. u \in Aivs /\ FlagsOf(s, d, u)
      BY CubeCores DEF FlagsFollow
    <3>2. CASE s = r
      <4>1. LaunchLeavesFlags(s, d, u)
        BY <2>1, <2>2, <3>1, <3>2, FlagsAfterLaunch
      <4>2. /\ aiv'[s][u] = "barrierAll" /\ aivBlock'[s][u] = 0 /\ waitCount'[s][u] = 0
            /\ aic'[s][d] = AicStart /\ aicBlock'[s][d] = 0 /\ setCount'[s][d] = 0
        BY <2>1, <2>2, <2>4, <3>1, <3>2
      <4>3. StartsSet(s, u)' = 0 /\ MmadsTaken(s, u)' = 0 /\ ~HasPadded(s, u)'
        BY <4>2 DEF StartsSet, MmadsTaken, HasPadded, HasTaken
      <4>4. StartsTaken(s, d)' = 0 /\ (padding => aic'[s][d] = "waitPadding")
        BY <4>2 DEF StartsTaken, AicStart, HasStarted
      <4> QED  BY <2>6, <4>1, <4>2, <4>3, <4>4 DEF FlagsOf, LaunchLeavesFlags
    <3>3. CASE s # r
      <4>1. SameAiv(s, u) /\ SameAic(s, d)
        BY <2>5, <3>1, <3>3
      <4> QED
        BY <2>6, <3>1, <4>1 DEF SameAiv, SameAic, FlagsOf, StartsSet, StartsTaken, MmadsTaken,
                                HasPadded
    <3> QED  BY <3>2, <3>3
  <2>15. ASSUME NEW s \in Ranks, NEW u \in Aivs
         PROVE  SlotOf(s, u)'
    <3>1. Peer(s)' = Peer(s) /\ Peer(s) \in Ranks /\ s \in Aivs
      BY Peers DEF Peer
    <3> SUFFICES ASSUME launch'[s] = launch'[Peer(s)]
                 PROVE  /\ SignalsSent(Peer(s), s)' >= aivBlock'[s][u]
                        /\ aiv'[s][u] = "barrierAll"
      BY <3>1 DEF SlotOf, HasTaken
    <3>2. launch[Peer(r)] = launch[r] + 1
      BY <2>3, <2>9, <2>10, <3>1, Peers
    <3>3. \A t \in Ranks, v \in Aivs : aiv'[t][v] = "barrierAll"
      BY <2>9, <2>10, <2>11, <3>2
    <3>4. \A t \in Ranks, v \in Aivs : aivBlock'[t][v] = 0
      <4>1. \A v \in Aivs : aivBlock[Peer(r)][v] = 0
        BY <2>9, <2>10, <3>2, AivTypes DEF AivOf
      <4>2. ASSUME NEW v \in Aivs
            PROVE  aivBlock'[Peer(r)][v] = 0
        <5>1. SameAiv(Peer(r), v)
          BY <2>5, <2>9
        <5> QED  BY <4>1, <5>1 DEF SameAiv
      <4> QED  BY <2>4, <2>9, <4>2
    <3> QED  BY <3>1, <3>3, <3>4 DEF SignalsSent, HasSignalled
  <2> QED  BY <2>7, <2>8, <2>12, <2>13, <2>14, <2>15 DEF FlagsFollow, SlotsFollow
<1>9. ASSUME NEW r \in Ranks, NEW v \in Aivs, SetStart(r, v)
      PROVE  IInv'
  <2> DEFINE there == IF aivBlock[r][v] = 0 /\ padding THEN "pad"
                      ELSE IF aivBlock[r][v] = CocLoop THEN "done" ELSE "clear"
  <2>1. /\ aiv' \in [Ranks -> [Aivs -> AivPcs]]
        /\ aiv'[r][v] = there
        /\ \A s \in Ranks, u \in Aivs : ~(s = r /\ u = v) => aiv'[s][u] = aiv[s][u]
    <3>1. there \in AivPcs
      BY DEF AivPcs
    <3> QED  BY <1>9, <3>1, AivMove DEF SetStart, PcsOK
  <2>2. /\ aiv[r][v] = "setStart"
        /\ UNCHANGED <<padding, promptClear, launch, aic, aicBlock, aivBlock, padded, mmad,
                       reverse, setCount, waitCount, ready>>
    BY <1>9 DEF SetStart, choices
  <2>3. PICK c \in Aics : v \in AivsOf(c)
    BY CubeCores
  <2>4. start[r][v] = 0
    <3>1. StartsTaken(r, c) <= StartsSet(r, v) /\ FlagsOf(r, c, v)
          /\ MmadsTaken(r, v) <= aicBlock[r][c] /\ aicBlock[r][c] <= StartsTaken(r, c)
      BY <2>3, BlocksInStep DEF FlagsFollow
    <3>2. aivBlock[r][v] \in Int /\ aicBlock[r][c] \in Int
      BY AivTypes, AicTypes
    <3>3. StartsSet(r, v) = aivBlock[r][v] /\ MmadsTaken(r, v) = aivBlock[r][v]
      BY <2>2, <3>2 DEF StartsSet, MmadsTaken, HasTaken
    <3>4. StartsTaken(r, c) \in Int
      BY <3>2 DEF StartsTaken
    <3> QED  BY <3>1, <3>2, <3>3, <3>4 DEF FlagsOf
  <2>5. /\ start' \in [Ranks -> [Aivs -> 0..1]]
        /\ start'[r][v] = 1
        /\ \A s \in Ranks, u \in Aivs : ~(s = r /\ u = v) => start'[s][u] = start[s][u]
    BY <1>9, <2>4 DEF SetStart, TypeOK
  <2>6. TypeOK'
    BY <2>2, <2>5 DEF TypeOK
  <2>7. AivOf(r, v)'
    <3>1. AivOf(r, v) /\ aivBlock[r][v] \in 0..CocLoop
      BY AivTypes
    <3> QED  BY <2>1, <2>2, <3>1, LoopAssumption DEF AivOf, HasTaken
  <2>8. ASSUME NEW d \in Aics, v \in AivsOf(d)
        PROVE  FlagsOf(r, d, v)'
    <3>1. FlagsOf(r, d, v)
      BY <2>8 DEF FlagsFollow
    <3>2. aivBlock[r][v] \in 0..CocLoop /\ aicBlock[r][d] \in Int
      BY AivTypes, AicTypes
    <3>3. StartsSet(r, v)' = StartsSet(r, v) + 1
      BY <2>1, <2>2, <3>2 DEF StartsSet
    <3>4. StartsTaken(r, d)' = StartsTaken(r, d) /\ StartsTaken(r, d) \in Int
      BY <2>2, <3>2 DEF StartsTaken
    <3>5. MmadsTaken(r, v)' = MmadsTaken(r, v)
      BY <2>1, <2>2, <3>2 DEF MmadsTaken, HasTaken
    <3>6. padding => (HasPadded(r, v)' <=> HasPadded(r, v))
      BY <2>1, <2>2, <3>2 DEF HasPadded
    <3>7. StartsSet(r, v) \in Int
      BY <2>2, <3>2 DEF StartsSet
    <3>8. start'[r][v] = StartsSet(r, v)' - StartsTaken(r, d)'
      <4>1. start[r][v] = StartsSet(r, v) - StartsTaken(r, d)
        BY <3>1 DEF FlagsOf
      <4>2. StartsSet(r, v) + 1 - StartsTaken(r, d) = 1
        BY <2>4, <3>4, <3>7, <4>1
      <4> QED  BY <2>5, <3>3, <3>4, <3>7, <4>2
    <3>9. /\ padded'[r][v] = IF padding' /\ HasPadded(r, v)' /\ aic'[r][d] = "waitPadding"
                             THEN 1 ELSE 0
          /\ padding' /\ aic'[r][d] # "waitPadding" => HasPadded(r, v)'
      BY <2>2, <3>1, <3>6 DEF FlagsOf
    <3> QED  BY <2>2, <3>1, <3>5, <3>8, <3>9 DEF FlagsOf
  <2>9. \A s \in Ranks, u \in Aivs : ~(s = r /\ u = v) => SameAiv(s, u)
    BY <2>1, <2>2, <2>5 DEF SameAiv
  <2>10. PcsOK' /\ FlagsFollow'
    BY <2>1, <2>2, <2>7, <2>8, <2>9, AivStep
  <2>11. RanksInStep'
    BY <2>1, <2>2, SameSides
  <2>12. CoresInStep'
    BY <2>1, <2>2, SamePhases DEF BarriersIn, BarriersOut, IsExchanging
  <2>13. SlotsFollow'
    <3>1. \A s \in Ranks, u \in Aivs : SlotOfStays(s, u)
      BY <2>1, <2>2 DEF SlotOfStays, HasTaken
    <3> QED  BY <2>1, <2>2, <3>1, SignalsGrow, SlotsStay DEF HasSignalled
  <2> QED  BY <2>6, <2>10, <2>11, <2>12, <2>13
<1>10. ASSUME NEW r \in Ranks, NEW v \in Aivs, SetPadding(r, v)
       PROVE  IInv'
  <2>1. /\ aiv' \in [Ranks -> [Aivs -> AivPcs]]
        /\ aiv'[r][v] = "clear"
        /\ \A s \in Ranks, u \in Aivs : ~(s = r /\ u = v) => aiv'[s][u] = aiv[s][u]
    BY <1>10, AivMove DEF SetPadding, PcsOK, AivPcs
  <2>2. /\ aiv[r][v] = "setPadding"
        /\ UNCHANGED <<padding, promptClear, launch, aic, aicBlock, aivBlock, start, mmad,
                       reverse, setCount, waitCount, ready>>
    BY <1>10 DEF SetPadding, choices
  <2>3. AivOf(r, v) /\ aivBlock[r][v] = 0 /\ padding /\ ~HasPadded(r, v)
    <3>1. AivOf(r, v) /\ padding \in BOOLEAN
      BY AivTypes, ChoicesAssumption DEF TypeOK
    <3> QED  BY <2>2, <3>1 DEF AivOf, HasPadded
  <2>4. ASSUME NEW d \in Aics, v \in AivsOf(d)
        PROVE  padded[r][v] = 0 /\ aic[r][d] = "waitPadding"
    <3>1. FlagsOf(r, d, v)
      BY <2>4 DEF FlagsFollow
    <3> QED  BY <2>3, <3>1 DEF FlagsOf
  <2>5. /\ padded' \in [Ranks -> [Aivs -> 0..1]]
        /\ padded'[r][v] = 1
        /\ \A s \in Ranks, u \in Aivs : ~(s = r /\ u = v) => padded'[s][u] = padded[s][u]
    <3>1. padded[r][v] = 0
      BY <2>4, CubeCores
    <3> QED  BY <1>10, <3>1 DEF SetPadding, TypeOK
  <2>6. TypeOK'
    BY <2>2, <2>5 DEF TypeOK
  <2>7. AivOf(r, v)'
    BY <2>1, <2>2, <2>3, LoopAssumption DEF AivOf, HasTaken
  <2>8. ASSUME NEW d \in Aics, v \in AivsOf(d)
        PROVE  FlagsOf(r, d, v)'
    <3>1. FlagsOf(r, d, v)
      BY <2>8 DEF FlagsFollow
    <3>2. HasPadded(r, v)'
      BY <2>1 DEF HasPadded
    <3>3. aic'[r][d] = "waitPadding" /\ padding'
      BY <2>2, <2>3, <2>4, <2>8
    <3>4. StartsSet(r, v)' = StartsSet(r, v) /\ MmadsTaken(r, v)' = MmadsTaken(r, v)
      BY <2>1, <2>2 DEF StartsSet, MmadsTaken, HasTaken
    <3> QED  BY <2>2, <2>5, <3>1, <3>2, <3>3, <3>4 DEF FlagsOf, StartsTaken
  <2>9. \A s \in Ranks, u \in Aivs : ~(s = r /\ u = v) => SameAiv(s, u)
    BY <2>1, <2>2, <2>5 DEF SameAiv
  <2>10. PcsOK' /\ FlagsFollow'
    BY <2>1, <2>2, <2>7, <2>8, <2>9, AivStep
  <2>11. RanksInStep'
    BY <2>1, <2>2, SameSides
  <2>12. CoresInStep'
    BY <2>1, <2>2, SamePhases DEF BarriersIn, BarriersOut, IsExchanging
  <2>13. SlotsFollow'
    <3>1. \A s \in Ranks, u \in Aivs : SlotOfStays(s, u)
      BY <2>1, <2>2 DEF SlotOfStays, HasTaken
    <3> QED  BY <2>1, <2>2, <3>1, SignalsGrow, SlotsStay DEF HasSignalled
  <2> QED  BY <2>6, <2>10, <2>11, <2>12, <2>13
<1>11. ASSUME NEW r \in Ranks, NEW v \in Aivs, Clear(r, v)
       PROVE  IInv'
  <2>1. /\ aiv' \in [Ranks -> [Aivs -> AivPcs]]
        /\ aiv'[r][v] = "waitMmad"
        /\ \A s \in Ranks, u \in Aivs : ~(s = r /\ u = v) => aiv'[s][u] = aiv[s][u]
    BY <1>11, AivMove DEF Clear, PcsOK, AivPcs
  <2>2. /\ aiv[r][v] = "clear"
        /\ UNCHANGED <<padding, promptClear, launch, aic, aicBlock, aivBlock, start, padded, mmad,
                       reverse, setCount, waitCount>>
    BY <1>11 DEF Clear, choices, flags
  <2>3. /\ ready' \in [Ranks -> [Ranks -> 0..1]]
        /\ ready'[r][Peer(r)] = 0
        /\ \A s, t \in Ranks : ready'[s][t] = ready[s][t] \/ ready'[s][t] = 0
    BY <1>11, Peers DEF Clear, TypeOK
  <2>4. TypeOK'
    BY <2>2, <2>3 DEF TypeOK
  <2>5. AivOf(r, v)'
    BY <2>1, <2>2, AivTypes DEF AivOf, HasTaken
  <2>6. ASSUME NEW d \in Aics, v \in AivsOf(d)
        PROVE  FlagsOf(r, d, v)'
    <3>1. FlagsOf(r, d, v)
      BY <2>6 DEF FlagsFollow
    <3> QED
      BY <2>1, <2>2, <3>1 DEF FlagsOf, StartsSet, StartsTaken, MmadsTaken, HasPadded, HasTaken
  <2>7. \A s \in Ranks, u \in Aivs : ~(s = r /\ u = v) => SameAiv(s, u)
    BY <2>1, <2>2 DEF SameAiv
  <2>8. PcsOK' /\ FlagsFollow'
    BY <2>1, <2>2, <2>5, <2>6, <2>7, AivStep
  <2>9. RanksInStep'
    BY <2>1, <2>2, SameSides
  <2>10. CoresInStep'
    BY <2>1, <2>2, SamePhases DEF BarriersIn, BarriersOut, IsExchanging
  <2>11. /\ \A s \in Ranks : /\ SignalsSent(s, Peer(s))' \in Int
                             /\ SignalsSent(s, Peer(s))' >= SignalsSent(s, Peer(s))
         /\ \A s \in Ranks : Peer(s) \in Ranks /\ Peer(Peer(s)) = s /\ s \in Aivs
    BY <2>1, <2>2, SignalsGrow, Peers DEF HasSignalled
  <2>12. ASSUME NEW s \in Ranks, NEW u \in Aivs
         PROVE  SlotOfStays(s, u) \/ SlotOf(s, u)'
    <3>1. Peer(s)' = Peer(s) /\ Peer(s) \in Ranks
      BY <2>11 DEF Peer
    <3>2. CASE s = r /\ u = v
      <4>1. launch[s] = launch[Peer(s)] => SignalsSent(Peer(s), s) >= aivBlock[s][u]
        BY DEF SlotsFollow, SlotOf
      <4>2. aivBlock[s][u] \in Int /\ SignalsSent(Peer(s), s) \in Int
        BY <2>11, AivTypes DEF SignalsSent
      <4>3. /\ SignalsSent(Peer(s), s)' \in Int
            /\ SignalsSent(Peer(s), s)' >= SignalsSent(Peer(s), s)
        BY <2>11
      <4>4. aiv'[s][u] = "waitMmad" /\ ready'[s][Peer(s)] = 0
        BY <2>1, <2>3, <3>2
      <4> QED  BY <2>2, <3>1, <4>1, <4>2, <4>3, <4>4 DEF SlotOf
    <3>3. CASE ~(s = r /\ u = v)
      <4>1. aiv'[s][u] = aiv[s][u]
        BY <2>1, <3>3
      <4> QED  BY <2>2, <2>3, <3>1, <4>1 DEF SlotOfStays
    <3> QED  BY <3>2, <3>3
  <2>13. SlotsFollow'
    BY <2>2, <2>11, <2>12, SlotsStay
  <2> QED  BY <2>4, <2>8, <2>9, <2>10, <2>13
<1>12. ASSUME NEW r \in Ranks, NEW v \in Aivs, WaitMmad(r, v)
       PROVE  IInv'
  <2>1. /\ aiv' \in [Ranks -> [Aivs -> AivPcs]]
        /\ aiv'[r][v] = "barrierIn"
        /\ \A s \in Ranks, u \in Aivs : ~(s = r /\ u = v) => aiv'[s][u] = aiv[s][u]
    BY <1>12, AivMove DEF WaitMmad, PcsOK, AivPcs
  <2>2. /\ aiv[r][v] = "waitMmad" /\ mmad[r][v] = 1
        /\ UNCHANGED <<padding, promptClear, launch, aic, aicBlock, aivBlock, start, padded,
                       setCount, ready>>
    <3>1. mmad[r][v] \in 0..1
      BY AivTypes
    <3> QED  BY <1>12, <3>1 DEF WaitMmad, choices
  <2>3. /\ mmad' \in [Ranks -> [Aivs -> 0..1]]
        /\ mmad'[r][v] = 0
        /\ \A s \in Ranks, u \in Aivs : ~(s = r /\ u = v) => mmad'[s][u] = mmad[s][u]
    BY <1>12, <2>2 DEF WaitMmad, TypeOK
  <2>4. PICK c \in Aics : v \in AivsOf(c)
    BY CubeCores
  (* The answer is only due if the last one has been taken. *)
  <2>5. waitCount[r][v] + 1 >= ReverseDepth => reverse[r][v] = 0
    <3>1. setCount[r][c] = mmad[r][v] + waitCount[r][v]
                              + (IF reverse[r][v] = 0 THEN 0 ELSE ReverseDepth)
      BY <2>4 DEF FlagsFollow, FlagsOf
    <3>2. /\ setCount[r][c] \in 0..ReverseDepth /\ waitCount[r][v] \in 0..(ReverseDepth - 1)
          /\ reverse[r][v] \in 0..1
      BY AivTypes, AicTypes
    <3> QED  BY <2>2, <3>1, <3>2, DepthAssumption
  <2>6. /\ reverse' \in [Ranks -> [Aivs -> 0..1]]
        /\ waitCount' \in [Ranks -> [Aivs -> 0..(ReverseDepth - 1)]]
        /\ waitCount'[r][v] + (IF reverse'[r][v] = 0 THEN 0 ELSE ReverseDepth)
              = waitCount[r][v] + 1 + (IF reverse[r][v] = 0 THEN 0 ELSE ReverseDepth)
        /\ \A s \in Ranks, u \in Aivs : ~(s = r /\ u = v) =>
              reverse'[s][u] = reverse[s][u] /\ waitCount'[s][u] = waitCount[s][u]
    <3>1. waitCount[r][v] \in 0..(ReverseDepth - 1) /\ reverse[r][v] \in 0..1
      BY AivTypes
    <3>2. CASE waitCount[r][v] + 1 >= ReverseDepth
      <4>1. /\ reverse' = [reverse EXCEPT ![r][v] = @ + 1]
            /\ waitCount' = [waitCount EXCEPT ![r][v] = 0]
        BY <1>12, <3>2 DEF WaitMmad, Answer
      <4>2. waitCount[r][v] + 1 = ReverseDepth /\ reverse[r][v] = 0 /\ 0 \in 0..(ReverseDepth - 1)
        BY <2>5, <3>1, <3>2, DepthAssumption
      <4>3. reverse'[r][v] = 1 /\ waitCount'[r][v] = 0
        BY <4>1, <4>2 DEF TypeOK
      <4>4. /\ reverse' \in [Ranks -> [Aivs -> 0..1]]
            /\ waitCount' \in [Ranks -> [Aivs -> 0..(ReverseDepth - 1)]]
            /\ \A s \in Ranks, u \in Aivs : ~(s = r /\ u = v) =>
                  reverse'[s][u] = reverse[s][u] /\ waitCount'[s][u] = waitCount[s][u]
        BY <4>1, <4>2 DEF TypeOK
      <4> QED  BY <4>2, <4>3, <4>4, DepthAssumption
    <3>3. CASE ~(waitCount[r][v] + 1 >= ReverseDepth)
      <4>1. waitCount' = [waitCount EXCEPT ![r][v] = @ + 1] /\ reverse' = reverse
        BY <1>12, <3>3 DEF WaitMmad, Answer
      <4>2. waitCount[r][v] + 1 \in 0..(ReverseDepth - 1)
        BY <3>1, <3>3, DepthAssumption
      <4>3. waitCount'[r][v] = waitCount[r][v] + 1
        BY <4>1 DEF TypeOK
      <4>4. /\ reverse' \in [Ranks -> [Aivs -> 0..1]]
            /\ waitCount' \in [Ranks -> [Aivs -> 0..(ReverseDepth - 1)]]
            /\ \A s \in Ranks, u \in Aivs : ~(s = r /\ u = v) =>
                  reverse'[s][u] = reverse[s][u] /\ waitCount'[s][u] = waitCount[s][u]
        BY <4>1, <4>2 DEF TypeOK
      <4> QED  BY <4>1, <4>3, <4>4
    <3> QED  BY <3>2, <3>3
  <2>7. TypeOK'
    BY <2>2, <2>3, <2>6 DEF TypeOK
  <2>8. AivOf(r, v)'
    BY <2>1, <2>2, AivTypes DEF AivOf, HasTaken
  <2>9. ASSUME NEW d \in Aics, v \in AivsOf(d)
        PROVE  FlagsOf(r, d, v)'
    <3>1. FlagsOf(r, d, v)
      BY <2>9 DEF FlagsFollow
    <3>2. /\ aivBlock[r][v] \in Int /\ aicBlock[r][d] \in Int
          /\ waitCount[r][v] \in Int /\ waitCount'[r][v] \in Int
      BY <2>6, AivTypes, AicTypes
    <3>3. StartsSet(r, v)' = StartsSet(r, v) /\ StartsTaken(r, d)' = StartsTaken(r, d)
      BY <2>1, <2>2 DEF StartsSet, StartsTaken
    <3>4. /\ MmadsTaken(r, v) = aivBlock[r][v] /\ MmadsTaken(r, v)' = aivBlock[r][v] + 1
          /\ HasPadded(r, v) /\ HasPadded(r, v)'
      BY <2>1, <2>2, <3>2 DEF MmadsTaken, HasTaken, HasPadded
    <3>5. mmad'[r][v] = aicBlock'[r][d] - MmadsTaken(r, v)'
      <4>1. mmad[r][v] = aicBlock[r][d] - MmadsTaken(r, v)
        BY <3>1 DEF FlagsOf
      <4> QED  BY <2>2, <2>3, <3>2, <3>4, <4>1
    <3>6. setCount'[r][d] = mmad'[r][v] + waitCount'[r][v]
                                + (IF reverse'[r][v] = 0 THEN 0 ELSE ReverseDepth)
      <4>1. setCount[r][d] = mmad[r][v] + waitCount[r][v]
                                + (IF reverse[r][v] = 0 THEN 0 ELSE ReverseDepth)
        BY <3>1 DEF FlagsOf
      <4> QED  BY <2>2, <2>3, <2>6, <3>2, <4>1, DepthAssumption
    <3>7. start'[r][v] = StartsSet(r, v)' - StartsTaken(r, d)'
      BY <2>2, <3>1, <3>3 DEF FlagsOf
    <3>8. /\ padded'[r][v] = IF padding' /\ HasPadded(r, v)' /\ aic'[r][d] = "waitPadding"
                             THEN 1 ELSE 0
          /\ padding' /\ aic'[r][d] # "waitPadding" => HasPadded(r, v)'
      BY <2>2, <3>1, <3>4 DEF FlagsOf
    <3> QED  BY <3>5, <3>6, <3>7, <3>8 DEF FlagsOf
  <2>10. \A s \in Ranks, u \in Aivs : ~(s = r /\ u = v) => SameAiv(s, u)
    BY <2>1, <2>2, <2>3, <2>6 DEF SameAiv
  <2>11. PcsOK' /\ FlagsFollow'
    BY <2>1, <2>2, <2>8, <2>9, <2>10, AivStep
  <2>12. RanksInStep'
    BY <2>1, <2>2, SameSides
  <2>13. CoresInStep'
    BY <2>1, <2>2, SamePhases DEF BarriersIn, BarriersOut, IsExchanging
  <2>14. SlotsFollow'
    <3>1. \A s \in Ranks, u \in Aivs : SlotOfStays(s, u)
      BY <2>1, <2>2 DEF SlotOfStays, HasTaken
    <3> QED  BY <2>1, <2>2, <3>1, SignalsGrow, SlotsStay DEF HasSignalled
  <2> QED  BY <2>7, <2>11, <2>12, <2>13, <2>14
<1>13. ASSUME NEW r \in Ranks, NEW v \in Aivs, Signal(r, v)
       PROVE  IInv'
  <2>1. /\ aiv' \in [Ranks -> [Aivs -> AivPcs]]
        /\ aiv'[r][v] = "loadOwn"
        /\ \A s \in Ranks, u \in Aivs : ~(s = r /\ u = v) => aiv'[s][u] = aiv[s][u]
    BY <1>13, AivMove DEF Signal, PcsOK, AivPcs
  <2>2. /\ aiv[r][v] = "signal"
        /\ UNCHANGED <<padding, promptClear, launch, aic, aicBlock, aivBlock, start, padded, mmad,
                       reverse, setCount, waitCount>>
    BY <1>13 DEF Signal, choices, flags
  <2>3. /\ ready' \in [Ranks -> [Ranks -> 0..1]]
        /\ \A s, t \in Ranks : ~(s = v /\ t = r) => ready'[s][t] = ready[s][t]
    BY <1>13 DEF Signal, TypeOK
  <2>4. TypeOK'
    BY <2>2, <2>3 DEF TypeOK
  <2>5. AivOf(r, v)'
    BY <2>1, <2>2, AivTypes DEF AivOf, HasTaken
  <2>6. ASSUME NEW d \in Aics, v \in AivsOf(d)
        PROVE  FlagsOf(r, d, v)'
    <3>1. FlagsOf(r, d, v)
      BY <2>6 DEF FlagsFollow
    <3> QED
      BY <2>1, <2>2, <3>1 DEF FlagsOf, StartsSet, StartsTaken, MmadsTaken, HasPadded, HasTaken
  <2>7. \A s \in Ranks, u \in Aivs : ~(s = r /\ u = v) => SameAiv(s, u)
    BY <2>1, <2>2 DEF SameAiv
  <2>8. PcsOK' /\ FlagsFollow'
    BY <2>1, <2>2, <2>5, <2>6, <2>7, AivStep
  <2>9. RanksInStep'
    BY <2>1, <2>2, SameSides
  <2>10. CoresInStep'
    BY <2>1, <2>2, SamePhases DEF BarriersIn, BarriersOut, IsExchanging
  <2>11. /\ \A s \in Ranks : /\ SignalsSent(s, Peer(s))' \in Int
                             /\ SignalsSent(s, Peer(s))' >= SignalsSent(s, Peer(s))
         /\ \A s \in Ranks : Peer(s) \in Ranks /\ Peer(Peer(s)) = s /\ s \in Aivs
    BY <2>1, <2>2, SignalsGrow, Peers DEF HasSignalled
  <2>12. ASSUME NEW s \in Ranks, NEW u \in Aivs
         PROVE  SlotOfStays(s, u) \/ SlotOf(s, u)'
    <3>1. Peer(s)' = Peer(s) /\ Peer(s) \in Ranks
      BY <2>11 DEF Peer
    (* The signal is for this rank: it is of the block the rank is with. *)
    <3>2. CASE s = v /\ Peer(s) = r
      <4>1. Peer(s) \in Ranks /\ s \in Aivs /\ Peer(Peer(s)) = s
        BY <2>11
      <4>2. launch[s] = launch[Peer(s)] => SignalsSent(Peer(s), s) >= aivBlock[s][u]
        BY DEF SlotsFollow, SlotOf
      <4>3. aivBlock[s][u] \in Int /\ aivBlock[r][v] \in Int
        BY AivTypes
      <4>4. /\ SignalsSent(Peer(s), s) = aivBlock[r][v]
            /\ SignalsSent(Peer(s), s)' = aivBlock[r][v] + 1
        BY <2>1, <2>2, <3>1, <3>2, <4>3 DEF SignalsSent, HasSignalled
      <4> QED  BY <2>2, <3>1, <4>2, <4>3, <4>4 DEF SlotOf
    <3>3. CASE ~(s = v /\ Peer(s) = r)
      <4>1. ready'[s][Peer(s)] = ready[s][Peer(s)]
        BY <2>3, <3>1, <3>3
      <4>2. aiv'[s][u] = aiv[s][u] \/ (aiv[s][u] = "signal" /\ aiv'[s][u] = "loadOwn")
        BY <2>1, <2>2
      <4> QED  BY <2>2, <3>1, <4>1, <4>2 DEF SlotOfStays, HasTaken
    <3> QED  BY <3>2, <3>3
  <2>13. SlotsFollow'
    BY <2>2, <2>11, <2>12, SlotsStay
  <2> QED  BY <2>4, <2>8, <2>9, <2>10, <2>13
<1>14. ASSUME NEW r \in Ranks, NEW v \in Aivs, ReadPeer(r, v)
       PROVE  IInv'
  <2>1. /\ aiv' \in [Ranks -> [Aivs -> AivPcs]]
        /\ aiv'[r][v] = "barrierOut"
        /\ \A s \in Ranks, u \in Aivs : ~(s = r /\ u = v) => aiv'[s][u] = aiv[s][u]
    BY <1>14, AivMove DEF ReadPeer, PcsOK, AivPcs
  <2>2. /\ aiv[r][v] = "readPeer" /\ ready[r][Peer(r)] = 1
        /\ UNCHANGED <<padding, promptClear, launch, aic, aicBlock, aivBlock, start, padded, mmad,
                       reverse, setCount, waitCount, ready>>
    BY <1>14 DEF ReadPeer, PeerIsReady, choices, flags
  <2>3. TypeOK'
    BY <2>2 DEF TypeOK
  <2>4. AivOf(r, v)'
    BY <2>1, <2>2, AivTypes DEF AivOf, HasTaken
  <2>5. ASSUME NEW d \in Aics, v \in AivsOf(d)
        PROVE  FlagsOf(r, d, v)'
    <3>1. FlagsOf(r, d, v)
      BY <2>5 DEF FlagsFollow
    <3> QED
      BY <2>1, <2>2, <3>1 DEF FlagsOf, StartsSet, StartsTaken, MmadsTaken, HasPadded, HasTaken
  <2>6. \A s \in Ranks, u \in Aivs : ~(s = r /\ u = v) => SameAiv(s, u)
    BY <2>1, <2>2 DEF SameAiv
  <2>7. PcsOK' /\ FlagsFollow'
    BY <2>1, <2>2, <2>4, <2>5, <2>6, AivStep
  <2>8. RanksInStep'
    BY <2>1, <2>2, SameSides
  <2>9. CoresInStep'
    BY <2>1, <2>2, SamePhases DEF BarriersIn, BarriersOut, IsExchanging
  <2>10. /\ \A s \in Ranks : /\ SignalsSent(s, Peer(s))' \in Int
                             /\ SignalsSent(s, Peer(s))' >= SignalsSent(s, Peer(s))
         /\ \A s \in Ranks : Peer(s) \in Ranks /\ Peer(Peer(s)) = s /\ s \in Aivs
    BY <2>1, <2>2, SignalsGrow, Peers DEF HasSignalled
  <2>11. ASSUME NEW s \in Ranks, NEW u \in Aivs
         PROVE  SlotOfStays(s, u) \/ SlotOf(s, u)'
    <3>1. Peer(s)' = Peer(s) /\ Peer(s) \in Ranks
      BY <2>10 DEF Peer
    <3>2. CASE s = r /\ u = v
      <4>1. launch[s] = launch[Peer(s)] => SignalsSent(Peer(s), s) > aivBlock[s][u]
        BY <2>2, <3>2 DEF SlotsFollow, SlotOf, HasTaken
      <4>2. aivBlock[s][u] \in Int /\ SignalsSent(Peer(s), s) \in Int
        BY <2>10, AivTypes DEF SignalsSent
      <4>3. /\ SignalsSent(Peer(s), s)' \in Int
            /\ SignalsSent(Peer(s), s)' >= SignalsSent(Peer(s), s)
        BY <2>10
      <4> QED  BY <2>2, <3>1, <4>1, <4>2, <4>3 DEF SlotOf
    <3>3. CASE ~(s = r /\ u = v)
      <4>1. aiv'[s][u] = aiv[s][u]
        BY <2>1, <3>3
      <4> QED  BY <2>2, <3>1, <4>1 DEF SlotOfStays
    <3> QED  BY <3>2, <3>3
  <2>12. SlotsFollow'
    BY <2>2, <2>10, <2>11, SlotsStay
  <2> QED  BY <2>3, <2>7, <2>8, <2>9, <2>12
<1>15. ASSUME NEW r \in Ranks, NEW c \in Aics, WaitPadding(r, c)
       PROVE  IInv'
  <2>1. /\ aic' \in [Ranks -> [Aics -> AicPcs]]
        /\ aic'[r][c] = "waitStart"
        /\ \A s \in Ranks, d \in Aics : ~(s = r /\ d = c) => aic'[s][d] = aic[s][d]
    BY <1>15, AicMove DEF WaitPadding, PcsOK, AicPcs
  <2>2. /\ aic[r][c] = "waitPadding"
        /\ UNCHANGED <<padding, promptClear, launch, aiv, aicBlock, aivBlock, start, mmad, reverse,
                       setCount, waitCount, ready>>
    BY <1>15 DEF WaitPadding, choices
  <2>3. \A v \in AivsOf(c) : padded[r][v] = 1
    <3>1. \A v \in AivsOf(c) : padded[r][v] > 0 /\ padded[r][v] \in 0..1
      BY <1>15, CubeCores, AivTypes DEF WaitPadding, SetByBoth
    <3> QED  BY <3>1
  <2>4. /\ padded' \in [Ranks -> [Aivs -> 0..1]]
        /\ \A v \in AivsOf(c) : padded'[r][v] = 0
        /\ \A s \in Ranks, u \in Aivs : ~(s = r /\ u \in AivsOf(c)) => padded'[s][u] = padded[s][u]
    BY <1>15, <2>3, CubeCores DEF WaitPadding, TakenFromBoth, TypeOK
  <2>5. TypeOK'
    BY <2>2, <2>4 DEF TypeOK
  <2>6. AicOfBlock(r, c)'
    BY <2>1, <2>2, AicTypes DEF AicOfBlock
  <2>7. ASSUME NEW v \in AivsOf(c)
        PROVE  FlagsOf(r, c, v)'
    <3>1. FlagsOf(r, c, v)
      BY DEF FlagsFollow
    <3>2. HasPadded(r, v)
      BY <2>3, <3>1 DEF FlagsOf
    <3>3. padded'[r][v] = 0 /\ aic'[r][c] = "waitStart"
      BY <2>1, <2>4
    <3> QED
      BY <2>2, <3>1, <3>2, <3>3
         DEF FlagsOf, StartsSet, StartsTaken, MmadsTaken, HasPadded, HasStarted
  <2>8. /\ \A s \in Ranks, d \in Aics : ~(s = r /\ d = c) => SameAic(s, d)
        /\ \A s \in Ranks, u \in Aivs : ~(s = r /\ u \in AivsOf(c)) => SameAiv(s, u)
    BY <2>1, <2>2, <2>4 DEF SameAic, SameAiv
  <2>9. PcsOK' /\ FlagsFollow'
    BY <2>1, <2>2, <2>6, <2>7, <2>8, AicStep
  <2>10. RanksInStep'
    BY <2>2, SameSides
  <2>11. CoresInStep'
    BY <2>1, <2>2, SamePhases DEF BarriersIn, BarriersOut, IsInside
  <2>12. SlotsFollow'
    BY <2>2 DEF SlotsFollow, SlotOf, SignalsSent, Peer
  <2> QED  BY <2>5, <2>9, <2>10, <2>11, <2>12
<1>16. ASSUME NEW r \in Ranks, NEW c \in Aics, WaitStart(r, c)
       PROVE  IInv'
  <2>1. /\ aic' \in [Ranks -> [Aics -> AicPcs]]
        /\ aic'[r][c] = "barrierIn"
        /\ \A s \in Ranks, d \in Aics : ~(s = r /\ d = c) => aic'[s][d] = aic[s][d]
    BY <1>16, AicMove DEF WaitStart, PcsOK, AicPcs
  <2>2. /\ aic[r][c] = "waitStart"
        /\ UNCHANGED <<padding, promptClear, launch, aiv, aicBlock, aivBlock, padded, mmad, reverse,
                       setCount, waitCount, ready>>
    BY <1>16 DEF WaitStart, choices
  <2>3. \A v \in AivsOf(c) : start[r][v] = 1
    <3>1. \A v \in AivsOf(c) : start[r][v] > 0 /\ start[r][v] \in 0..1
      BY <1>16, CubeCores, AivTypes DEF WaitStart, SetByBoth
    <3> QED  BY <3>1
  <2>4. /\ start' \in [Ranks -> [Aivs -> 0..1]]
        /\ \A v \in AivsOf(c) : start'[r][v] = 0
        /\ \A s \in Ranks, u \in Aivs : ~(s = r /\ u \in AivsOf(c)) => start'[s][u] = start[s][u]
    BY <1>16, <2>3, CubeCores DEF WaitStart, TakenFromBoth, TypeOK
  <2>5. TypeOK'
    BY <2>2, <2>4 DEF TypeOK
  <2>6. AicOfBlock(r, c)'
    BY <2>1, <2>2, AicTypes DEF AicOfBlock
  <2>7. ASSUME NEW v \in AivsOf(c)
        PROVE  FlagsOf(r, c, v)'
    <3>1. FlagsOf(r, c, v) /\ v \in Aivs
      BY CubeCores DEF FlagsFollow
    <3>2. aivBlock[r][v] \in Int /\ aicBlock[r][c] \in Int
      BY <3>1, AivTypes, AicTypes
    <3>3. /\ StartsTaken(r, c) = aicBlock[r][c] /\ StartsTaken(r, c)' = aicBlock[r][c] + 1
          /\ StartsSet(r, v)' = StartsSet(r, v) /\ StartsSet(r, v) \in Int
          /\ MmadsTaken(r, v)' = MmadsTaken(r, v) /\ HasPadded(r, v)' = HasPadded(r, v)
      BY <2>1, <2>2, <3>2 DEF StartsTaken, StartsSet, HasStarted, MmadsTaken, HasPadded
    <3>4. start[r][v] = StartsSet(r, v) - StartsTaken(r, c)
      BY <3>1 DEF FlagsOf
    <3>5. start'[r][v] = StartsSet(r, v)' - StartsTaken(r, c)'
      BY <2>3, <2>4, <3>2, <3>3, <3>4
    <3> QED  BY <2>1, <2>2, <3>1, <3>3, <3>5 DEF FlagsOf
  <2>8. /\ \A s \in Ranks, d \in Aics : ~(s = r /\ d = c) => SameAic(s, d)
        /\ \A s \in Ranks, u \in Aivs : ~(s = r /\ u \in AivsOf(c)) => SameAiv(s, u)
    BY <2>1, <2>2, <2>4 DEF SameAic, SameAiv
  <2>9. PcsOK' /\ FlagsFollow'
    BY <2>1, <2>2, <2>6, <2>7, <2>8, AicStep
  <2>10. RanksInStep'
    BY <2>2, SameSides
  <2>11. CoresInStep'
    BY <2>1, <2>2, SamePhases DEF BarriersIn, BarriersOut, IsInside
  <2>12. SlotsFollow'
    BY <2>2 DEF SlotsFollow, SlotOf, SignalsSent, Peer
  <2> QED  BY <2>5, <2>9, <2>10, <2>11, <2>12
<1>17. ASSUME NEW r \in Ranks, NEW c \in Aics, Multiply(r, c)
       PROVE  IInv'
  <2>1. /\ aic' \in [Ranks -> [Aics -> AicPcs]]
        /\ aic'[r][c] = "barrierOut"
        /\ \A s \in Ranks, d \in Aics : ~(s = r /\ d = c) => aic'[s][d] = aic[s][d]
    BY <1>17, AicMove DEF Multiply, PcsOK, AicPcs
  <2>2. /\ aic[r][c] = "multiply"
        /\ UNCHANGED <<padding, promptClear, launch, aiv, aicBlock, aivBlock, start, padded, mmad,
                       reverse, setCount, waitCount, ready>>
    BY <1>17 DEF Multiply, choices, flags
  <2>3. TypeOK'
    BY <2>2 DEF TypeOK
  <2>4. AicOfBlock(r, c)'
    BY <2>1, <2>2, AicTypes DEF AicOfBlock
  <2>5. ASSUME NEW v \in AivsOf(c)
        PROVE  FlagsOf(r, c, v)'
    <3>1. FlagsOf(r, c, v)
      BY DEF FlagsFollow
    <3> QED
      BY <2>1, <2>2, <3>1
         DEF FlagsOf, StartsSet, StartsTaken, MmadsTaken, HasPadded, HasStarted
  <2>6. /\ \A s \in Ranks, d \in Aics : ~(s = r /\ d = c) => SameAic(s, d)
        /\ \A s \in Ranks, u \in Aivs : ~(s = r /\ u \in AivsOf(c)) => SameAiv(s, u)
    BY <2>1, <2>2 DEF SameAic, SameAiv
  <2>7. PcsOK' /\ FlagsFollow'
    BY <2>1, <2>2, <2>4, <2>5, <2>6, AicStep
  <2>8. RanksInStep'
    BY <2>2, SameSides
  <2>9. CoresInStep'
    BY <2>1, <2>2, SamePhases DEF BarriersIn, BarriersOut, IsInside
  <2>10. SlotsFollow'
    BY <2>2 DEF SlotsFollow, SlotOf, SignalsSent, Peer
  <2> QED  BY <2>3, <2>7, <2>8, <2>9, <2>10
<1>18. ASSUME NEW r \in Ranks, NEW c \in Aics, SetMmad(r, c)
       PROVE  IInv'
  <2> DEFINE there == IF setCount[r][c] + 1 >= ReverseDepth THEN "awaitAnswer" ELSE "waitStart"
  <2>1. /\ aic' \in [Ranks -> [Aics -> AicPcs]]
        /\ aic'[r][c] = there
        /\ \A s \in Ranks, d \in Aics : ~(s = r /\ d = c) => aic'[s][d] = aic[s][d]
    <3>1. there \in AicPcs
      BY DEF AicPcs
    <3> QED  BY <1>18, <3>1, AicMove DEF SetMmad, PcsOK
  <2>2. /\ aic[r][c] = "setMmad"
        /\ UNCHANGED <<padding, promptClear, launch, aiv, aivBlock, start, padded, reverse,
                       waitCount, ready>>
    BY <1>18 DEF SetMmad, choices
  <2>3. \A v \in AivsOf(c) : mmad[r][v] = 0
    <3> SUFFICES ASSUME NEW v \in AivsOf(c)
                 PROVE  mmad[r][v] = 0
      OBVIOUS
    <3>1. v \in Aivs /\ FlagsOf(r, c, v)
      BY CubeCores DEF FlagsFollow
    <3>2. aivBlock[r][v] \in Int /\ aicBlock[r][c] \in Int
      BY <3>1, AivTypes, AicTypes
    <3>3. StartsTaken(r, c) = aicBlock[r][c] + 1
      BY <2>2, <3>2 DEF StartsTaken, HasStarted
    <3>4. StartsTaken(r, c) <= StartsSet(r, v) /\ StartsSet(r, v) <= MmadsTaken(r, v) + 1
          /\ MmadsTaken(r, v) <= aicBlock[r][c]
      BY BlocksInStep
    <3>5. StartsSet(r, v) \in Int /\ MmadsTaken(r, v) \in Int
      BY <3>2 DEF StartsSet, MmadsTaken
    <3>6. mmad[r][v] = aicBlock[r][c] - MmadsTaken(r, v)
      BY <3>1 DEF FlagsOf
    <3> QED  BY <3>2, <3>3, <3>4, <3>5, <3>6
  <2>4. /\ mmad' \in [Ranks -> [Aivs -> 0..1]]
        /\ \A v \in AivsOf(c) : mmad'[r][v] = 1
        /\ \A s \in Ranks, u \in Aivs : ~(s = r /\ u \in AivsOf(c)) => mmad'[s][u] = mmad[s][u]
    BY <1>18, <2>3, CubeCores DEF SetMmad, TypeOK
  <2>5. /\ aicBlock[r][c] + 1 \in 0..CocLoop /\ aicBlock[r][c] \in Int
        /\ setCount[r][c] + 1 \in 0..ReverseDepth /\ setCount[r][c] \in Int
    <3>1. /\ aicBlock[r][c] \in 0..CocLoop /\ setCount[r][c] \in 0..ReverseDepth
          /\ aicBlock[r][c] < CocLoop /\ setCount[r][c] # ReverseDepth
      BY <2>2, AicTypes DEF AicOfBlock
    <3> QED  BY <3>1, LoopAssumption, DepthAssumption
  <2>6. /\ aicBlock' \in [Ranks -> [Aics -> 0..CocLoop]]
        /\ aicBlock'[r][c] = aicBlock[r][c] + 1
        /\ setCount' \in [Ranks -> [Aics -> 0..ReverseDepth]]
        /\ setCount'[r][c] = setCount[r][c] + 1
        /\ \A s \in Ranks, d \in Aics : ~(s = r /\ d = c) =>
              aicBlock'[s][d] = aicBlock[s][d] /\ setCount'[s][d] = setCount[s][d]
    BY <1>18, <2>5 DEF SetMmad, TypeOK
  <2>7. TypeOK'
    BY <2>2, <2>4, <2>6 DEF TypeOK
  <2>8. AicOfBlock(r, c)'
    <3>1. there = "awaitAnswer" <=> setCount'[r][c] = ReverseDepth
      <4>1. setCount[r][c] + 1 >= ReverseDepth <=> setCount'[r][c] = ReverseDepth
        <5>1. setCount'[r][c] = setCount[r][c] + 1
          BY <2>6
        <5> QED  BY <2>5, <5>1, DepthAssumption
      <4> QED  BY <4>1
    <3>2. there \in {"awaitAnswer", "waitStart"}
      OBVIOUS
    <3>3. /\ aic'[r][c] \in {"awaitAnswer", "waitStart"}
          /\ aic'[r][c] = "awaitAnswer" <=> setCount'[r][c] = ReverseDepth
      <4> HIDE DEF there
      <4> QED  BY <2>1, <3>1, <3>2
    <3> QED  BY <3>3 DEF AicOfBlock
  <2>9. there \notin HasStarted /\ there # "waitPadding" /\ there \notin IsInside
        /\ there # "setMmad"
    BY DEF HasStarted, IsInside
  <2> HIDE DEF there
  <2>10. ASSUME NEW v \in AivsOf(c)
         PROVE  FlagsOf(r, c, v)'
    <3>1. FlagsOf(r, c, v) /\ v \in Aivs
      BY CubeCores DEF FlagsFollow
    <3>2. aivBlock[r][v] \in Int /\ waitCount[r][v] \in Int
      BY <3>1, AivTypes
    <3>3. /\ StartsTaken(r, c)' = StartsTaken(r, c) /\ StartsSet(r, v)' = StartsSet(r, v)
          /\ MmadsTaken(r, v)' = MmadsTaken(r, v) /\ MmadsTaken(r, v) \in Int
      BY <2>1, <2>2, <2>5, <2>6, <2>9, <3>2 DEF StartsTaken, HasStarted, StartsSet, MmadsTaken
    <3>4. start'[r][v] = StartsSet(r, v)' - StartsTaken(r, c)'
      BY <2>2, <3>1, <3>3 DEF FlagsOf
    <3>5. mmad'[r][v] = aicBlock'[r][c] - MmadsTaken(r, v)'
      <4>1. mmad[r][v] = aicBlock[r][c] - MmadsTaken(r, v)
        BY <3>1 DEF FlagsOf
      <4>2. mmad[r][v] = 0 /\ mmad'[r][v] = 1 /\ aicBlock'[r][c] = aicBlock[r][c] + 1
        BY <2>3, <2>4, <2>6
      <4> QED  BY <2>5, <3>3, <4>1, <4>2
    <3>6. setCount'[r][c] = mmad'[r][v] + waitCount'[r][v]
                                + (IF reverse'[r][v] = 0 THEN 0 ELSE ReverseDepth)
      <4>1. setCount[r][c] = mmad[r][v] + waitCount[r][v]
                                + (IF reverse[r][v] = 0 THEN 0 ELSE ReverseDepth)
        BY <3>1 DEF FlagsOf
      <4> QED  BY <2>2, <2>3, <2>4, <2>5, <2>6, <3>2, <4>1, DepthAssumption
    <3>7. /\ padded'[r][v] = IF padding' /\ HasPadded(r, v)' /\ aic'[r][c] = "waitPadding"
                             THEN 1 ELSE 0
          /\ padding' /\ aic'[r][c] # "waitPadding" => HasPadded(r, v)'
      <4>1. HasPadded(r, v)' = HasPadded(r, v)
        BY <2>2 DEF HasPadded
      <4>2. padded[r][v] = 0 /\ (padding => HasPadded(r, v))
        BY <2>2, <3>1 DEF FlagsOf
      <4> QED  BY <2>1, <2>2, <2>9, <4>1, <4>2
    <3> QED  BY <3>4, <3>5, <3>6, <3>7 DEF FlagsOf
  <2>11. /\ \A s \in Ranks, d \in Aics : ~(s = r /\ d = c) => SameAic(s, d)
         /\ \A s \in Ranks, u \in Aivs : ~(s = r /\ u \in AivsOf(c)) => SameAiv(s, u)
    BY <2>1, <2>2, <2>4, <2>6 DEF SameAic, SameAiv
  <2>12. PcsOK' /\ FlagsFollow'
    BY <2>1, <2>2, <2>8, <2>10, <2>11, AicStep
  <2>13. RanksInStep'
    BY <2>2, SameSides
  <2>14. CoresInStep'
    <3>1. ASSUME NEW s \in Ranks, NEW d \in Aics
          PROVE  BarriersIn(s, d)' = BarriersIn(s, d) /\ BarriersOut(s, d)' = BarriersOut(s, d)
      <4>1. CASE s = r /\ d = c
        BY <2>1, <2>2, <2>5, <2>6, <2>9, <4>1 DEF BarriersIn, BarriersOut, IsInside
      <4>2. CASE ~(s = r /\ d = c)
        BY <2>11, <4>2 DEF SameAic, BarriersIn, BarriersOut
      <4> QED  BY <4>1, <4>2
    <3> QED  BY <2>2, <3>1, SamePhases
  <2>15. SlotsFollow'
    BY <2>2 DEF SlotsFollow, SlotOf, SignalsSent, Peer
  <2> QED  BY <2>7, <2>12, <2>13, <2>14, <2>15
<1>19. ASSUME NEW r \in Ranks, NEW c \in Aics, AwaitAnswer(r, c)
       PROVE  IInv'
  <2>1. /\ aic' \in [Ranks -> [Aics -> AicPcs]]
        /\ aic'[r][c] = "waitStart"
        /\ \A s \in Ranks, d \in Aics : ~(s = r /\ d = c) => aic'[s][d] = aic[s][d]
    BY <1>19, AicMove DEF AwaitAnswer, PcsOK, AicPcs
  <2>2. /\ aic[r][c] = "awaitAnswer"
        /\ UNCHANGED <<padding, promptClear, launch, aiv, aicBlock, aivBlock, start, padded, mmad,
                       waitCount, ready>>
    BY <1>19 DEF AwaitAnswer, choices
  <2>3. \A v \in AivsOf(c) : reverse[r][v] = 1
    <3>1. \A v \in AivsOf(c) : reverse[r][v] > 0 /\ reverse[r][v] \in 0..1
      BY <1>19, CubeCores, AivTypes DEF AwaitAnswer, SetByBoth
    <3> QED  BY <3>1
  <2>4. /\ reverse' \in [Ranks -> [Aivs -> 0..1]]
        /\ \A v \in AivsOf(c) : reverse'[r][v] = 0
        /\ \A s \in Ranks, u \in Aivs :
              ~(s = r /\ u \in AivsOf(c)) => reverse'[s][u] = reverse[s][u]
    BY <1>19, <2>3, CubeCores DEF AwaitAnswer, TakenFromBoth, TypeOK
  <2>5. /\ setCount' \in [Ranks -> [Aics -> 0..ReverseDepth]]
        /\ setCount'[r][c] = 0
        /\ \A s \in Ranks, d \in Aics : ~(s = r /\ d = c) => setCount'[s][d] = setCount[s][d]
    BY <1>19, DepthAssumption DEF AwaitAnswer, TypeOK
  <2>6. TypeOK'
    BY <2>2, <2>4, <2>5 DEF TypeOK
  <2>7. AicOfBlock(r, c)'
    BY <2>1, <2>2, <2>5, AicTypes, DepthAssumption DEF AicOfBlock
  <2>8. ASSUME NEW v \in AivsOf(c)
        PROVE  FlagsOf(r, c, v)'
    <3>1. FlagsOf(r, c, v) /\ v \in Aivs
      BY CubeCores DEF FlagsFollow
    <3>2. mmad[r][v] = 0 /\ waitCount[r][v] = 0
      <4>1. setCount[r][c] = ReverseDepth
        BY <2>2, AicTypes DEF AicOfBlock
      <4>2. setCount[r][c] = mmad[r][v] + waitCount[r][v]
                                + (IF reverse[r][v] = 0 THEN 0 ELSE ReverseDepth)
        BY <3>1 DEF FlagsOf
      <4>3. mmad[r][v] \in 0..1 /\ waitCount[r][v] \in 0..(ReverseDepth - 1)
        BY <3>1, AivTypes
      <4> QED  BY <2>3, <4>1, <4>2, <4>3, DepthAssumption
    <3>3. /\ StartsTaken(r, c)' = StartsTaken(r, c) /\ StartsSet(r, v)' = StartsSet(r, v)
          /\ MmadsTaken(r, v)' = MmadsTaken(r, v) /\ HasPadded(r, v)' = HasPadded(r, v)
      BY <2>1, <2>2 DEF StartsTaken, HasStarted, StartsSet, MmadsTaken, HasPadded
    <3>4. reverse'[r][v] = 0 /\ setCount'[r][c] = 0 /\ aic'[r][c] = "waitStart"
      BY <2>1, <2>4, <2>5
    <3> QED  BY <2>2, <3>1, <3>2, <3>3, <3>4 DEF FlagsOf
  <2>9. /\ \A s \in Ranks, d \in Aics : ~(s = r /\ d = c) => SameAic(s, d)
        /\ \A s \in Ranks, u \in Aivs : ~(s = r /\ u \in AivsOf(c)) => SameAiv(s, u)
    BY <2>1, <2>2, <2>4, <2>5 DEF SameAic, SameAiv
  <2>10. PcsOK' /\ FlagsFollow'
    BY <2>1, <2>2, <2>7, <2>8, <2>9, AicStep
  <2>11. RanksInStep'
    BY <2>2, SameSides
  <2>12. CoresInStep'
    BY <2>1, <2>2, SamePhases DEF BarriersIn, BarriersOut, IsInside
  <2>13. SlotsFollow'
    BY <2>2 DEF SlotsFollow, SlotOf, SignalsSent, Peer
  <2> QED  BY <2>6, <2>10, <2>11, <2>12, <2>13
<1>20. ASSUME UNCHANGED vars
       PROVE  IInv'
  BY <1>20 DEF vars, choices, TypeOK, PcsOK, AivOf, AicOfBlock, RanksInStep, CoresInStep,
               BarriersIn, BarriersOut, FlagsFollow, FlagsOf, StartsSet, StartsTaken, MmadsTaken,
               HasPadded, SlotsFollow, SlotOf, SignalsSent, Peer
<1> QED
  <2>1. ASSUME Next
        PROVE  IInv'
    <3>1. \A r \in Ranks : Barriers(r) => IInv'
      BY <1>2, <1>4, <1>5, <1>6, <1>7 DEF Barriers
    <3>2. \A r \in Ranks, v \in Aivs : Aiv(r, v) => IInv'
      BY <1>3, <1>9, <1>10, <1>11, <1>12, <1>13, <1>14 DEF Aiv
    <3>3. \A r \in Ranks, c \in Aics : Aic(r, c) => IInv'
      BY <1>15, <1>16, <1>17, <1>18, <1>19 DEF Aic
    <3> QED  BY <2>1, <1>1, <1>8, <3>1, <3>2, <3>3 DEF Next
  <2> QED  BY <1>20, <2>1

(* So they are in step in every state of every behaviour.                  *)
THEOREM Invariance == Spec => []IInv
<1>1. Init => IInv
  BY InitIInv
<1>2. IInv /\ [Next]_vars => IInv'
  BY NextIInv
<1> QED  BY <1>1, <1>2, PTL DEF Spec

(* No core flag of the kernel is ever set twice before it is consumed, the *)
(* counts of the reverse synchronisation stay below REVERSE_DEPTH, and     *)
(* cocIdx never passes the number of comm blocks.                          *)
THEOREM TypeCorrect == Spec => []TypeOK
<1>1. IInv => TypeOK
  BY DEF IInv
<1> QED  BY <1>1, Invariance, PTL

(* A kernel that has ended on a rank leaves no core flag set for the next. *)
THEOREM EndsWithFlagsClear == Spec => []LeavesNoFlagSet
<1>1. IInv => LeavesNoFlagSet
  <2> SUFFICES ASSUME IInv, NEW r \in Ranks, RankIsDone(r), NEW v \in Aivs
               PROVE  start[r][v] + padded[r][v] + mmad[r][v] + reverse[r][v] = 0
    BY DEF LeavesNoFlagSet
  <2>1. PICK c \in Aics : v \in AivsOf(c)
    BY CubeCores
  <2>2. LaunchLeavesFlags(r, c, v)
    BY <2>1, FlagsAfterLaunch DEF IInv, RankIsDone
  <2> QED  BY <2>2 DEF LaunchLeavesFlags
<1> QED  BY <1>1, Invariance, PTL

(* While a vector core exchanges a block, no cube core of its rank stores. *)
THEOREM NeverStoresInExchange == Spec => []PhasesAlternate
<1>1. IInv => PhasesAlternate
  <2> SUFFICES ASSUME IInv, NEW r \in Ranks, NEW v \in Aivs, NEW c \in Aics,
                      aiv[r][v] \in {"signal", "loadOwn", "readPeer"}, aic[r][c] = "multiply"
               PROVE  FALSE
    BY DEF PhasesAlternate, Storing
  <2>1. 2 * c \in AivsOf(c) /\ 2 * c \in Aivs
    BY CubeCores
  <2>2. aiv[r][2 * c] \in IsExchanging
    BY <2>1 DEF IInv, CoresInStep, IsExchanging
  <2>3. aivBlock[r][2 * c] \in Int /\ aicBlock[r][c] \in Int
    BY <2>1, AivTypes, AicTypes DEF IInv
  <2>4. StartsTaken(r, c) = aicBlock[r][c] + 1
    BY <2>3 DEF StartsTaken, HasStarted
  <2>5. /\ StartsSet(r, 2 * c) = aivBlock[r][2 * c] + 1
        /\ MmadsTaken(r, 2 * c) = aivBlock[r][2 * c] + 1
    BY <2>2, <2>3 DEF StartsSet, MmadsTaken, IsExchanging, HasTaken
  <2>6. MmadsTaken(r, 2 * c) <= aicBlock[r][c] /\ StartsTaken(r, c) <= StartsSet(r, 2 * c)
    BY <2>1, BlocksInStep DEF IInv
  <2> QED  BY <2>3, <2>4, <2>5, <2>6
<1> QED  BY <1>1, Invariance, PTL

(* A vector core that copies a block of its peer finds just this block     *)
(* stored, by every cube core of the peer, and none storing over it.       *)
THEOREM NeverReadsUnstored == Spec => []ReadsStoredBlock
<1>1. IInv => ReadsStoredBlock
  <2> SUFFICES ASSUME IInv, NEW r \in Ranks, NEW v \in Aivs, NEW c \in Aics,
                      aiv[r][v] = "readPeer", ready[r][Peer(r)] = 1
               PROVE  /\ Stored(Peer(r), c) > Wanted(r, v)
                      /\ Stored(Peer(r), c) + (IF Storing(Peer(r), c) THEN 1 ELSE 0)
                            <= Wanted(r, v) + CocLoop
    BY DEF ReadsStoredBlock, Reading, PeerIsReady
  <2> DEFINE p == Peer(r)
             k == aivBlock[r][v]
             b == aicBlock[p][c]
             before == (launch[r] - 1) * CocLoop
             inPlace == IF aic[p][c] \in {"barrierOut", "setMmad"} THEN 1 ELSE 0
             now == IF Storing(p, c) THEN 1 ELSE 0
  <2>1. p \in Ranks /\ Peer(p) = r /\ r \in Aivs /\ 2 * c \in AivsOf(c) /\ 2 * c \in Aivs
    BY Peers, CubeCores
  <2>2. /\ k \in 0..CocLoop /\ k < CocLoop /\ b \in 0..CocLoop
        /\ launch[r] \in Int /\ launch[p] \in Int
        /\ aivBlock[p][2 * c] \in 0..CocLoop
    BY <2>1, AivTypes, AicTypes DEF IInv, AivOf, HasTaken, TypeOK
  <2>3. aic[p][c] \in {"multiply", "barrierOut", "setMmad"} => b + 1 <= CocLoop
    BY <2>1, <2>2, AicTypes, LoopAssumption DEF IInv, AicOfBlock
  <2>4. /\ inPlace \in 0..1 /\ now \in 0..1
        /\ inPlace + now = 1 => b + 1 <= CocLoop
        /\ inPlace + now <= 1
    BY <2>3 DEF Storing
  <2>5. before \in Int
    BY <2>2, LoopAssumption
  (* The peer is in the same launch, or a launch ahead, at its start. *)
  <2>6. launch[p] = launch[r] \/ launch[p] = launch[r] + 1
    <3>1. launch[r] <= launch[p] + 1 /\ launch[p] <= launch[r] + 1
      BY <2>1 DEF IInv, RanksInStep
    <3>2. launch[r] # launch[p] + 1
      BY <2>1 DEF IInv, RanksInStep
    <3> QED  BY <2>2, <3>1, <3>2
  <2>7. CASE launch[p] = launch[r]
    <3>1. SignalsSent(p, r) > k
      BY <2>1, <2>7 DEF IInv, SlotsFollow, SlotOf, HasTaken
    <3>2. aivBlock[p][2 * c] = aivBlock[p][r]
      BY <2>1 DEF IInv, CoresInStep
    <3>3. MmadsTaken(p, 2 * c) > k
      <4>1. aiv[p][r] \in HasSignalled => aiv[p][2 * c] \in HasTaken
        BY <2>1 DEF IInv, CoresInStep, HasSignalled, IsExchanging, HasTaken
      <4> QED  BY <2>2, <3>1, <3>2, <4>1 DEF SignalsSent, MmadsTaken
    <3>4. b > k
      <4>1. MmadsTaken(p, 2 * c) <= b
        BY <2>1, BlocksInStep DEF IInv
      <4>2. MmadsTaken(p, 2 * c) \in Int
        BY <2>2 DEF MmadsTaken
      <4> QED  BY <2>2, <3>3, <4>1, <4>2
    <3>5. Stored(p, c) = before + b + inPlace /\ Wanted(r, v) = before + k
      BY <2>7 DEF Stored, Wanted
    <3> HIDE DEF p, k, b, before, inPlace, now
    <3>6. /\ before + b + inPlace > before + k
          /\ before + b + inPlace + now <= before + k + CocLoop
      BY <2>2, <2>4, <2>5, <3>4, LoopAssumption
    <3> QED  BY <3>5, <3>6 DEF p, now
  <2>8. CASE launch[p] = launch[r] + 1
    <3>1. aiv[p][2 * c] = "barrierAll"
      BY <2>1, <2>8 DEF IInv, RanksInStep
    <3>2. b = 0 /\ inPlace = 0 /\ now = 0
      <4>1. aivBlock[p][2 * c] = 0
        BY <2>1, <3>1, AivTypes DEF IInv, AivOf
      <4>2. StartsSet(p, 2 * c) = 0 /\ MmadsTaken(p, 2 * c) = 0
        BY <3>1, <4>1 DEF StartsSet, MmadsTaken, HasTaken
      <4>3. /\ MmadsTaken(p, 2 * c) <= b /\ b <= StartsTaken(p, c)
            /\ StartsTaken(p, c) <= StartsSet(p, 2 * c)
        BY <2>1, BlocksInStep DEF IInv
      <4>4. StartsTaken(p, c) \in Int
        BY <2>2 DEF StartsTaken
      <4>5. b = 0 /\ StartsTaken(p, c) = 0
        BY <2>2, <4>2, <4>3, <4>4
      <4>6. aic[p][c] \notin HasStarted
        BY <4>5 DEF StartsTaken
      <4> QED  BY <4>5, <4>6 DEF HasStarted, Storing
    <3>3. (launch[p] - 1) * CocLoop = before + CocLoop
      BY <2>2, <2>8, LoopAssumption
    <3>4. Stored(p, c) = before + CocLoop + b + inPlace /\ Wanted(r, v) = before + k
      BY <3>3 DEF Stored, Wanted
    <3> HIDE DEF p, k, b, before, inPlace, now
    <3>5. /\ before + CocLoop + b + inPlace > before + k
          /\ before + CocLoop + b + inPlace + now <= before + k + CocLoop
      BY <2>2, <2>5, <3>2, LoopAssumption
    <3> QED  BY <3>4, <3>5 DEF p, now
  <2> QED  BY <2>6, <2>7, <2>8
<1> QED  BY <1>1, Invariance, PTL
==============================================================================
