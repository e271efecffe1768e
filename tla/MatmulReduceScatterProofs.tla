---------------------- MODULE MatmulReduceScatterProofs ----------------------
(***************************************************************************)
(* Proofs about the matmul + reduce-scatter kernel, for any number of      *)
(* ranks, of cores and of launches, with and without padding.              *)
(***************************************************************************)
EXTENDS MatmulReduceScatter, TLAPS

(* Where the cores of a launch can be, in the order in which they come     *)
(* there; the sets name how far a core has come.                           *)
AivPcs == {"barrierAll", "pad", "barrierPad", "setPadding", "waitMmad", "barrierStored",
           "reduce", "done"}

AicPcs == {"waitPadding", "multiply", "barrierStored", "setMmad", "done"}

Reduces == {"reduce", "done"}

PastWaitMmad == {"barrierStored", "reduce", "done"}

PastSetPadding == {"waitMmad", "barrierStored", "reduce", "done"}

PastBarrierPad == {"setPadding", "waitMmad", "barrierStored", "reduce", "done"}

PastAicBarrier == {"setMmad", "done"}

PastMultiply == {"barrierStored", "setMmad", "done"}

PcsOK ==
    /\ aiv \in [Ranks -> [Aivs -> AivPcs]]
    /\ aic \in [Ranks -> [Aics -> AicPcs]]
    /\ ~padding =>
        /\ \A r \in Ranks, v \in Aivs : aiv[r][v] \notin {"pad", "barrierPad", "setPadding"}
        /\ \A r \in Ranks, c \in Aics : aic[r][c] # "waitPadding"

(* The two barriers of all ranks: no rank is more than one launch ahead,   *)
(* it then waits at the start while the others reduce, and within a launch *)
(* all vector cores of all ranks are on the same side of either barrier.   *)
RanksInStep ==
    \A r, s \in Ranks :
        /\ launch[s] <= launch[r] + 1
        /\ launch[s] = launch[r] + 1 =>
              \A v \in Aivs : aiv[r][v] \in Reduces /\ aiv[s][v] = "barrierAll"
        /\ launch[s] = launch[r] =>
              \A u, v \in Aivs :
                 /\ aiv[r][v] = "barrierAll" => aiv[s][u] = "barrierAll"
                 /\ aiv[r][v] \in Reduces => aiv[s][u] \in Reduces

(* The barriers of one rank. *)
CoresInStep ==
    \A r \in Ranks :
        /\ \A u, v \in Aivs : aiv[r][v] \in PastBarrierPad => aiv[r][u] \in PastBarrierPad
        /\ \A c, d \in Aics : aic[r][c] \in PastAicBarrier => aic[r][d] \in PastAicBarrier

(* The history variables follow from where the cores are. *)
PadsOf(r, v) ==
    pads[r][v] = IF padding THEN IF aiv[r][v] \in {"barrierAll", "pad"} THEN launch[r] - 1
                                                                        ELSE launch[r]
                 ELSE 0

StoredOf(r, c) ==
    stored[r][c] = IF aic[r][c] \in PastMultiply THEN launch[r] ELSE launch[r] - 1

Counted ==
    \A r \in Ranks : /\ \A v \in Aivs : PadsOf(r, v)
                     /\ \A c \in Aics : StoredOf(r, c)

(* A flag is set while its vector core has set it and its cube core has    *)
(* not yet waited for it, or the other way round, and no core is past a    *)
(* wait whose flag has not been set.                                       *)
FlagsOf(r, c, v) ==
    /\ padding =>
        /\ padded[r][v] = IF aiv[r][v] \in PastSetPadding /\ aic[r][c] = "waitPadding"
                          THEN 1 ELSE 0
        /\ aic[r][c] # "waitPadding" => aiv[r][v] \in PastSetPadding
    /\ ~padding => padded[r][v] = 0
    /\ mmad[r][v] = IF aic[r][c] = "done" /\ aiv[r][v] \notin PastWaitMmad THEN 1 ELSE 0
    /\ aiv[r][v] \in PastWaitMmad => aic[r][c] = "done"

FlagsFollow == \A r \in Ranks, c \in Aics : \A v \in AivsOf(c) : FlagsOf(r, c, v)

IInv == TypeOK /\ PcsOK /\ RanksInStep /\ CoresInStep /\ Counted /\ FlagsFollow

-----------------------------------------------------------------------------
(* Every vector core belongs to one cube core, and only to one. *)
LEMMA CubeCores ==
    /\ \A c \in Aics : \A v \in AivsOf(c) : v \in Aivs
    /\ \A v \in Aivs : \E c \in Aics : v \in AivsOf(c)
    /\ \A c, d \in Aics : \A v \in AivsOf(c) : v \in AivsOf(d) => c = d
    /\ \A c \in Aics : 2 * c \in AivsOf(c)
  <1>1. \A v \in Aivs : v \div 2 \in Aics /\ v \in AivsOf(v \div 2)
    BY CoresAssumption DEF Aivs, Aics, AivsOf
  <1>2. \A c \in Aics : \A v \in AivsOf(c) : v \in Aivs
    BY CoresAssumption DEF Aivs, Aics, AivsOf
  <1>3. ASSUME NEW c \in Aics, NEW d \in Aics, NEW v \in AivsOf(c), v \in AivsOf(d)
        PROVE  c = d
    BY <1>3 DEF Aics, AivsOf
  <1>4. \A c \in Aics : 2 * c \in AivsOf(c)
    BY DEF AivsOf
  <1> QED  BY <1>1, <1>2, <1>3, <1>4

(* There is a rank and a core of either kind, to stand for the others at a *)
(* barrier.                                                                *)
LEMMA SomeCores == 0 \in Ranks /\ 0 \in Aics /\ 0 \in Aivs
  BY RankSizeAssumption, CoresAssumption DEF Ranks, Aics, Aivs

(* A step of one vector core, or of one cube core, moves no other. *)
LEMMA AivMove ==
    ASSUME aiv \in [Ranks -> [Aivs -> AivPcs]],
           NEW r \in Ranks, NEW v \in Aivs, NEW there \in AivPcs,
           AivGoesTo(r, v, there)
    PROVE  /\ aiv' \in [Ranks -> [Aivs -> AivPcs]]
           /\ \A s \in Ranks, u \in Aivs :
                 aiv'[s][u] = IF s = r /\ u = v THEN there ELSE aiv[s][u]
  BY DEF AivGoesTo

(* The same for the cube cores.                                            *)
LEMMA AicMove ==
    ASSUME aic \in [Ranks -> [Aics -> AicPcs]],
           NEW r \in Ranks, NEW c \in Aics, NEW there \in AicPcs,
           AicGoesTo(r, c, there)
    PROVE  /\ aic' \in [Ranks -> [Aics -> AicPcs]]
           /\ \A s \in Ranks, d \in Aics :
                 aic'[s][d] = IF s = r /\ d = c THEN there ELSE aic[s][d]
  BY DEF AicGoesTo

(* What IInv says of the types of one core. *)
LEMMA Types ==
    ASSUME TypeOK, PcsOK
    PROVE  /\ padding \in BOOLEAN
           /\ \A r \in Ranks : launch[r] \in 1..Launches
           /\ \A r \in Ranks, v \in Aivs : aiv[r][v] \in AivPcs
           /\ \A r \in Ranks, c \in Aics : aic[r][c] \in AicPcs
  BY PaddingAssumption DEF TypeOK, PcsOK

(* Where all vector cores of all ranks meet, all ranks are in one launch. *)
LEMMA SameLaunch ==
    ASSUME TypeOK, RanksInStep,
           NEW here, here \notin Reduces,
           \A r \in Ranks, v \in Aivs : aiv[r][v] = here
    PROVE  \A r, s \in Ranks : launch[s] = launch[r]
<1> TAKE r, s \in Ranks
<1>1. launch[r] \in Int /\ launch[s] \in Int
  BY DEF TypeOK
<1>2. launch[s] # launch[r] + 1 /\ launch[r] # launch[s] + 1
  BY SomeCores DEF RanksInStep
<1>3. launch[s] <= launch[r] + 1 /\ launch[r] <= launch[s] + 1
  BY DEF RanksInStep
<1> QED  BY <1>1, <1>2, <1>3

(* Only a step over one of their barriers, or a launch, disturbs what      *)
(* RanksInStep says.                                                       *)
LEMMA SameSides ==
    ASSUME RanksInStep, launch' = launch,
           \A r \in Ranks, v \in Aivs :
              /\ aiv'[r][v] = "barrierAll" <=> aiv[r][v] = "barrierAll"
              /\ aiv'[r][v] \in Reduces <=> aiv[r][v] \in Reduces
    PROVE  RanksInStep'
  BY DEF RanksInStep

(* The first launch begins with everything in step and no flag set.        *)
THEOREM InitIInv == Init => IInv
<1> SUFFICES ASSUME Init
             PROVE  IInv
  OBVIOUS
<1>1. TypeOK
  BY LaunchesAssumption DEF Init, TypeOK, Everywhere
<1>2. PcsOK
  BY DEF Init, PcsOK, Everywhere, AicStart, AivPcs, AicPcs
<1>3. RanksInStep /\ CoresInStep
  BY DEF Init, RanksInStep, CoresInStep, Everywhere, AicStart, Reduces,
         PastBarrierPad, PastAicBarrier
<1>4. Counted /\ FlagsFollow
  BY CubeCores DEF Init, Counted, PadsOf, StoredOf, FlagsFollow, FlagsOf, Everywhere, AicStart,
         PastWaitMmad, PastSetPadding, PastMultiply
<1> QED  BY <1>1, <1>2, <1>3, <1>4 DEF IInv

(* Every step of a core, every barrier and every launch keeps the ranks,   *)
(* the cores and the flags in step.                                        *)
THEOREM NextIInv == IInv /\ [Next]_vars => IInv'
<1> SUFFICES ASSUME IInv, [Next]_vars
             PROVE  IInv'
  OBVIOUS
<1> USE DEF IInv
<1>1. ASSUME BarrierAll
      PROVE  IInv'
  <2>1. /\ aiv' = [r \in Ranks |-> [v \in Aivs |-> IF padding THEN "pad" ELSE "waitMmad"]]
        /\ \A r \in Ranks, v \in Aivs : aiv[r][v] = "barrierAll"
        /\ UNCHANGED <<padding, launch, aic, padded, pads, mmad, stored>>
    BY <1>1 DEF BarrierAll, AllAivsMeet, Everywhere
  <2>2. TypeOK' /\ PcsOK'
    BY <2>1 DEF TypeOK, PcsOK, AivPcs
  <2>3. \A r, s \in Ranks : launch[s] = launch[r]
    BY <2>1, SameLaunch DEF Reduces
  <2>4. RanksInStep'
    BY <2>1, <2>3, SomeCores, Types DEF RanksInStep, Reduces
  <2>5. CoresInStep' /\ Counted'
    BY <2>1 DEF CoresInStep, Counted, PadsOf, StoredOf, PastBarrierPad
  <2>6. FlagsFollow'
    BY <2>1, CubeCores DEF FlagsFollow, FlagsOf, PastSetPadding, PastWaitMmad
  <2> QED  BY <2>2, <2>4, <2>5, <2>6
<1>2. ASSUME BarrierStored
      PROVE  IInv'
  <2>1. /\ aiv' = [r \in Ranks |-> [v \in Aivs |-> "reduce"]]
        /\ \A r \in Ranks, v \in Aivs : aiv[r][v] = "barrierStored"
        /\ UNCHANGED <<padding, launch, aic, padded, pads, mmad, stored>>
    BY <1>2 DEF BarrierStored, AllAivsMeet, Everywhere
  <2>2. TypeOK' /\ PcsOK'
    BY <2>1 DEF TypeOK, PcsOK, AivPcs
  <2>3. \A r, s \in Ranks : launch[s] = launch[r]
    BY <2>1, SameLaunch DEF Reduces
  <2>4. RanksInStep'
    BY <2>1, <2>3, SomeCores, Types DEF RanksInStep, Reduces
  <2>5. CoresInStep' /\ Counted'
    BY <2>1 DEF CoresInStep, Counted, PadsOf, StoredOf, PastBarrierPad
  <2>6. FlagsFollow'
    BY <2>1, CubeCores DEF FlagsFollow, FlagsOf, PastSetPadding, PastWaitMmad
  <2> QED  BY <2>2, <2>4, <2>5, <2>6
<1>3. ASSUME NEW r \in Ranks, BarrierPad(r)
      PROVE  IInv'
  <2>1. /\ aiv' \in [Ranks -> [Aivs -> AivPcs]]
        /\ \A s \in Ranks, u \in Aivs :
              aiv'[s][u] = IF s = r THEN "setPadding" ELSE aiv[s][u]
        /\ \A u \in Aivs : aiv[r][u] = "barrierPad"
        /\ UNCHANGED <<padding, launch, aic, padded, pads, mmad, stored>>
    BY <1>3 DEF BarrierPad, PcsOK, AivPcs
  <2>2. TypeOK' /\ PcsOK'
    BY <2>1, SomeCores DEF TypeOK, PcsOK
  <2>3. RanksInStep'
    BY <2>1, SameSides DEF Reduces
  <2>4. CoresInStep' /\ Counted'
    <3>1. CoresInStep'
      BY <2>1, SomeCores DEF CoresInStep, PastBarrierPad
    <3>2. Counted'
      BY <2>1 DEF Counted, PadsOf, StoredOf
    <3> QED  BY <3>1, <3>2
  <2>5. FlagsFollow'
    BY <2>1, CubeCores DEF FlagsFollow, FlagsOf, PastSetPadding, PastWaitMmad
  <2> QED  BY <2>2, <2>3, <2>4, <2>5
<1>4. ASSUME NEW r \in Ranks, AicBarrier(r)
      PROVE  IInv'
  <2>1. /\ aic' \in [Ranks -> [Aics -> AicPcs]]
        /\ \A s \in Ranks, d \in Aics :
              aic'[s][d] = IF s = r THEN "setMmad" ELSE aic[s][d]
        /\ \A d \in Aics : aic[r][d] = "barrierStored"
        /\ UNCHANGED <<padding, launch, aiv, padded, pads, mmad, stored>>
    BY <1>4 DEF AicBarrier, PcsOK, AicPcs
  <2>2. TypeOK' /\ PcsOK' /\ RanksInStep'
    <3>1. TypeOK'
      BY <2>1 DEF TypeOK
    <3>2. PcsOK'
      BY <2>1 DEF PcsOK
    <3>3. RanksInStep'
      BY <2>1, SameSides
    <3> QED  BY <3>1, <3>2, <3>3
  <2>3. CoresInStep' /\ Counted'
    BY <2>1 DEF CoresInStep, Counted, PadsOf, StoredOf, PastMultiply, PastAicBarrier
  <2>4. FlagsFollow'
    BY <2>1, CubeCores DEF FlagsFollow, FlagsOf
  <2> QED  BY <2>2, <2>3, <2>4
<1>5. ASSUME NEW r \in Ranks, Relaunch(r)
      PROVE  IInv'
  <2>1. /\ aiv' \in [Ranks -> [Aivs -> AivPcs]]
        /\ aic' \in [Ranks -> [Aics -> AicPcs]]
        /\ launch' \in [Ranks -> 1..Launches]
        /\ \A s \in Ranks : launch'[s] = IF s = r THEN launch[s] + 1 ELSE launch[s]
        /\ \A s \in Ranks, u \in Aivs :
              aiv'[s][u] = IF s = r THEN "barrierAll" ELSE aiv[s][u]
        /\ \A s \in Ranks, d \in Aics :
              aic'[s][d] = IF s = r THEN AicStart ELSE aic[s][d]
        /\ \A u \in Aivs : aiv[r][u] = "done"
        /\ \A d \in Aics : aic[r][d] = "done"
        /\ UNCHANGED <<padding, padded, pads, mmad, stored>>
    <3>1. AicStart \in AicPcs /\ "barrierAll" \in AivPcs
      BY DEF AicStart, AicPcs, AivPcs
    <3>2. launch[r] + 1 \in 1..Launches
      BY <1>5, LaunchesAssumption, Types DEF Relaunch
    <3> QED  BY <1>5, <3>1, <3>2 DEF Relaunch, RankIsDone, TypeOK, PcsOK
  <2>2. TypeOK' /\ PcsOK'
    <3>1. TypeOK'
      BY <2>1 DEF TypeOK
    <3>2. PcsOK'
      <4>1. ASSUME ~padding, NEW s \in Ranks
            PROVE  /\ \A u \in Aivs : aiv'[s][u] \notin {"pad", "barrierPad", "setPadding"}
                   /\ \A d \in Aics : aic'[s][d] # "waitPadding"
        BY <2>1, <4>1 DEF PcsOK, AicStart
      <4> QED  BY <2>1, <4>1 DEF PcsOK
    <3> QED  BY <3>1, <3>2
  <2>3. RanksInStep'
    <3>1. \A s \in Ranks : launch[s] \in Int
      BY DEF TypeOK
    <3>2. ASSUME NEW s \in Ranks
          PROVE  launch[s] = launch[r] \/ launch[s] = launch[r] + 1
      <4>1. launch[r] # launch[s] + 1
        BY <2>1, SomeCores DEF RanksInStep
      <4>2. launch[s] <= launch[r] + 1 /\ launch[r] <= launch[s] + 1
        BY DEF RanksInStep
      <4> QED  BY <3>1, <4>1, <4>2
    <3>3. \A s \in Ranks : launch[s] = launch[r] => \A u \in Aivs : aiv[s][u] \in Reduces
      BY <2>1, SomeCores DEF RanksInStep, Reduces
    <3>4. \A s \in Ranks :
             launch[s] = launch[r] + 1 => \A u \in Aivs : aiv[s][u] = "barrierAll"
      BY DEF RanksInStep
    <3> SUFFICES ASSUME NEW p \in Ranks, NEW q \in Ranks
                 PROVE  /\ launch'[q] <= launch'[p] + 1
                        /\ launch'[q] = launch'[p] + 1 =>
                              \A v \in Aivs : aiv'[p][v] \in Reduces /\ aiv'[q][v] = "barrierAll"
                        /\ launch'[q] = launch'[p] =>
                              \A u, v \in Aivs :
                                 /\ aiv'[p][v] = "barrierAll" => aiv'[q][u] = "barrierAll"
                                 /\ aiv'[p][v] \in Reduces => aiv'[q][u] \in Reduces
      BY DEF RanksInStep
    <3>5. CASE p = r /\ q = r
      BY <2>1, <3>1, <3>5 DEF Reduces
    <3>6. CASE p = r /\ q # r
      <4>1. /\ launch'[p] = launch[r] + 1 /\ launch'[q] = launch[q]
            /\ \A v \in Aivs : aiv'[p][v] = "barrierAll" /\ aiv'[q][v] = aiv[q][v]
        BY <2>1, <3>6
      <4> QED  BY <3>1, <3>2, <3>4, <4>1 DEF Reduces
    <3>7. CASE p # r /\ q = r
      <4>1. /\ launch'[p] = launch[p] /\ launch'[q] = launch[r] + 1
            /\ \A v \in Aivs : aiv'[p][v] = aiv[p][v] /\ aiv'[q][v] = "barrierAll"
        BY <2>1, <3>7
      <4> QED  BY <3>1, <3>2, <3>3, <3>4, <4>1 DEF Reduces
    <3>8. CASE p # r /\ q # r
      <4>1. launch'[p] = launch[p] /\ launch'[q] = launch[q]
        BY <2>1, <3>8
      <4>2. \A v \in Aivs : aiv'[p][v] = aiv[p][v] /\ aiv'[q][v] = aiv[q][v]
        BY <2>1, <3>8
      <4> QED  BY <4>1, <4>2 DEF RanksInStep
    <3> QED  BY <3>5, <3>6, <3>7, <3>8
  <2>4. CoresInStep' /\ Counted'
    <3>1. CoresInStep'
      <4>1. ASSUME NEW s \in Ranks, NEW u \in Aivs, NEW v \in Aivs,
                   aiv'[s][v] \in PastBarrierPad
            PROVE  aiv'[s][u] \in PastBarrierPad
        <5>1. s # r
          BY <2>1, <4>1 DEF PastBarrierPad
        <5>2. aiv'[s][u] = aiv[s][u] /\ aiv'[s][v] = aiv[s][v]
          BY <2>1, <5>1
        <5> QED  BY <4>1, <5>2 DEF CoresInStep
      <4>2. ASSUME NEW s \in Ranks, NEW c \in Aics, NEW d \in Aics,
                   aic'[s][c] \in PastAicBarrier
            PROVE  aic'[s][d] \in PastAicBarrier
        <5>1. s # r
          BY <2>1, <4>2 DEF PastAicBarrier, AicStart
        <5>2. aic'[s][c] = aic[s][c] /\ aic'[s][d] = aic[s][d]
          BY <2>1, <5>1
        <5> QED  BY <4>2, <5>2 DEF CoresInStep
      <4> QED  BY <4>1, <4>2 DEF CoresInStep
    <3>2. \A s \in Ranks : launch[s] \in Int
      BY DEF TypeOK
    <3>3. ASSUME NEW s \in Ranks, NEW u \in Aivs
          PROVE  PadsOf(s, u)'
      <4>1. CASE s = r
        <5>1. pads[s][u] = IF padding THEN launch[s] ELSE 0
          BY <2>1, <4>1 DEF Counted, PadsOf
        <5>2. launch'[s] - 1 = launch[s]
          BY <2>1, <3>2, <4>1
        <5>3. aiv'[s][u] = "barrierAll"
          BY <2>1, <4>1
        <5> QED  BY <2>1, <5>1, <5>2, <5>3 DEF PadsOf
      <4>2. CASE s # r
        <5>1. launch'[s] = launch[s] /\ aiv'[s][u] = aiv[s][u]
          BY <2>1, <4>2
        <5> QED  BY <2>1, <5>1 DEF Counted, PadsOf
      <4> QED  BY <4>1, <4>2
    <3>4. ASSUME NEW s \in Ranks, NEW d \in Aics
          PROVE  StoredOf(s, d)'
      BY <2>1, <3>2 DEF Counted, StoredOf, PastMultiply, AicStart
    <3> QED  BY <3>1, <3>3, <3>4 DEF Counted
  <2>5. FlagsFollow'
    <3>1. \A c \in Aics : \A v \in AivsOf(c) : mmad[r][v] = 0 /\ padded[r][v] = 0
      BY <2>1, CubeCores DEF FlagsFollow, FlagsOf, PastWaitMmad
    <3> SUFFICES ASSUME NEW s \in Ranks, NEW c \in Aics, NEW v \in AivsOf(c)
                 PROVE  FlagsOf(s, c, v)'
      BY DEF FlagsFollow
    <3>2. v \in Aivs
      BY CubeCores
    <3>3. CASE s = r
      <4>1. aiv'[s][v] = "barrierAll" /\ aic'[s][c] = AicStart
        BY <2>1, <3>2, <3>3
      <4> QED
        BY <2>1, <3>1, <3>3, <4>1 DEF FlagsOf, AicStart, PastSetPadding, PastWaitMmad
    <3>4. CASE s # r
      <4>1. aiv'[s][v] = aiv[s][v] /\ aic'[s][c] = aic[s][c]
        BY <2>1, <3>2, <3>4
      <4> QED  BY <2>1, <4>1 DEF FlagsFollow, FlagsOf
    <3> QED  BY <3>3, <3>4
  <2> QED  BY <2>2, <2>3, <2>4, <2>5
<1>6. ASSUME NEW r \in Ranks, NEW v \in Aivs, Pad(r, v)
      PROVE  IInv'
  <2>1. /\ aiv' \in [Ranks -> [Aivs -> AivPcs]]
        /\ \A s \in Ranks, u \in Aivs :
              aiv'[s][u] = IF s = r /\ u = v THEN "barrierPad" ELSE aiv[s][u]
    BY <1>6, AivMove DEF Pad, PcsOK, AivPcs
  <2>2. /\ aiv[r][v] = "pad"
        /\ UNCHANGED <<padding, launch, aic, padded, mmad, stored>>
    BY <1>6 DEF Pad
  <2>3. \A s \in Ranks, u \in Aivs :
           pads'[s][u] = IF s = r /\ u = v THEN pads[s][u] + 1 ELSE pads[s][u]
    BY <1>6 DEF Pad, TypeOK
  <2>4. /\ padding
        /\ launch[r] \in 1..Launches
        /\ pads[r][v] = launch[r] - 1
    <3>1. padding
      BY <2>2 DEF PcsOK
    <3>2. pads[r][v] = launch[r] - 1
      BY <2>2, <3>1 DEF Counted, PadsOf
    <3> QED  BY <3>1, <3>2, Types
  <2>5. pads'[r][v] = launch[r]
    BY <2>3, <2>4
  <2>6. pads' \in [Ranks -> [Aivs -> 0..Launches]]
    BY <1>6, <2>4 DEF Pad, TypeOK
  <2>7. TypeOK' /\ PcsOK'
    BY <2>1, <2>2, <2>6 DEF TypeOK, PcsOK
  <2>8. RanksInStep'
    BY <2>1, <2>2, SameSides DEF Reduces
  <2>9. CoresInStep'
    BY <2>1, <2>2 DEF CoresInStep, PastBarrierPad
  <2>10. ASSUME NEW s \in Ranks, NEW u \in Aivs
         PROVE  PadsOf(s, u)'
    <3>1. CASE s = r /\ u = v
      <4>1. aiv'[s][u] = "barrierPad"
        BY <2>1, <3>1
      <4> QED  BY <2>2, <2>4, <2>5, <3>1, <4>1 DEF PadsOf
    <3>2. CASE ~(s = r /\ u = v)
      <4>1. pads'[s][u] = pads[s][u] /\ aiv'[s][u] = aiv[s][u]
        BY <2>1, <2>3, <3>2
      <4> QED  BY <2>2, <4>1 DEF Counted, PadsOf
    <3> QED  BY <3>1, <3>2
  <2>11. Counted'
    BY <2>2, <2>10 DEF Counted, StoredOf
  <2>12. FlagsFollow'
    BY <2>1, <2>2, CubeCores DEF FlagsFollow, FlagsOf, PastSetPadding, PastWaitMmad
  <2> QED  BY <2>7, <2>8, <2>9, <2>11, <2>12
<1>7. ASSUME NEW r \in Ranks, NEW v \in Aivs, SetPadding(r, v)
      PROVE  IInv'
  <2>1. /\ aiv' \in [Ranks -> [Aivs -> AivPcs]]
        /\ \A s \in Ranks, u \in Aivs :
              aiv'[s][u] = IF s = r /\ u = v THEN "waitMmad" ELSE aiv[s][u]
    BY <1>7, AivMove DEF SetPadding, PcsOK, AivPcs
  <2>2. /\ aiv[r][v] = "setPadding"
        /\ UNCHANGED <<padding, launch, aic, pads, mmad, stored>>
    BY <1>7 DEF SetPadding
  <2>3. /\ padded' \in [Ranks -> [Aivs -> 0..1]]
        /\ padded[r][v] = 0
        /\ \A s \in Ranks, u \in Aivs :
              padded'[s][u] = IF s = r /\ u = v THEN 1 ELSE padded[s][u]
    <3>1. padded[r][v] = 0
      BY <2>2, CubeCores DEF FlagsFollow, FlagsOf, PastSetPadding, PastWaitMmad
    <3> QED  BY <1>7, <3>1 DEF SetPadding, TypeOK
  <2>4. TypeOK' /\ PcsOK'
    BY <2>1, <2>2, <2>3 DEF TypeOK, PcsOK
  <2>5. RanksInStep'
    BY <2>1, <2>2, SameSides DEF Reduces
  <2>6. CoresInStep' /\ Counted'
    BY <2>1, <2>2 DEF CoresInStep, Counted, PadsOf, StoredOf, PastBarrierPad
  <2>7. FlagsFollow'
    BY <2>1, <2>2, <2>3, CubeCores
       DEF FlagsFollow, FlagsOf, PcsOK, PastSetPadding, PastWaitMmad, Reduces
  <2> QED  BY <2>4, <2>5, <2>6, <2>7
<1>8. ASSUME NEW r \in Ranks, NEW v \in Aivs, WaitMmad(r, v)
      PROVE  IInv'
  <2>1. /\ aiv' \in [Ranks -> [Aivs -> AivPcs]]
        /\ \A s \in Ranks, u \in Aivs :
              aiv'[s][u] = IF s = r /\ u = v THEN "barrierStored" ELSE aiv[s][u]
    BY <1>8, AivMove DEF WaitMmad, PcsOK, AivPcs
  <2>2. /\ aiv[r][v] = "waitMmad"
        /\ mmad[r][v] > 0
        /\ UNCHANGED <<padding, launch, aic, padded, pads, stored>>
    BY <1>8 DEF WaitMmad
  <2>3. /\ mmad[r][v] = 1
        /\ mmad' \in [Ranks -> [Aivs -> 0..1]]
        /\ \A s \in Ranks, u \in Aivs :
              mmad'[s][u] = IF s = r /\ u = v THEN 0 ELSE mmad[s][u]
    <3>1. mmad[r][v] = 1
      BY <2>2 DEF TypeOK
    <3> QED  BY <1>8, <3>1 DEF WaitMmad, TypeOK
  <2>4. TypeOK' /\ PcsOK'
    BY <2>1, <2>2, <2>3 DEF TypeOK, PcsOK
  <2>5. RanksInStep'
    BY <2>1, <2>2, SameSides DEF Reduces
  <2>6. CoresInStep' /\ Counted'
    BY <2>1, <2>2 DEF CoresInStep, Counted, PadsOf, StoredOf, PastBarrierPad
  <2>7. ASSUME NEW s \in Ranks, NEW c \in Aics, NEW u \in AivsOf(c)
        PROVE  FlagsOf(s, c, u)'
    <3>1. u \in Aivs
      BY CubeCores
    <3>2. FlagsOf(s, c, u)
      BY DEF FlagsFollow
    <3>3. CASE s = r /\ u = v
      <4>1. aiv'[s][u] = "barrierStored" /\ mmad'[s][u] = 0
        BY <2>1, <2>3, <3>3
      <4> QED  BY <2>2, <2>3, <3>2, <3>3, <4>1 DEF FlagsOf, PastSetPadding, PastWaitMmad
    <3>4. CASE ~(s = r /\ u = v)
      <4>1. aiv'[s][u] = aiv[s][u] /\ mmad'[s][u] = mmad[s][u]
        BY <2>1, <2>3, <3>1, <3>4
      <4> QED  BY <2>2, <3>2, <4>1 DEF FlagsOf
    <3> QED  BY <3>3, <3>4
  <2>8. FlagsFollow'
    BY <2>7 DEF FlagsFollow
  <2> QED  BY <2>4, <2>5, <2>6, <2>8
<1>9. ASSUME NEW r \in Ranks, NEW v \in Aivs, Reduce(r, v)
      PROVE  IInv'
  <2>1. /\ aiv' \in [Ranks -> [Aivs -> AivPcs]]
        /\ \A s \in Ranks, u \in Aivs :
              aiv'[s][u] = IF s = r /\ u = v THEN "done" ELSE aiv[s][u]
    BY <1>9, AivMove DEF Reduce, PcsOK, AivPcs
  <2>2. /\ aiv[r][v] = "reduce"
        /\ UNCHANGED <<padding, launch, aic, padded, pads, mmad, stored>>
    BY <1>9 DEF Reduce
  <2>3. TypeOK' /\ PcsOK'
    BY <2>1, <2>2 DEF TypeOK, PcsOK
  <2>4. RanksInStep'
    BY <2>1, <2>2, SameSides DEF Reduces
  <2>5. CoresInStep' /\ Counted'
    BY <2>1, <2>2 DEF CoresInStep, Counted, PadsOf, StoredOf, PastBarrierPad
  <2>6. FlagsFollow'
    BY <2>1, <2>2, CubeCores DEF FlagsFollow, FlagsOf, PastSetPadding, PastWaitMmad
  <2> QED  BY <2>3, <2>4, <2>5, <2>6
<1>10. ASSUME NEW r \in Ranks, NEW c \in Aics, WaitPadding(r, c)
       PROVE  IInv'
  <2>1. /\ aic' \in [Ranks -> [Aics -> AicPcs]]
        /\ \A s \in Ranks, d \in Aics :
              aic'[s][d] = IF s = r /\ d = c THEN "multiply" ELSE aic[s][d]
    BY <1>10, AicMove DEF WaitPadding, PcsOK, AicPcs
  <2>2. /\ aic[r][c] = "waitPadding"
        /\ \A v \in AivsOf(c) : padded[r][v] = 1
        /\ UNCHANGED <<padding, launch, aiv, pads, mmad, stored>>
    BY <1>10, CubeCores DEF WaitPadding, TypeOK
  <2>3. /\ padded' \in [Ranks -> [Aivs -> 0..1]]
        /\ \A s \in Ranks, u \in Aivs :
              padded'[s][u] = IF s = r /\ u \in AivsOf(c) THEN 0 ELSE padded[s][u]
    BY <1>10, <2>2 DEF WaitPadding, TypeOK
  <2>4. TypeOK' /\ PcsOK' /\ RanksInStep'
    <3>1. TypeOK'
      BY <2>1, <2>2, <2>3 DEF TypeOK
    <3>2. PcsOK'
      BY <2>1, <2>2, <2>3 DEF PcsOK
    <3>3. RanksInStep'
      BY <2>1, <2>2, <2>3, SameSides
    <3> QED  BY <3>1, <3>2, <3>3
  <2>5. CoresInStep' /\ Counted'
    BY <2>1, <2>2 DEF CoresInStep, Counted, PadsOf, StoredOf, PastMultiply, PastAicBarrier
  <2>6. FlagsFollow'
    <3>1. padding
      BY <2>2 DEF PcsOK
    <3>2. \A v \in AivsOf(c) : aiv[r][v] \in PastSetPadding
      BY <2>2, <3>1 DEF FlagsFollow, FlagsOf
    <3>3. \A d \in Aics : \A v \in AivsOf(d) : v \in AivsOf(c) <=> d = c
      BY CubeCores
    <3> QED  BY <2>1, <2>2, <2>3, <3>1, <3>2, <3>3, CubeCores DEF FlagsFollow, FlagsOf
  <2> QED  BY <2>4, <2>5, <2>6
<1>11. ASSUME NEW r \in Ranks, NEW c \in Aics, Multiply(r, c)
       PROVE  IInv'
  <2>1. /\ aic' \in [Ranks -> [Aics -> AicPcs]]
        /\ \A s \in Ranks, d \in Aics :
              aic'[s][d] = IF s = r /\ d = c THEN "barrierStored" ELSE aic[s][d]
    BY <1>11, AicMove DEF Multiply, PcsOK, AicPcs
  <2>2. /\ aic[r][c] = "multiply"
        /\ UNCHANGED <<padding, launch, aiv, padded, pads, mmad>>
    BY <1>11 DEF Multiply
  <2>3. \A s \in Ranks, d \in Aics :
           stored'[s][d] = IF s = r /\ d = c THEN stored[s][d] + 1 ELSE stored[s][d]
    BY <1>11 DEF Multiply, TypeOK
  <2>4. stored' \in [Ranks -> [Aics -> 0..Launches]]
    <3>1. stored[r][c] + 1 \in 0..Launches
      <4>1. stored[r][c] = launch[r] - 1
        BY <2>2 DEF Counted, StoredOf, PastMultiply
      <4> QED  BY <4>1, Types
    <3> QED  BY <1>11, <3>1 DEF Multiply, TypeOK
  <2>5. TypeOK' /\ PcsOK' /\ RanksInStep'
    <3>1. TypeOK'
      BY <2>1, <2>2, <2>4 DEF TypeOK
    <3>2. PcsOK'
      BY <2>1, <2>2, <2>4 DEF PcsOK
    <3>3. RanksInStep'
      BY <2>1, <2>2, <2>4, SameSides
    <3> QED  BY <3>1, <3>2, <3>3
  <2>6. CoresInStep' /\ Counted'
    BY <2>1, <2>2, <2>3, Types
       DEF CoresInStep, Counted, PadsOf, StoredOf, PastMultiply, PastAicBarrier
  <2>7. FlagsFollow'
    BY <2>1, <2>2, CubeCores DEF FlagsFollow, FlagsOf
  <2> QED  BY <2>5, <2>6, <2>7
<1>12. ASSUME NEW r \in Ranks, NEW c \in Aics, SetMmad(r, c)
       PROVE  IInv'
  <2>1. /\ aic' \in [Ranks -> [Aics -> AicPcs]]
        /\ \A s \in Ranks, d \in Aics :
              aic'[s][d] = IF s = r /\ d = c THEN "done" ELSE aic[s][d]
    BY <1>12, AicMove DEF SetMmad, PcsOK, AicPcs
  <2>2. /\ aic[r][c] = "setMmad"
        /\ \A v \in AivsOf(c) : mmad[r][v] = 0
        /\ UNCHANGED <<padding, launch, aiv, padded, pads, stored>>
    BY <1>12 DEF SetMmad, FlagsFollow, FlagsOf
  <2>3. /\ mmad' \in [Ranks -> [Aivs -> 0..1]]
        /\ \A s \in Ranks, u \in Aivs :
              mmad'[s][u] = IF s = r /\ u \in AivsOf(c) THEN 1 ELSE mmad[s][u]
    BY <1>12, <2>2 DEF SetMmad, TypeOK
  <2>4. TypeOK' /\ PcsOK' /\ RanksInStep'
    <3>1. TypeOK'
      BY <2>1, <2>2, <2>3 DEF TypeOK
    <3>2. PcsOK'
      BY <2>1, <2>2, <2>3 DEF PcsOK
    <3>3. RanksInStep'
      BY <2>1, <2>2, <2>3, SameSides
    <3> QED  BY <3>1, <3>2, <3>3
  <2>5. CoresInStep' /\ Counted'
    BY <2>1, <2>2 DEF CoresInStep, Counted, PadsOf, StoredOf, PastMultiply, PastAicBarrier
  <2>6. FlagsFollow'
    BY <2>1, <2>2, <2>3, CubeCores DEF FlagsFollow, FlagsOf
  <2> QED  BY <2>4, <2>5, <2>6
<1>13. CASE UNCHANGED vars
  BY <1>13 DEF vars, TypeOK, PcsOK, RanksInStep, CoresInStep, Counted, PadsOf, StoredOf,
               FlagsFollow, FlagsOf
<1> QED
  BY <1>1, <1>2, <1>3, <1>4, <1>5, <1>6, <1>7, <1>8, <1>9, <1>10, <1>11, <1>12, <1>13
     DEF Next, Barriers, Aiv, Aic

(* So they are in step in every state of every behaviour.                  *)
THEOREM Invariance == Spec => []IInv
<1>1. Init => IInv
  BY InitIInv
<1>2. IInv /\ [Next]_vars => IInv'
  BY NextIInv
<1> QED  BY <1>1, <1>2, PTL DEF Spec

(* No flag of the kernel is ever set again before it has been consumed.    *)
THEOREM TypeCorrect == Spec => []TypeOK
  BY Invariance, PTL DEF IInv

(* No cube core multiplies before its vector cores have padded the         *)
(* operands of this launch.                                                *)
THEOREM NeverMultipliesUnpadded == Spec => []MultipliesPadded
<1>1. IInv => MultipliesPadded
  <2> SUFFICES ASSUME IInv, NEW r \in Ranks, NEW c \in Aics, padding, aic[r][c] = "multiply",
                      NEW v \in Aivs
               PROVE  pads[r][v] = launch[r]
    BY DEF MultipliesPadded
  <2>1. 2 * c \in AivsOf(c) /\ 2 * c \in Aivs
    BY CubeCores
  <2>2. aiv[r][2 * c] \in PastBarrierPad
    BY <2>1 DEF IInv, FlagsFollow, FlagsOf, PastSetPadding, PastBarrierPad
  <2>3. aiv[r][v] \in PastBarrierPad
    BY <2>1, <2>2 DEF IInv, CoresInStep
  <2> QED  BY <2>3 DEF IInv, Counted, PadsOf, StoredOf, PastBarrierPad
<1> QED  BY <1>1, Invariance, PTL

(* While a vector core reduces, a rank is in the same launch and its cube  *)
(* cores have ended, or it is in the next one and waits at its start.      *)
LEMMA WhileReducing ==
    ASSUME IInv, NEW r \in Ranks, NEW v \in Aivs, aiv[r][v] = "reduce",
           NEW s \in Ranks, NEW c \in Aics
    PROVE  \/ launch[s] = launch[r] /\ aic[s][c] = "done"
           \/ launch[s] = launch[r] + 1 /\ \A u \in AivsOf(c) : aiv[s][u] = "barrierAll"
<1>1. launch[r] \in Int /\ launch[s] \in Int
  BY DEF IInv, TypeOK
<1>2. launch[r] # launch[s] + 1
  BY DEF IInv, RanksInStep, Reduces
<1>3. launch[s] <= launch[r] + 1 /\ launch[r] <= launch[s] + 1
  BY DEF IInv, RanksInStep
<1>4. 2 * c \in AivsOf(c) /\ \A u \in AivsOf(c) : u \in Aivs
  BY CubeCores
<1>5. CASE launch[s] = launch[r]
  <2>1. aiv[s][2 * c] \in Reduces
    BY <1>4, <1>5 DEF IInv, RanksInStep, Reduces
  <2> QED
    BY <1>4, <1>5, <2>1 DEF IInv, FlagsFollow, FlagsOf, PastWaitMmad, Reduces
<1>6. CASE launch[s] = launch[r] + 1
  BY <1>4, <1>6 DEF IInv, RanksInStep
<1> QED  BY <1>1, <1>2, <1>3, <1>5, <1>6

(* No vector core reduces a block before every cube core of every rank has *)
(* stored it.                                                              *)
THEOREM NeverReducesUnstored == Spec => []ReducesStored
<1>1. IInv => ReducesStored
  <2> SUFFICES ASSUME IInv, NEW r \in Ranks, NEW v \in Aivs, aiv[r][v] = "reduce",
                      NEW s \in Ranks, NEW c \in Aics
               PROVE  stored[s][c] >= launch[r]
    BY DEF ReducesStored
  <2>1. launch[r] \in Int /\ launch[s] \in Int
    BY DEF IInv, TypeOK
  <2>2. stored[s][c] = IF aic[s][c] \in PastMultiply THEN launch[s] ELSE launch[s] - 1
    BY DEF IInv, Counted, PadsOf, StoredOf
  <2> QED  BY <2>1, <2>2, WhileReducing DEF PastMultiply
<1> QED  BY <1>1, Invariance, PTL

(* With padding no cube core stores over a block that another rank may     *)
(* still be reducing: it waits for its vector cores, and they for the      *)
(* other ranks.                                                            *)
THEOREM NeverOverwritesWhenPadded == Spec => []NoOverwriteWhenPadded
<1>1. IInv => NoOverwriteWhenPadded
  <2> SUFFICES ASSUME IInv, padding,
                      NEW r \in Ranks, NEW v \in Aivs, aiv[r][v] = "reduce",
                      NEW s \in Ranks, NEW c \in Aics
               PROVE  stored[s][c] + (IF aic[s][c] = "multiply" THEN 1 ELSE 0) <= launch[r]
    BY DEF NoOverwriteWhenPadded
  <2>1. launch[r] \in Int /\ launch[s] \in Int
    BY DEF IInv, TypeOK
  <2>2. stored[s][c] = IF aic[s][c] \in PastMultiply THEN launch[s] ELSE launch[s] - 1
    BY DEF IInv, Counted, PadsOf, StoredOf
  <2>3. CASE launch[s] = launch[r] /\ aic[s][c] = "done"
    BY <2>1, <2>2, <2>3 DEF PastMultiply
  <2>4. CASE launch[s] = launch[r] + 1 /\ \A u \in AivsOf(c) : aiv[s][u] = "barrierAll"
    <3>1. 2 * c \in AivsOf(c)
      BY DEF AivsOf
    <3>2. aic[s][c] = "waitPadding"
      BY <2>4, <3>1 DEF IInv, FlagsFollow, FlagsOf, PastSetPadding
    <3> QED  BY <2>1, <2>2, <2>4, <3>2 DEF PastMultiply
  <2> QED  BY <2>3, <2>4, WhileReducing
<1> QED  BY <1>1, Invariance, PTL
==============================================================================
