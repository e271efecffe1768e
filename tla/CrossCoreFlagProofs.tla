------------------------- MODULE CrossCoreFlagProofs -------------------------
(***************************************************************************)
(* Proofs about the cross core flag with reverse synchronisation, for any  *)
(* groups of cores, any depth the hardware counter can hold and any number *)
(* of rounds.                                                              *)
(***************************************************************************)
EXTENDS CrossCoreFlag, TLAPS

(* A set by s adds one to the flags of s and touches no other. *)
LEMMA RaiseFlag ==
    ASSUME NEW s \in Setters,
           flag \in [Setters -> [Waiters -> Nat]]
    PROVE  /\ Raise(flag, s) \in [Setters -> [Waiters -> Nat]]
           /\ \A t \in Setters, w \in Waiters :
                 Raise(flag, s)[t][w] = IF t = s THEN flag[t][w] + 1 ELSE flag[t][w]
  BY DEF Raise

(* A wait of w that does not block takes one from each flag towards w. *)
LEMMA LowerFlag ==
    ASSUME NEW w \in Waiters,
           flag \in [Setters -> [Waiters -> Nat]],
           Raised(flag, w)
    PROVE  /\ Lower(flag, w) \in [Setters -> [Waiters -> Nat]]
           /\ \A s \in Setters, v \in Waiters :
                 Lower(flag, w)[s][v] = IF v = w THEN flag[s][v] - 1 ELSE flag[s][v]
           /\ \A s \in Setters : flag[s][w] > 0
  BY DEF Raised, Lower

(* What TypeOK says of one setter and one waiter. *)
LEMMA SetterTypes ==
    ASSUME TypeOK, NEW s \in Setters
    PROVE  setCount[s] \in 0..ReverseDepth /\ sets[s] \in 0..Rounds
  BY DEF TypeOK

LEMMA WaiterTypes ==
    ASSUME TypeOK, NEW w \in Waiters
    PROVE  waitCount[w] \in 0..ReverseDepth /\ waits[w] \in 0..Rounds
  BY DEF TypeOK

LEMMA FlagTypes ==
    ASSUME TypeOK, NEW s \in Setters, NEW w \in Waiters
    PROVE  flag[s][w] \in Nat /\ reverse[w][s] \in 0..1
  BY DEF TypeOK

THEOREM InitIInv == Init => IInv
  BY DepthAssumption, RoundsAssumption
     DEF Init, IInv, TypeOK, CountsMatch, SetsAccountedFor

(* Every operation keeps the two private counters in step. *)
THEOREM NextIInv == IInv /\ [Next]_vars => IInv'
<1> SUFFICES ASSUME IInv, [Next]_vars
             PROVE  IInv'
  OBVIOUS
<1> USE DepthAssumption, RoundsAssumption, GroupAssumption
<1>1. ASSUME NEW s \in Setters, SetFlag(s)
      PROVE  IInv'
  <2>1. setCount[s] < ReverseDepth /\ sets[s] < Rounds
    BY <1>1, SetterTypes DEF SetFlag, AwaitsReverse, IInv
  <2>2. /\ flag' \in [Setters -> [Waiters -> Nat]]
        /\ \A t \in Setters, w \in Waiters :
              flag'[t][w] = IF t = s THEN flag[t][w] + 1 ELSE flag[t][w]
    BY <1>1, RaiseFlag DEF SetFlag, IInv, TypeOK
  <2>3. /\ setCount' = [setCount EXCEPT ![s] = setCount[s] + 1]
        /\ sets' = [sets EXCEPT ![s] = sets[s] + 1]
        /\ setCount[s] + 1 \in 0..ReverseDepth /\ sets[s] + 1 \in 0..Rounds
    BY <1>1, <2>1, SetterTypes DEF SetFlag, IInv
  <2>4. TypeOK'
    <3>1. setCount' \in [Setters -> 0..ReverseDepth] /\ sets' \in [Setters -> 0..Rounds]
      BY <2>3 DEF IInv, TypeOK
    <3>2. UNCHANGED <<reverse, waitCount, waits>>
      BY <1>1 DEF SetFlag
    <3> QED  BY <2>2, <3>1, <3>2 DEF IInv, TypeOK
  <2>5. ASSUME NEW t \in Setters, NEW w \in Waiters
        PROVE  /\ setCount'[t] = flag'[t][w] + waitCount'[w]
                     + (IF reverse'[w][t] = 0 THEN 0 ELSE ReverseDepth)
               /\ sets'[t] = waits'[w] + flag'[t][w]
    <3>1. /\ setCount'[t] = IF t = s THEN setCount[t] + 1 ELSE setCount[t]
          /\ sets'[t] = IF t = s THEN sets[t] + 1 ELSE sets[t]
      BY <2>3 DEF IInv, TypeOK
    <3>2. UNCHANGED <<reverse, waitCount, waits>>
      BY <1>1 DEF SetFlag
    <3> QED
      BY <2>2, <3>1, <3>2, SetterTypes, WaiterTypes, FlagTypes
         DEF IInv, CountsMatch, SetsAccountedFor
  <2>6. CountsMatch' /\ SetsAccountedFor'
    BY <2>5 DEF CountsMatch, SetsAccountedFor
  <2> QED  BY <2>4, <2>6 DEF IInv
<1>2. ASSUME NEW s \in Setters, WaitReverse(s)
      PROVE  IInv'
  <2>1. setCount[s] = ReverseDepth
    BY <1>2, SetterTypes DEF WaitReverse, AwaitsReverse, IInv
  <2>2. \A w \in Waiters : reverse[w][s] = 1
    BY <1>2 DEF WaitReverse, Raised, IInv, TypeOK
  <2>3. \A w \in Waiters, t \in Setters :
           reverse'[w][t] = IF t = s THEN 0 ELSE reverse[w][t]
    BY <1>2, <2>2 DEF WaitReverse, Lower, IInv, TypeOK
  <2>4. reverse' \in [Waiters -> [Setters -> 0..1]]
    BY <1>2, <2>2 DEF WaitReverse, Lower, IInv, TypeOK
  <2>5. TypeOK'
    BY <1>2, <2>4 DEF WaitReverse, IInv, TypeOK
  <2>6. ASSUME NEW t \in Setters, NEW w \in Waiters
        PROVE  setCount'[t] = flag'[t][w] + waitCount'[w]
                   + (IF reverse'[w][t] = 0 THEN 0 ELSE ReverseDepth)
    <3>1. setCount'[t] = IF t = s THEN 0 ELSE setCount[t]
      BY <1>2 DEF WaitReverse, IInv, TypeOK
    <3>2. UNCHANGED <<flag, waitCount>>
      BY <1>2 DEF WaitReverse
    <3> QED
      BY <2>1, <2>2, <2>3, <3>1, <3>2, SetterTypes, WaiterTypes, FlagTypes
         DEF IInv, CountsMatch
  <2>7. SetsAccountedFor'
    BY <1>2 DEF WaitReverse, IInv, SetsAccountedFor
  <2> QED  BY <2>5, <2>6, <2>7 DEF IInv, CountsMatch
<1>3. ASSUME NEW w \in Waiters, WaitFlag(w)
      PROVE  IInv'
  <2>1. waitCount[w] < ReverseDepth /\ waits[w] < Rounds
    BY <1>3, WaiterTypes DEF WaitFlag, OwesReverse, IInv
  <2>2. /\ flag' \in [Setters -> [Waiters -> Nat]]
        /\ \A s \in Setters, v \in Waiters :
              flag'[s][v] = IF v = w THEN flag[s][v] - 1 ELSE flag[s][v]
        /\ \A s \in Setters : flag[s][w] > 0
    BY <1>3, LowerFlag DEF WaitFlag, IInv, TypeOK
  <2>3. /\ waitCount' = [waitCount EXCEPT ![w] = waitCount[w] + 1]
        /\ waits' = [waits EXCEPT ![w] = waits[w] + 1]
        /\ waitCount[w] + 1 \in 0..ReverseDepth /\ waits[w] + 1 \in 0..Rounds
    BY <1>3, <2>1, WaiterTypes DEF WaitFlag, IInv
  <2>4. TypeOK'
    BY <1>3, <2>2, <2>3 DEF WaitFlag, IInv, TypeOK
  <2>5. ASSUME NEW s \in Setters, NEW v \in Waiters
        PROVE  /\ setCount'[s] = flag'[s][v] + waitCount'[v]
                     + (IF reverse'[v][s] = 0 THEN 0 ELSE ReverseDepth)
               /\ sets'[s] = waits'[v] + flag'[s][v]
    <3>1. /\ waitCount'[v] = IF v = w THEN waitCount[v] + 1 ELSE waitCount[v]
          /\ waits'[v] = IF v = w THEN waits[v] + 1 ELSE waits[v]
      BY <2>3 DEF IInv, TypeOK
    <3>2. UNCHANGED <<reverse, setCount, sets>>
      BY <1>3 DEF WaitFlag
    <3>3. /\ setCount[s] = flag[s][v] + waitCount[v]
                + (IF reverse[v][s] = 0 THEN 0 ELSE ReverseDepth)
          /\ sets[s] = waits[v] + flag[s][v]
      BY DEF IInv, CountsMatch, SetsAccountedFor
    <3>4. /\ setCount[s] \in Nat /\ sets[s] \in Nat
          /\ waitCount[v] \in Nat /\ waits[v] \in Nat /\ flag[s][v] \in Nat
      BY SetterTypes, WaiterTypes, FlagTypes DEF IInv
    <3>5. CASE v = w
      <4>1. flag'[s][v] = flag[s][v] - 1
        BY <2>2, <3>5
      <4>2. waitCount'[v] = waitCount[v] + 1 /\ waits'[v] = waits[v] + 1
        BY <3>1, <3>5
      <4> QED  BY <3>2, <3>3, <3>4, <4>1, <4>2
    <3>6. CASE v # w
      BY <2>2, <3>1, <3>2, <3>3, <3>6
    <3> QED  BY <3>5, <3>6
  <2>6. CountsMatch' /\ SetsAccountedFor'
    BY <2>5 DEF CountsMatch, SetsAccountedFor
  <2> QED  BY <2>4, <2>6 DEF IInv
<1>4. ASSUME NEW w \in Waiters, SetReverse(w)
      PROVE  IInv'
  <2>1. waitCount[w] = ReverseDepth
    BY <1>4, WaiterTypes DEF SetReverse, OwesReverse, IInv
  <2>2. \A s \in Setters : reverse[w][s] = 0
    BY <2>1, SetterTypes, FlagTypes DEF IInv, CountsMatch
  <2>3. \A v \in Waiters, s \in Setters :
           reverse'[v][s] = IF v = w THEN 1 ELSE reverse[v][s]
    BY <1>4, <2>2 DEF SetReverse, Raise, IInv, TypeOK
  <2>4. reverse' \in [Waiters -> [Setters -> 0..1]]
    BY <1>4, <2>2 DEF SetReverse, Raise, IInv, TypeOK
  <2>5. TypeOK'
    <3>1. waitCount' \in [Waiters -> 0..ReverseDepth]
      BY <1>4 DEF SetReverse, IInv, TypeOK
    <3>2. UNCHANGED <<flag, setCount, sets, waits>>
      BY <1>4 DEF SetReverse
    <3> QED  BY <2>4, <3>1, <3>2 DEF IInv, TypeOK
  <2>6. ASSUME NEW s \in Setters, NEW v \in Waiters
        PROVE  setCount'[s] = flag'[s][v] + waitCount'[v]
                   + (IF reverse'[v][s] = 0 THEN 0 ELSE ReverseDepth)
    <3>1. waitCount'[v] = IF v = w THEN 0 ELSE waitCount[v]
      BY <1>4 DEF SetReverse, IInv, TypeOK
    <3>2. UNCHANGED <<flag, setCount>>
      BY <1>4 DEF SetReverse
    <3> QED
      BY <2>1, <2>2, <2>3, <3>1, <3>2, SetterTypes, WaiterTypes, FlagTypes
         DEF IInv, CountsMatch
  <2>7. SetsAccountedFor'
    BY <1>4 DEF SetReverse, IInv, SetsAccountedFor
  <2> QED  BY <2>5, <2>6, <2>7 DEF IInv, CountsMatch
<1>5. CASE UNCHANGED vars
  BY <1>5 DEF vars, IInv, TypeOK, CountsMatch, SetsAccountedFor
<1> QED
  BY <1>1, <1>2, <1>3, <1>4, <1>5 DEF Next, Setter, Waiter

(* IInv holds in every reachable state. *)
THEOREM Invariance == Spec => []IInv
  BY InitIInv, NextIInv, PTL DEF Spec

(* Every variable keeps its type: in particular a counter never passes the *)
(* depth and a waiter never answers twice before the setter has read it.   *)
THEOREM TypeCorrect == Spec => []TypeOK
<1>1. IInv => TypeOK
  BY DEF IInv
<1> QED  BY <1>1, Invariance, PTL

(* No flag ever holds more sets than the hardware can count, for every     *)
(* depth up to that limit (cross_core_sync.hpp:19-24).                     *)
THEOREM NeverFreezes == Spec => []NoFreeze
<1>1. IInv => NoFreeze
  <2> SUFFICES ASSUME IInv
               PROVE  NoFreeze
    OBVIOUS
  <2>1. \A s \in Setters, w \in Waiters : flag[s][w] <= ReverseDepth
    BY DepthAssumption DEF IInv, TypeOK, CountsMatch
  <2>2. \A s \in Setters, w \in Waiters : flag[s][w] <= FlagLimit
    BY <2>1, LimitAssumption, DepthAssumption DEF IInv, TypeOK
  <2>3. \A s \in Setters, w \in Waiters : reverse[w][s] <= FlagLimit
    BY LimitAssumption, DepthAssumption DEF IInv, TypeOK
  <2> QED  BY <2>2, <2>3 DEF NoFreeze
<1> QED  BY <1>1, Invariance, PTL

(* A kernel whose cores have gone through the same number of rounds leaves *)
(* every flag at zero for the next kernel.                                 *)
THEOREM LeavesFlagsDrained == Spec => []DrainedAtEnd
<1>1. IInv => DrainedAtEnd
  <2> SUFFICES ASSUME IInv,
                      \A s \in Setters : sets[s] = Rounds /\ ~AwaitsReverse(s),
                      \A w \in Waiters : waits[w] = Rounds /\ ~OwesReverse(w)
               PROVE  /\ \A s \in Setters, w \in Waiters : flag[s][w] = 0
                      /\ \A s \in Setters, w \in Waiters : reverse[w][s] = 0
    BY DEF DrainedAtEnd
  <2>1. \A s \in Setters, w \in Waiters : flag[s][w] = 0
    BY RoundsAssumption DEF IInv, TypeOK, SetsAccountedFor
  <2>2. \A s \in Setters, w \in Waiters : reverse[w][s] = 0
    BY DepthAssumption DEF IInv, TypeOK, CountsMatch, AwaitsReverse
  <2> QED  BY <2>1, <2>2
<1> QED  BY <1>1, Invariance, PTL

(* The flags implement the bounded handshake the kernels rely on.          *)
THEOREM Implementation == Spec => ImplementsHandshake
<1>1. Init => Promise!Init
  BY DEF Init, Promise!Init
<1>2. IInv /\ [Next]_vars => [Promise!Next]_Promise!vars
  <2> SUFFICES ASSUME IInv, [Next]_vars
               PROVE  [Promise!Next]_Promise!vars
    OBVIOUS
  <2>1. ASSUME NEW s \in Setters, SetFlag(s)
        PROVE  Promise!Set(s)
    <3>1. setCount[s] < ReverseDepth
      BY <2>1, DepthAssumption DEF SetFlag, AwaitsReverse, IInv, TypeOK
    <3>2. \A w \in Waiters : sets[s] - waits[w] < ReverseDepth
      BY <3>1, DepthAssumption DEF IInv, TypeOK, CountsMatch, SetsAccountedFor
    <3> QED  BY <2>1, <3>2 DEF SetFlag, Promise!Set
  <2>2. ASSUME NEW w \in Waiters, WaitFlag(w)
        PROVE  Promise!Wait(w)
    <3>1. \A s \in Setters : flag[s][w] > 0
      BY <2>2, LowerFlag DEF WaitFlag, IInv, TypeOK
    <3>2. \A s \in Setters : waits[w] < sets[s]
      BY <3>1, RoundsAssumption DEF IInv, TypeOK, SetsAccountedFor
    <3> QED  BY <2>2, <3>2 DEF WaitFlag, Promise!Wait
  <2>3. ASSUME NEW s \in Setters, WaitReverse(s)
        PROVE  UNCHANGED Promise!vars
    BY <2>3 DEF WaitReverse, Promise!vars
  <2>4. ASSUME NEW w \in Waiters, SetReverse(w)
        PROVE  UNCHANGED Promise!vars
    BY <2>4 DEF SetReverse, Promise!vars
  <2>5. CASE UNCHANGED vars
    BY <2>5 DEF vars, Promise!vars
  <2> QED
    BY <2>1, <2>2, <2>3, <2>4, <2>5 DEF Next, Setter, Waiter, Promise!Next
<1> QED
  BY <1>1, <1>2, Invariance, PTL DEF Spec, ImplementsHandshake, Promise!Spec
==============================================================================
