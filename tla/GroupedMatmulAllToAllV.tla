------------------------ MODULE GroupedMatmulAllToAllV ------------------------
(***************************************************************************)
(* The grouped matmul + all-to-all kernel                                  *)
(* (include/catlass/distributed/kernel/grouped_matmul_alltoallv.hpp).      *)
(*                                                                         *)
(* A rank multiplies the tokens of its experts one expert after the other. *)
(* The blocks of an expert are dealt out to the cube cores in turn,        *)
(* beginning where the expert before has stopped.  A vector core goes      *)
(* through the same loops as its cube core without being told which block  *)
(* is ready: after every block the cube core sets flagAicFinishBlockMmad,  *)
(* and the n-th set is taken for the n-th block.  The vector cores send    *)
(* the block to the ranks its tokens came from, and when those of all      *)
(* ranks have sent all their blocks every rank copies out what has come.   *)
(***************************************************************************)
EXTENDS Integers, FiniteSets, Sequences, SequencesExt

CONSTANTS
    RankSize,       \* shmem_n_pes()
    Cores,          \* GetBlockNum(): cube cores of a rank
    CoreLoops,      \* CoreLoops[r][e]: blocks of the e-th expert of rank r
    ReverseDepth    \* REVERSE_DEPTH of flagAicFinishBlockMmad

Ranks == 0..(RankSize - 1)

Experts == DOMAIN CoreLoops[0]

ASSUME SizeAssumption == RankSize \in Nat \ {0} /\ Cores \in Nat \ {0}
ASSUME LoopsAssumption ==
    \A r \in Ranks : CoreLoops[r] \in Seq(Nat) /\ DOMAIN CoreLoops[r] = Experts
ASSUME DepthAssumption == ReverseDepth \in Nat \ {0}

Aics == 0..(Cores - 1)

Aivs == 0..(2 * Cores - 1)

AivsOf(c) == {2 * c, 2 * c + 1}

(* coreIdx of a vector core *)
AicOf(v) == v \div 2

BlocksOf(r) == UNION {{e} \X (0..(CoreLoops[r][e] - 1)) : e \in Experts}

VARIABLES
    aic, aiv,   \* aic[r][c], aiv[r][v]: the instruction the core is at
    aicTurn, aivTurn,   \* how many of its blocks the core has been through
    mmad,       \* mmad[r][v]: flagAicFinishBlockMmad, not yet consumed by v
    reverse,    \* reverse[r][v]: its reverse flag, not yet consumed
    setCount, waitCount,    \* flagAicFinishBlockMmad.count in either object
    multiplied, \* multiplied[r]: the blocks in the workspace of rank r
    sent        \* sent[r][v]: the blocks vector core v has sent

flags == <<mmad, reverse, setCount, waitCount>>

vars == <<aic, aiv, aicTurn, aivTurn, flags, multiplied, sent>>

Everywhere(cores, value) == [r \in Ranks |-> [c \in cores |-> value]]

-----------------------------------------------------------------------------
(* The loops, which cube and vector cores go through alike.                *)

(* Mutant: every expert begins with core 0. *)
AlwaysCoreZero(r, e) == 0

(* startCoreIdx at expert e: where the expert before has stopped. *)
StartCoreIdx(r, e) ==
    LET start[f \in Experts] == IF f = 1 THEN 0 ELSE (start[f - 1] + CoreLoops[r][f - 1]) % Cores
    IN start[e]

StartLoopIdx(start, c) == IF c < start THEN c + Cores - start ELSE c - start

(* The blocks of an expert for core c: every Cores-th from startLoopIdx on. *)
BlocksOfExpert(r, e, start, c) ==
    LET first == StartLoopIdx(start, c)
        count == (CoreLoops[r][e] - first + Cores - 1) \div Cores
    IN [n \in 1..count |-> <<e, first + (n - 1) * Cores>>]

(* The blocks of cube core c, in its order. *)
AicBlocks(r, c) ==
    FlattenSeq([e \in Experts |-> BlocksOfExpert(r, e, StartCoreIdx(r, e), c)])

(* Mutant: the vector cores keep the start of the first expert. *)
AivBlocksUnrotated(r, v) ==
    FlattenSeq([e \in Experts |-> BlocksOfExpert(r, e, 0, AicOf(v))])

(* The blocks of vector core v, worked out by itself. *)
AivBlocks(r, v) ==
    FlattenSeq([e \in Experts |-> BlocksOfExpert(r, e, StartCoreIdx(r, e), AicOf(v))])

AicBlock(r, c) == AicBlocks(r, c)[aicTurn[r][c] + 1]

AivBlock(r, v) == AivBlocks(r, v)[aivTurn[r][v] + 1]

(* Where a core is when n of its blocks are behind it. *)
Onward(blocks, n, block, end) == IF n < Len(blocks) THEN block ELSE end

Init ==
    /\ aic = [r \in Ranks |-> [c \in Aics |-> Onward(AicBlocks(r, c), 0, "multiply", "done")]]
    /\ aiv = [r \in Ranks |-> [v \in Aivs |-> Onward(AivBlocks(r, v), 0, "wait", "barrierAll")]]
    /\ aicTurn = Everywhere(Aics, 0)
    /\ aivTurn = Everywhere(Aivs, 0)
    /\ mmad = Everywhere(Aivs, 0)
    /\ reverse = Everywhere(Aivs, 0)
    /\ setCount = Everywhere(Aics, 0)
    /\ waitCount = Everywhere(Aivs, 0)
    /\ multiplied = [r \in Ranks |-> {}]
    /\ sent = Everywhere(Aivs, {})

-----------------------------------------------------------------------------
(* The cube cores. *)

Multiply(r, c) ==
    /\ aic[r][c] = "multiply"
    /\ multiplied' = [multiplied EXCEPT ![r] = @ \cup {AicBlock(r, c)}]
    /\ aic' = [aic EXCEPT ![r][c] = "set"]
    /\ UNCHANGED <<aiv, aicTurn, aivTurn, flags, sent>>

AicGoesOn(r, c, turn) ==
    aic' = [aic EXCEPT ![r][c] = Onward(AicBlocks(r, c), turn, "multiply", "done")]

(* CrossCoreSetFlagWithReverse, see CrossCoreFlag. *)
SetMmad(r, c) ==
    /\ aic[r][c] = "set"
    /\ mmad' = [mmad EXCEPT ![r] = [v \in Aivs |-> IF v \in AivsOf(c) THEN @[v] + 1 ELSE @[v]]]
    /\ setCount' = [setCount EXCEPT ![r][c] = @ + 1]
    /\ aicTurn' = [aicTurn EXCEPT ![r][c] = @ + 1]
    /\ IF setCount[r][c] + 1 >= ReverseDepth
       THEN aic' = [aic EXCEPT ![r][c] = "awaitAnswer"]
       ELSE AicGoesOn(r, c, aicTurn[r][c] + 1)
    /\ UNCHANGED <<aiv, aivTurn, reverse, waitCount, multiplied, sent>>

(* Mutant: the cube core does not wait for the answers. *)
TakesNoAnswer(r, c) ==
    /\ aic[r][c] = "awaitAnswer"
    /\ setCount' = [setCount EXCEPT ![r][c] = 0]
    /\ AicGoesOn(r, c, aicTurn[r][c])
    /\ UNCHANGED <<aiv, aicTurn, aivTurn, mmad, reverse, waitCount, multiplied, sent>>

AwaitAnswer(r, c) ==
    /\ aic[r][c] = "awaitAnswer"
    /\ \A v \in AivsOf(c) : reverse[r][v] > 0
    /\ reverse' = [reverse EXCEPT ![r] =
                     [v \in Aivs |-> IF v \in AivsOf(c) THEN @[v] - 1 ELSE @[v]]]
    /\ setCount' = [setCount EXCEPT ![r][c] = 0]
    /\ AicGoesOn(r, c, aicTurn[r][c])
    /\ UNCHANGED <<aiv, aicTurn, aivTurn, mmad, waitCount, multiplied, sent>>

-----------------------------------------------------------------------------
(* The vector cores. *)

(* Mutant: the answer to the cube core is never sent. *)
NeverAnswers(r, v) ==
    /\ waitCount' = [waitCount EXCEPT ![r][v] = @ + 1]
    /\ UNCHANGED reverse

(* The tail of CrossCoreWaitFlagWithReverse. *)
Answer(r, v) ==
    IF waitCount[r][v] + 1 >= ReverseDepth
    THEN /\ reverse' = [reverse EXCEPT ![r][v] = @ + 1]
         /\ waitCount' = [waitCount EXCEPT ![r][v] = 0]
    ELSE /\ waitCount' = [waitCount EXCEPT ![r][v] = @ + 1]
         /\ UNCHANGED reverse

WaitMmad(r, v) ==
    /\ aiv[r][v] = "wait"
    /\ mmad[r][v] > 0
    /\ mmad' = [mmad EXCEPT ![r][v] = @ - 1]
    /\ Answer(r, v)
    /\ aiv' = [aiv EXCEPT ![r][v] = "send"]
    /\ UNCHANGED <<aic, aicTurn, aivTurn, setCount, multiplied, sent>>

(* blockComm of the block. *)
Send(r, v) ==
    /\ aiv[r][v] = "send"
    /\ sent' = [sent EXCEPT ![r][v] = @ \cup {AivBlock(r, v)}]
    /\ aivTurn' = [aivTurn EXCEPT ![r][v] = @ + 1]
    /\ aiv' = [aiv EXCEPT ![r][v] =
                 Onward(AivBlocks(r, v), aivTurn[r][v] + 1, "wait", "barrierAll")]
    /\ UNCHANGED <<aic, aicTurn, flags, multiplied>>

(* Mutant: each rank goes on by itself. *)
BarrierOfOneRank ==
    \E r \in Ranks :
        /\ \A v \in Aivs : aiv[r][v] = "barrierAll"
        /\ aiv' = [aiv EXCEPT ![r] = [v \in Aivs |-> "copyOut"]]
        /\ UNCHANGED <<aic, aicTurn, aivTurn, flags, multiplied, sent>>

(* shmemx_barrier_all_vec *)
BarrierAll ==
    /\ \A r \in Ranks, v \in Aivs : aiv[r][v] = "barrierAll"
    /\ aiv' = Everywhere(Aivs, "copyOut")
    /\ UNCHANGED <<aic, aicTurn, aivTurn, flags, multiplied, sent>>

(* The core's rows of what the rank has been sent go to ptrC. *)
CopyOut(r, v) ==
    /\ aiv[r][v] = "copyOut"
    /\ aiv' = [aiv EXCEPT ![r][v] = "done"]
    /\ UNCHANGED <<aic, aicTurn, aivTurn, flags, multiplied, sent>>

-----------------------------------------------------------------------------
Aic(r, c) == Multiply(r, c) \/ SetMmad(r, c) \/ AwaitAnswer(r, c)

Aiv(r, v) == WaitMmad(r, v) \/ Send(r, v) \/ CopyOut(r, v)

Next ==
    \/ BarrierAll
    \/ \E r \in Ranks, c \in Aics : Aic(r, c)
    \/ \E r \in Ranks, v \in Aivs : Aiv(r, v)

(* Every core runs whenever nothing holds it up. *)
Fairness ==
    /\ WF_vars(BarrierAll)
    /\ \A r \in Ranks, c \in Aics : WF_vars(Aic(r, c))
    /\ \A r \in Ranks, v \in Aivs : WF_vars(Aiv(r, v))

Spec == Init /\ [][Next]_vars /\ Fairness

-----------------------------------------------------------------------------
TypeOK ==
    /\ \A r \in Ranks, c \in Aics :
          /\ aic[r][c] \in {"multiply", "set", "awaitAnswer", "done"}
          /\ aicTurn[r][c] \in 0..Len(AicBlocks(r, c))
    /\ \A r \in Ranks, v \in Aivs :
          /\ aiv[r][v] \in {"wait", "send", "barrierAll", "copyOut", "done"}
          /\ aivTurn[r][v] \in 0..Len(AivBlocks(r, v))
          /\ sent[r][v] \subseteq BlocksOf(r)
    /\ mmad \in [Ranks -> [Aivs -> 0..ReverseDepth]]
    /\ reverse \in [Ranks -> [Aivs -> 0..1]]
    /\ setCount \in [Ranks -> [Aics -> 0..ReverseDepth]]
    /\ waitCount \in [Ranks -> [Aivs -> 0..(ReverseDepth - 1)]]
    /\ \A r \in Ranks : multiplied[r] \subseteq BlocksOf(r)

(* A vector core sends a block only when its cube core has multiplied it:  *)
(* the flag carries no block index, the two cores count through the        *)
(* experts and their rotating starts on their own.                         *)
SendsMultiplied ==
    \A r \in Ranks, v \in Aivs :
        aiv[r][v] = "send" => AivBlock(r, v) \in multiplied[r]

(* Once the loops of a rank are over, every block of every expert has been *)
(* sent by the two vector cores of exactly one cube core, and the cube     *)
(* cores have had the same number of blocks, give or take one.             *)
DealtOutEvenly ==
    \A r \in Ranks : (\A v \in Aivs : aiv[r][v] \in {"barrierAll", "copyOut", "done"}) =>
        /\ \A b \in BlocksOf(r) : \E c \in Aics : {v \in Aivs : b \in sent[r][v]} = AivsOf(c)
        /\ \A v, u \in Aivs : Cardinality(sent[r][v]) <= Cardinality(sent[r][u]) + 1

(* While a vector core copies out what its rank was sent, no rank has a    *)
(* block left to send.                                                     *)
CopiesAllSent ==
    \A r \in Ranks, v \in Aivs : aiv[r][v] = "copyOut" =>
        \A s \in Ranks : UNION {sent[s][u] : u \in Aivs} = BlocksOf(s)

Ended == \A r \in Ranks : /\ \A c \in Aics : aic[r][c] = "done"
                          /\ \A v \in Aivs : aiv[r][v] = "done"

(* The kernel leaves no core flag set. *)
LeavesNoFlagSet ==
    Ended => \A r \in Ranks, v \in Aivs : mmad[r][v] = 0 /\ reverse[r][v] = 0

(* The kernel ends on all ranks, whatever experts have no tokens. *)
Completion == <>Ended
==============================================================================
