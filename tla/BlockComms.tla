------------------------------ MODULE BlockComms ------------------------------
(***************************************************************************)
(* The pipes of one vector core in the comm blocks of all-reduce,          *)
(* reduce-scatter and all-gather.                                          *)
(***************************************************************************)
EXTENDS PipeInstructions, FiniteSets

CONSTANTS
    RankSize,       \* shmem_n_pes(), of reduce-scatter
    RoundCount,     \* log2 of shmem_n_pes(), of all-reduce
    CoreLoops,      \* tiles of this vector core
    GatherLoops     \* GatherLoops[c]: its tiles in the c-th call of all-gather

CommParametersOK ==
    /\ RankSize \in Nat \ {0} /\ RoundCount \in Nat /\ CoreLoops \in Nat
    /\ \A c \in DOMAIN GatherLoops : GatherLoops[c] \in Nat

-----------------------------------------------------------------------------
(***************************************************************************)
(* The pipes of one vector core in BlockComm<CommAtlasA2AllReduce>         *)
(* (include/catlass/distributed/block/block_comm_allreduce.hpp).           *)
(* BlockCommAllReduce takes reading a tile, adding it and signalling for   *)
(* one step, and writing a partial sum and signalling for another.  On the *)
(* core these are pipes of their own speeds: MTE2 copies, V adds, MTE3     *)
(* writes, and the scalar unit S sends the signals.  This module shows     *)
(* that the events put them in the order those steps stand for.  Waiting   *)
(* for the other ranks' signals is S holding up the rest of the program;   *)
(* here the other ranks are as fast as can be.  Both overloads of          *)
(* operator() have the same instructions for a tile.                       *)
(***************************************************************************)
AllReduceAddBuffer == <<"UB", 0>>

TmpBuffer == <<"UB", 1>>

Symm(t) == <<"symm", t>>

(* SetFlag and WaitFlag on eventIds[0]. *)
Then(by, from) == Sync(by, from, 0)

(* shmemx_signal_op is executed by S; it says that data is where it says,  *)
(* so it is modelled as reading the data.                                  *)
Signal(name, data) == << Copy("S", name, data) >>

(* Mutant: the reader acknowledges without waiting for its copy. *)
AckAtOnce(t, i) ==
    << Load("MTE2", TmpBuffer, <<"tile", i, t>>) >>
    \o Signal(<<"ack", t, i>>, TmpBuffer) \o Then("MTE2", "S")
    \o Then("S", "V") \o Then("MTE2", "V")

(* Copy the target's tile of round i and acknowledge it. *)
ReadTarget(t, i) ==
    << Load("MTE2", TmpBuffer, <<"tile", i, t>>) >>
    \o Then("MTE2", "S") \o Signal(<<"ack", t, i>>, TmpBuffer)
    \o Then("S", "V") \o Then("MTE2", "V")

AddTarget ==
    << Add("V", AllReduceAddBuffer, {TmpBuffer, AllReduceAddBuffer}) >> \o Then("V", "MTE2")

WritePartial(t, i) ==
    Then("V", "MTE3")
    \o << Copy("MTE3", Symm(t), AllReduceAddBuffer) >>
    \o Then("MTE3", "S") \o Signal(<<"partial", t, i>>, Symm(t))

AllReduceStore(t) ==
    Then("V", "MTE3") \o << Copy("MTE3", <<"C", t>>, AllReduceAddBuffer),
                            SetFlag("MTE3", "MTE2", 0) >>

AllReduceTile(t) ==
    << WaitFlag("MTE3", "MTE2", 0), Load("MTE2", AllReduceAddBuffer, <<"tile", 0, t>>) >>
    \o For(1, RoundCount, LAMBDA i :
           ReadTarget(t, i) \o AddTarget \o When(i < RoundCount, WritePartial(t, i)))
    \o AllReduceStore(t)

AllReduceStream ==
    << SetFlag("MTE3", "MTE2", 0) >>
    \o For(0, CoreLoops - 1, AllReduceTile)
    \o << WaitFlag("MTE3", "MTE2", 0) >>

-----------------------------------------------------------------------------
(* Every tile of the result is the sum of the own tile and of one tile of  *)
(* each round.                                                             *)
AllReduceExpected ==
    [b \in {<<"C", t>> : t \in 0..(CoreLoops - 1)} |-> SetToBag({<<"tile", i, b[2]>> : i \in 0..RoundCount})]

-----------------------------------------------------------------------------
(***************************************************************************)
(* BlockComm<CommAtlasA2ReduceScatter>                                     *)
(* (include/catlass/distributed/block/block_comm_reducescatter.hpp): a     *)
(* vector core sums its rows over all ranks.  For every tile the own rows  *)
(* go to addBuffer, and the other ranks' rows come one after the other,    *)
(* through two buffers in turn: while the vector unit adds one, the next   *)
(* is being copied.                                                        *)
(***************************************************************************)
RemoteCount == RankSize - 1

Tmp(i) == <<"UB", i>>

AddBuffer == <<"UB", 2>>

(* copyShmemToLocalUb of tile t from the n-th rank after the own. *)
LoadTile(t, n, buffer) == Load("MTE2", buffer, <<"tile", n, t>>)

(* The rows of remote n go to buffer i when the vector unit is done with it. *)
LoadRemote(t, n, i) ==
    << WaitFlag("V", "MTE2", i), LoadTile(t, n, Tmp(i)), SetFlag("MTE2", "V", i) >>

AddUp(i) ==
    << WaitFlag("MTE2", "V", i), Add("V", AddBuffer, {AddBuffer, Tmp(i)}),
       SetFlag("V", "MTE2", i) >>

(* One pass of the loop over k = 0, 2, 4, ... < RemoteCount - 1. *)
Pair(t, k) ==
    LoadRemote(t, k + 2, 1) \o AddUp(0)
    \o When(k + 2 < RemoteCount, LoadRemote(t, k + 3, 0))
    \o AddUp(1)

(* k after the loop is the smallest even number not below RemoteCount - 1. *)
Rest == When(2 * (RemoteCount \div 2) < RemoteCount, AddUp(0))

Remotes(t) ==
    << SetFlag("V", "MTE2", 0), SetFlag("V", "MTE2", 1) >>
    \o LoadRemote(t, 1, 0)
    \o For(0, (RemoteCount \div 2) - 1, LAMBDA j : Pair(t, 2 * j))
    \o Rest
    \o << WaitFlag("V", "MTE2", 0), WaitFlag("V", "MTE2", 1) >>

ReduceScatterStore(t) ==
    << SetFlag("V", "MTE3", 0), WaitFlag("V", "MTE3", 0),
       Copy("MTE3", <<"C", t>>, AddBuffer), SetFlag("MTE3", "MTE2", 0) >>

ReduceScatterTile(t) ==
    << WaitFlag("MTE3", "MTE2", 0), LoadTile(t, 0, AddBuffer),
       SetFlag("MTE2", "V", 0), WaitFlag("MTE2", "V", 0) >>
    \o When(RemoteCount > 0, Remotes(t))
    \o ReduceScatterStore(t)

(* Mutant: the event of the last store is left set. *)
ReduceScatterStreamWithoutLastWait ==
    << SetFlag("MTE3", "MTE2", 0) >> \o For(0, CoreLoops - 1, ReduceScatterTile)

(* operator() *)
ReduceScatterStream ==
    << SetFlag("MTE3", "MTE2", 0) >>
    \o For(0, CoreLoops - 1, ReduceScatterTile)
    \o << WaitFlag("MTE3", "MTE2", 0) >>

-----------------------------------------------------------------------------
(* Every tile of the result is the sum over all ranks, each of them once,  *)
(* whether their number is even or odd.                                    *)
ReduceScatterExpected ==
    [b \in {<<"C", t>> : t \in 0..(CoreLoops - 1)} |->
       SetToBag({<<"tile", n, b[2]>> : n \in 0..(RankSize - 1)})]

-----------------------------------------------------------------------------
(***************************************************************************)
(* The copy loops of BlockComm<CommAtlasA2AllGather>                       *)
(* (include/catlass/distributed/block/block_comm_allgather.hpp) on one     *)
(* vector core: rows go from global memory to one of BUFFER_NUM = 2 UB     *)
(* buffers and from there to symmetric memory, in turn.  The first call of *)
(* a launch copies the rank's own rows and then the partner's, every later *)
(* call the partner's.  bufferIndex lives in the object and goes on from   *)
(* loop to loop.  The signals between the ranks are in AllGatherMatmul.    *)
(***************************************************************************)
BufferNum == 2

Calls == DOMAIN GatherLoops

(* The copy loops of the launch one after the other: the first call has two. *)
Loops == << <<"own", 1>> >> \o [c \in Calls |-> <<"remote", c>>]

TilesOf(n) == GatherLoops[Loops[n][2]]

TilesBefore[n \in 1..Len(Loops)] ==
    IF n = 1 THEN 0 ELSE TilesBefore[n - 1] + TilesOf(n - 1)

BufferIndex(n, t) == (TilesBefore[n] + t) % BufferNum

(* Mutant: the load does not wait for the buffer. *)
CopyTileUnguarded(n, t) ==
    LET i == BufferIndex(n, t)
    IN << Load("MTE2", <<"UB", i>>, <<"tile", n, t>>),
          SetFlag("MTE2", "MTE3", i), WaitFlag("MTE2", "MTE3", i),
          Copy("MTE3", <<"symm", n, t>>, <<"UB", i>>),
          SetFlag("MTE3", "MTE2", i), WaitFlag("MTE3", "MTE2", i) >>

CopyTile(n, t) ==
    LET i == BufferIndex(n, t)
    IN << WaitFlag("MTE3", "MTE2", i),
          Load("MTE2", <<"UB", i>>, <<"tile", n, t>>),
          SetFlag("MTE2", "MTE3", i), WaitFlag("MTE2", "MTE3", i),
          Copy("MTE3", <<"symm", n, t>>, <<"UB", i>>),
          SetFlag("MTE3", "MTE2", i) >>

Free == << SetFlag("MTE3", "MTE2", 0), SetFlag("MTE3", "MTE2", 1) >>

TakeBack == << WaitFlag("MTE3", "MTE2", 0), WaitFlag("MTE3", "MTE2", 1) >>

CopyLoop(n) == Free \o For(0, TilesOf(n) - 1, LAMBDA t : CopyTile(n, t)) \o TakeBack

AllGatherStream == For(1, Len(Loops), CopyLoop)

-----------------------------------------------------------------------------
(* Every tile of every loop is in symmetric memory. *)
AllGatherExpected ==
    LET Tiles == UNION {{<<"symm", n, t>> : t \in 0..(TilesOf(n) - 1)} : n \in DOMAIN Loops}
    IN [b \in Tiles |-> SetToBag({<<"tile", b[2], b[3]>>})]
==============================================================================
