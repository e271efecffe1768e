----------------------------- MODULE PipeMachine -----------------------------
(***************************************************************************)
(* Ascend cores running their instruction streams.  The scalar unit S of a *)
(* core reads its stream in order and hands every instruction to a pipe:   *)
(* MTE2 (memory to L1 or UB), MTE1 (L1 to L0), M (matmul), FIX (L0C to     *)
(* memory), V (vector), MTE3 (UB to memory).  A pipe executes what it was  *)
(* handed in order, and the pipes run at their own speeds: an agent is     *)
(* <<core, pipe>>.  All that orders agents is SetFlag and WaitFlag on a    *)
(* core, CrossCoreSetFlag and CrossCoreWaitFlag between cores, and the     *)
(* scalar unit, whose own instructions hold up all that it has not handed  *)
(* out.  This is the hardware as include/catlass uses it; the block and    *)
(* kernel modules build the streams from the code, and a behaviour runs    *)
(* one of them.                                                            *)
(*                                                                         *)
(* Every event is set in a certain order and waited for by one agent, so   *)
(* no step of an agent takes away what another one can do next, and all    *)
(* interleavings of a stream execute the same instructions in the same     *)
(* happens-before order.  The machine carries that order along as vector   *)
(* clocks: an agent knows of the steps that happen before its next one,    *)
(* and NoRace is about what it knows.  So one interleaving shows for a     *)
(* long stream what all of them show (PipeMachineProofs); the short ones   *)
(* are run in all.                                                         *)
(***************************************************************************)
EXTENDS Integers, Sequences, FiniteSets

CONSTANTS
    Programs,   \* the streams by name, as Loaded by PipeInstructions
    PipeLimit,  \* sets a pipe event may be ahead of its waits
    FlagLimit   \* sets a cross core flag can hold

VARIABLES
    program,    \* name of the stream that is run
    pos,        \* pos[a]: how many of its instructions agent a has executed
    known,      \* known[a][b]: steps of b that a has learnt of
    handed,     \* handed[c][i]: what core c's scalar unit knew after its i-th step
    flag,       \* flag[e]: for each set not yet consumed, what its setter knew
    mem         \* mem[b]: the instruction that wrote buffer b (0: none) and those
                \* that have read it since

vars == <<program, pos, known, handed, flag, mem>>

ScalarOf(a) == <<a[1], "S">>

(* n is executed after m: by the same agent, or because what m sets is     *)
(* waited for by the scalar unit before it hands out n, as in a barrier.   *)
Follows(p, n, m) ==
    \/ p.ins[m].agent = p.ins[n].agent /\ p.place[m] < p.place[n]
    \/ \E e \in p.ins[m].events :
         /\ p.nth[m][e] \in DOMAIN p.waits[e]
         /\ LET wait == p.waits[e][p.nth[m][e]]
            IN p.ins[wait].agent = ScalarOf(p.ins[n].agent) /\ p.place[wait] <= p.needs[n]

(* The instructions of seq set event e, or wait for it, one by one.        *)
Uses(p, seq, op, e) ==
    /\ seq \in Seq(DOMAIN p.ins)
    /\ \A i \in DOMAIN seq :
         p.ins[seq[i]].op = op /\ e \in p.ins[seq[i]].events /\ p.nth[seq[i]][e] = i

(* The tables of a stream fit together, see Loaded: an instruction has its *)
(* place in the queue of its agent, its scalar unit has some of its own to *)
(* execute before it, the settings of an event are in a certain order, and *)
(* one agent waits for them.                                               *)
WellFormed(p) ==
    /\ DOMAIN p.ins \subseteq Nat \ {0} /\ IsFiniteSet(DOMAIN p.ins)
    /\ DOMAIN p.queue \subseteq p.cores \X STRING
    /\ \A a \in DOMAIN p.queue :
         /\ p.queue[a] \in Seq(DOMAIN p.ins)
         /\ \A i \in DOMAIN p.queue[a] :
              p.ins[p.queue[a][i]].agent = a /\ p.place[p.queue[a][i]] = i
    /\ \A n \in DOMAIN p.ins :
         LET ins == p.ins[n]
             scalar == ScalarOf(ins.agent)
         IN /\ ins.agent \in DOMAIN p.queue
            /\ p.place[n] \in DOMAIN p.queue[ins.agent]
            /\ p.queue[ins.agent][p.place[n]] = n
            /\ p.needs[n] \in Nat
            /\ p.needs[n] > 0 => scalar \in DOMAIN p.queue /\ p.needs[n] \in DOMAIN p.queue[scalar]
            /\ ins.agent = scalar => p.needs[n] = p.place[n] - 1
            /\ ins.op \in {"set", "wait", "do"}
            /\ ins.op = "do" => ins.dst \in p.buffers /\ ins.srcs \subseteq p.buffers
            /\ ins.op # "do" => \A e \in ins.events :
                 /\ e \in DOMAIN p.waits
                 /\ LET seq == IF ins.op = "set" THEN p.sets[e] ELSE p.waits[e]
                    IN p.nth[n][e] \in DOMAIN seq /\ seq[p.nth[n][e]] = n
    /\ DOMAIN p.sets = DOMAIN p.waits
    /\ \A e \in DOMAIN p.waits :
         /\ Uses(p, p.sets[e], "set", e) /\ Uses(p, p.waits[e], "wait", e)
         /\ \A i \in 2..Len(p.sets[e]) : Follows(p, p.sets[e][i], p.sets[e][i - 1])
         /\ \A i \in 2..Len(p.waits[e]) :
              /\ p.ins[p.waits[e][i]].agent = p.ins[p.waits[e][i - 1]].agent
              /\ p.place[p.waits[e][i - 1]] < p.place[p.waits[e][i]]

ASSUME LimitsAssumption == PipeLimit \in Nat /\ FlagLimit \in Nat

ASSUME ProgramsAssumption == \A name \in DOMAIN Programs : WellFormed(Programs[name])

P == Programs[program]

Agents == DOMAIN P.queue

Busy(a) == pos[a] < Len(P.queue[a])

Current(a) == P.queue[a][pos[a] + 1]

Instruction(a) == P.ins[Current(a)]

(* The scalar unit has got as far as the current instruction of a. *)
Issued(a) == P.needs[Current(a)] > 0 => pos[ScalarOf(a)] >= P.needs[Current(a)]

Ready(a) ==
    /\ Busy(a)
    /\ Issued(a)
    /\ Instruction(a).op = "wait" => \A e \in Instruction(a).events : flag[e] # <<>>

(* The steps of b that a knows of when the scalar unit has handed it its   *)
(* current instruction.                                                    *)
Learnt(a, b) ==
    LET n == P.needs[Current(a)]
    IN IF n = 0 \/ a[2] = "S" \/ known[a][b] >= handed[a[1]][n][b]
       THEN known[a][b] ELSE handed[a[1]][n][b]

Knowledge(a) == [b \in Agents |-> Learnt(a, b)]

Knows(a, n) == n = 0 \/ Learnt(a, P.ins[n].agent) >= P.place[n]

(* The most that one of these clocks says of b. *)
Latest(clocks, b) ==
    CHOOSE m \in {c[b] : c \in clocks} : \A c \in clocks : c[b] <= m

Init ==
    /\ program \in DOMAIN Programs
    /\ pos = [a \in Agents |-> 0]
    /\ known = [a \in Agents |-> pos]
    /\ handed = [c \in P.cores |-> <<>>]
    /\ flag = [e \in DOMAIN P.waits |-> <<>>]
    /\ mem = [b \in P.buffers |-> [writer |-> 0, readers |-> {}]]

-----------------------------------------------------------------------------
(* a executes its current instruction and knows clock then. *)
Advance(a, clock) ==
    LET now == [clock EXCEPT ![a] = pos[a] + 1]
    IN /\ pos' = [pos EXCEPT ![a] = @ + 1]
       /\ known' = [known EXCEPT ![a] = now]
       /\ handed' = IF a[2] = "S" THEN [handed EXCEPT ![a[1]] = Append(@, now)] ELSE handed
       /\ UNCHANGED program

Set(a) ==
    /\ Instruction(a).op = "set"
    /\ LET clock == [Knowledge(a) EXCEPT ![a] = pos[a] + 1]
       IN /\ flag' = [e \in DOMAIN flag |->
                        IF e \in Instruction(a).events THEN Append(flag[e], clock) ELSE flag[e]]
          /\ Advance(a, clock)
    /\ UNCHANGED mem

Wait(a) ==
    /\ Instruction(a).op = "wait"
    /\ flag' = [e \in DOMAIN flag |->
                  IF e \in Instruction(a).events THEN Tail(flag[e]) ELSE flag[e]]
    /\ LET told == {Head(flag[e]) : e \in Instruction(a).events} \cup {Knowledge(a)}
       IN Advance(a, [b \in Agents |-> Latest(told, b)])
    /\ UNCHANGED mem

Transfer(a) ==
    /\ Instruction(a).op = "do"
    /\ LET ins == Instruction(a)
       IN mem' = [b \in DOMAIN mem |->
                    IF b = ins.dst THEN [writer |-> Current(a), readers |-> {}]
                    ELSE IF b \in ins.srcs THEN [mem[b] EXCEPT !.readers = @ \cup {Current(a)}]
                    ELSE mem[b]]
    /\ Advance(a, Knowledge(a))
    /\ UNCHANGED flag

Step(a) == Ready(a) /\ (Set(a) \/ Wait(a) \/ Transfer(a))

Next ==
    \/ P.anyOrder /\ \E a \in Agents : Step(a)
    \/ ~P.anyOrder /\ \E a \in {b \in Agents : Ready(b)} :
         /\ a = CHOOSE b \in Agents : Ready(b)
         /\ Step(a)

(* Some agent executes what it can: every step of Next is one of these, so *)
(* this is weak fairness of Next.                                          *)
Progress == \E a \in Agents : Ready(a) /\ pos' = [pos EXCEPT ![a] = @ + 1]

Spec == Init /\ [][Next]_vars /\ WF_pos(Progress)

-----------------------------------------------------------------------------
(* Agent a is at a transfer or a calculation: nothing holds it up, so from *)
(* now on it may be touching its buffers at any moment.                    *)
Active(a) == Busy(a) /\ Issued(a) /\ Instruction(a).op = "do"

(* No agent touches a buffer that another one may be writing, or writes    *)
(* one that another one may be reading: what it conflicts with happens     *)
(* before.  An L1, L0 or UB buffer is loaded only when its last reader is  *)
(* through, from one call of a block to the next; a part of the workspace  *)
(* is written only when the other cores have read what was there; and a    *)
(* signal about a tile is sent only when the tile has been copied.         *)
NoRace ==
    \A a \in Agents :
        Active(a) =>
            /\ \A b \in Instruction(a).srcs \cup {Instruction(a).dst} : Knows(a, mem[b].writer)
            /\ \A n \in mem[Instruction(a).dst].readers : Knows(a, n)

(* Every transfer and calculation finds in its source buffers what running *)
(* the stream strictly in order would have put there: no tile is           *)
(* overwritten before its last part has been taken from it, none is taken  *)
(* before it has arrived.                                                  *)
ReadsInOrder ==
    \A a \in Agents :
        Active(a) =>
            \A b \in Instruction(a).srcs : mem[b].writer = P.inOrder[Current(a)][b]

(* At most limit sets of e are unconsumed when a has made its next one:    *)
(* the waits for those before them happen before it.                       *)
Within(limit, a, e) ==
    LET consumed == P.nth[Current(a)][e] - limit
    IN consumed > 0 => consumed <= Len(P.waits[e]) /\ Knows(a, P.waits[e][consumed])

(* No event is ever set more often, ahead of its waits, than the buffers   *)
(* it guards are many, and no cross core flag is set more often than the   *)
(* hardware can count (arch/cross_core_sync.hpp:19-23), however slow the   *)
(* waiting core is.                                                        *)
FlagsHold ==
    \A a \in Agents :
        (Busy(a) /\ Issued(a) /\ Instruction(a).op = "set") =>
            \A e \in Instruction(a).events :
                Within(IF Len(e) = 4 THEN PipeLimit ELSE FlagLimit, a, e)

AllDone == \A a \in Agents : ~Busy(a)

(* When the streams have been executed no event is left set for the next   *)
(* user of the core: destructors and loop ends take back all that was set, *)
(* however many tiles there were, none included.                           *)
Drained == AllDone => \A e \in DOMAIN flag : flag[e] = <<>>

(* When the streams have been executed the results in memory are right:    *)
(* every block is the sum of the products of all of its k parts, each      *)
(* taken once, although the accumulator is kept from part to part and used *)
(* again by every block; every tile of a reduction is the sum over all     *)
(* that is to be added up, each once; every tile is where it belongs.      *)
DeliversResults == AllDone => P.stored = P.expected

(* Every agent gets to the end of its instructions. *)
Termination == <>AllDone
==============================================================================
