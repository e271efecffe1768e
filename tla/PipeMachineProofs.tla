-------------------------- MODULE PipeMachineProofs --------------------------
(***************************************************************************)
(* Why one run of a stream in one order shows what every order would show. *)
(*                                                                         *)
(* No step of an agent takes away what another one can do next, so an      *)
(* instruction has the same past in every order: what comes RightBefore    *)
(* it, and what comes right before that.  A table K of vector clocks says  *)
(* of every instruction how many steps of each agent are in its past.      *)
(*                                                                         *)
(* Base(p, K) ties the variables of the machine to such a table: what an   *)
(* agent knows, what a scalar unit has handed on and what is left of every *)
(* event are entries of K, and MemIs(p, K) that a buffer remembers the     *)
(* last writer, and the readers since, of this past.  A step of any agent  *)
(* keeps both, with the clock of its instruction entered into the table.   *)
(*                                                                         *)
(* With it a run to the end leaves a complete table, and the properties    *)
(* that held in that run are facts about the table (OneRunDecides,         *)
(* Verdict).  Such a table is in turn the one of every other run, since    *)
(* an instruction can have one clock only (SameClock), so the properties   *)
(* hold in any order (EveryOrder), and as an instruction with the smallest *)
(* past is never held up, no order gets stuck (EveryOrderGoesOn).          *)
(***************************************************************************)
EXTENDS PipeMachine, FiniteSetTheorems, SequenceTheorems, WellFoundedInduction, TLAPS

(* The agent that executes n. *)
AgentOf(p, n) == p.ins[n].agent

(* What n comes right after: the instruction before it in the queue of its *)
(* agent, the last one of the scalar unit before n is handed out, and the  *)
(* settings of events that n consumes.                                     *)
RightBefore(p, m, n) ==
    \/ p.place[n] > 1 /\ m = p.queue[AgentOf(p, n)][p.place[n] - 1]
    \/ p.needs[n] > 0 /\ m = p.queue[ScalarOf(AgentOf(p, n))][p.needs[n]]
    \/ /\ p.ins[n].op = "wait"
       /\ \E e \in p.ins[n].events :
            p.nth[n][e] \in DOMAIN p.sets[e] /\ m = p.sets[e][p.nth[n][e]]

(* Tables of clocks: K[n][b] is how many steps of b happen before n or are *)
(* n.                                                                      *)
Clocks(p) == [DOMAIN p.ins -> [DOMAIN p.queue -> Nat]]

(* m happens before n, or is n. *)
Before(p, K, m, n) == p.place[m] <= K[n][AgentOf(p, m)]

(* clock is n's own step and all that what it comes right after knows. *)
Joins(p, K, n, clock) ==
    /\ clock \in [DOMAIN p.queue -> Nat]
    /\ clock[AgentOf(p, n)] = p.place[n]
    /\ \A m \in DOMAIN p.ins : RightBefore(p, m, n) =>
         \A b \in DOMAIN p.queue : K[m][b] <= clock[b]
    /\ \A b \in DOMAIN p.queue \ {AgentOf(p, n)} :
         clock[b] = 0 \/ \E m \in DOMAIN p.ins : RightBefore(p, m, n) /\ K[m][b] = clock[b]

(* What n does to buffer b. *)
Writes(p, n, b) == p.ins[n].op = "do" /\ p.ins[n].dst = b

Reads(p, n, b) == p.ins[n].op = "do" /\ b \in p.ins[n].srcs

-----------------------------------------------------------------------------
(* What the instructions in D are like that have been executed.            *)

(* Their clocks are those of what they come right after. *)
ClockOK(p, K, D) == \A n \in D : Joins(p, K, n, K[n])

(* Happening before is an order, and what is before an instruction is in   *)
(* its past with its own past.                                             *)
OrderOK(p, K, D) ==
    \A m, n \in D :
        Before(p, K, m, n) =>
            /\ \A b \in DOMAIN p.queue : K[m][b] <= K[n][b]
            /\ m # n => ~Before(p, K, n, m)

(* Of two that touch a buffer, at least one of them to write it, one       *)
(* happens before the other.                                               *)
RaceOK(p, K, D) ==
    \A m, n \in D : \A b \in p.buffers :
        (m # n /\ Writes(p, m, b) /\ (Writes(p, n, b) \/ Reads(p, n, b))) =>
            Before(p, K, m, n) \/ Before(p, K, n, m)

(* What n takes from a buffer is in it when n is executed: its source in   *)
(* the strict order happens before it, and every other writer that does    *)
(* happens before the source.                                              *)
ReadOK(p, K, D) ==
    \A n \in D : \A b \in p.buffers :
        Reads(p, n, b) =>
            LET source == p.inOrder[n][b]
            IN /\ source # 0 => /\ source \in D /\ source # n
                                /\ Writes(p, source, b) /\ Before(p, K, source, n)
               /\ \A m \in D : (Writes(p, m, b) /\ m # n /\ Before(p, K, m, n)) =>
                    source # 0 /\ (m = source \/ Before(p, K, m, source))

(* Pipe events are named by four fields, see FlagsHold. *)
Limit(e) == IF Len(e) = 4 THEN PipeLimit ELSE FlagLimit

(* The sets of an event that are too long ago to be unconsumed have been   *)
(* consumed before.                                                        *)
FlagOK(p, K, D) ==
    \A n \in D : p.ins[n].op = "set" =>
        \A e \in p.ins[n].events :
            LET consumed == p.nth[n][e] - Limit(e)
            IN consumed > 0 =>
                 consumed <= Len(p.waits[e]) /\ Before(p, K, p.waits[e][consumed], n)

-----------------------------------------------------------------------------
(* What has been executed. *)
Ran(p, n) == p.place[n] <= pos[AgentOf(p, n)]

Done(p) == {n \in DOMAIN p.ins : Ran(p, n)}

(* The types of the variables. *)
Types(p) ==
    LET agents == DOMAIN p.queue
    IN /\ pos \in [agents -> Nat]
       /\ \A a \in agents : pos[a] <= Len(p.queue[a])
       /\ known \in [agents -> [agents -> Nat]]
       /\ handed \in [p.cores -> Seq([agents -> Nat])]
       /\ flag \in [DOMAIN p.waits -> Seq([agents -> Nat])]
       /\ mem \in [p.buffers -> [writer : {0} \cup DOMAIN p.ins, readers : SUBSET DOMAIN p.ins]]

(* What an agent knows is the clock of its last instruction. *)
KnownIs(p, K) ==
    \A a, b \in DOMAIN p.queue :
        known[a][b] = IF pos[a] = 0 THEN 0 ELSE K[p.queue[a][pos[a]]][b]

(* What a scalar unit hands on are the clocks of its instructions. *)
HandedIs(p, K) ==
    \A a \in DOMAIN p.queue : a = ScalarOf(a) =>
        /\ Len(handed[a[1]]) = pos[a]
        /\ \A i \in 1..pos[a] : handed[a[1]][i] = K[p.queue[a][i]]

(* The first s sets of an event and the first w waits for it have been     *)
(* executed, and the clocks of the sets in between are left.               *)
FlagIs(p, K, e, w, s) ==
    /\ w <= s /\ s <= Len(p.sets[e]) /\ w <= Len(p.waits[e])
    /\ Len(flag[e]) = s - w
    /\ \A i \in 1..Len(flag[e]) : flag[e][i] = K[p.sets[e][w + i]]
    /\ \A i \in 1..Len(p.sets[e]) : Ran(p, p.sets[e][i]) <=> i <= s
    /\ \A i \in 1..Len(p.waits[e]) : Ran(p, p.waits[e][i]) <=> i <= w

FlagsAre(p, K) == \A e \in DOMAIN p.waits : \E w, s \in Nat : FlagIs(p, K, e, w, s)

(* The clocks say of no agent more than it has done. *)
Truthful(p, K) == \A n \in Done(p) : \A b \in DOMAIN p.queue : K[n][b] <= pos[b]

(* No instruction has been executed ahead of what it comes right after. *)
Closed(p) == \A n \in Done(p) : \A m : RightBefore(p, m, n) => m \in Done(p)

(* The variables are what the table K says. *)
Base(p, K) ==
    /\ Types(p) /\ K \in Clocks(p) /\ Closed(p)
    /\ KnownIs(p, K) /\ HandedIs(p, K) /\ FlagsAre(p, K)
    /\ Truthful(p, K) /\ ClockOK(p, K, Done(p)) /\ OrderOK(p, K, Done(p))

(* A buffer knows the last of its writers, and those of its readers that   *)
(* do not happen before it.                                                *)
MemIs(p, K) ==
    \A b \in p.buffers :
        LET w == mem[b].writer
        IN /\ w # 0 => w \in Done(p) /\ Writes(p, w, b)
           /\ \A r \in mem[b].readers : r \in Done(p) /\ Reads(p, r, b)
           /\ \A m \in Done(p) : Writes(p, m, b) => w # 0 /\ (m = w \/ Before(p, K, m, w))
           /\ \A m \in Done(p) : Reads(p, m, b) =>
                m \in mem[b].readers \/ (w # 0 /\ (m = w \/ Before(p, K, m, w)))

-----------------------------------------------------------------------------
(* An instruction is where its place says in the queue of its agent.       *)
LEMMA QueueOf ==
    ASSUME NEW p, WellFormed(p)
    PROVE  /\ \A a \in DOMAIN p.queue : \A i \in 1..Len(p.queue[a]) :
                /\ p.queue[a][i] \in DOMAIN p.ins
                /\ AgentOf(p, p.queue[a][i]) = a /\ p.place[p.queue[a][i]] = i
           /\ \A a \in DOMAIN p.queue : Len(p.queue[a]) \in Nat
           /\ \A n \in DOMAIN p.ins :
                /\ AgentOf(p, n) \in DOMAIN p.queue
                /\ p.place[n] \in 1..Len(p.queue[AgentOf(p, n)])
                /\ p.queue[AgentOf(p, n)][p.place[n]] = n
<1>1. \A a \in DOMAIN p.queue : p.queue[a] \in Seq(DOMAIN p.ins)
  BY DEF WellFormed
<1>2. \A a \in DOMAIN p.queue : Len(p.queue[a]) \in Nat /\ DOMAIN p.queue[a] = 1..Len(p.queue[a])
  BY <1>1, LenProperties
<1>3. \A a \in DOMAIN p.queue : \A i \in 1..Len(p.queue[a]) : p.queue[a][i] \in DOMAIN p.ins
  BY <1>1, ElementOfSeq
<1>4. \A a \in DOMAIN p.queue : \A i \in DOMAIN p.queue[a] :
         p.ins[p.queue[a][i]].agent = a /\ p.place[p.queue[a][i]] = i
  BY DEF WellFormed
<1>5. \A n \in DOMAIN p.ins : /\ p.ins[n].agent \in DOMAIN p.queue
                              /\ p.place[n] \in DOMAIN p.queue[p.ins[n].agent]
                              /\ p.queue[p.ins[n].agent][p.place[n]] = n
  BY DEF WellFormed
<1> QED
  BY <1>2, <1>3, <1>4, <1>5 DEF AgentOf

(* The instruction an agent is at is the first one it has not executed.    *)
LEMMA AtCurrent ==
    ASSUME NEW p, WellFormed(p), Types(p), P = p, NEW a \in DOMAIN p.queue, Busy(a)
    PROVE  /\ Current(a) \in DOMAIN p.ins /\ Current(a) = p.queue[a][pos[a] + 1]
           /\ AgentOf(p, Current(a)) = a /\ p.place[Current(a)] = pos[a] + 1
           /\ pos[a] + 1 \in 1..Len(p.queue[a])
           /\ Current(a) \notin Done(p)
<1>1. pos[a] \in Nat /\ pos[a] + 1 \in 1..Len(p.queue[a])
  BY QueueOf DEF Types, Busy
<1>2. Current(a) = p.queue[a][pos[a] + 1]
  BY DEF Current
<1>3. /\ Current(a) \in DOMAIN p.ins /\ AgentOf(p, Current(a)) = a
      /\ p.place[Current(a)] = pos[a] + 1
  BY <1>1, <1>2, QueueOf
<1> QED
  BY <1>1, <1>2, <1>3 DEF Done, Ran

(* What an event has been set by and waited for by. *)
LEMMA UsesOf ==
    ASSUME NEW p, WellFormed(p), NEW e \in DOMAIN p.waits
    PROVE  /\ Len(p.sets[e]) \in Nat /\ Len(p.waits[e]) \in Nat
           /\ \A i \in 1..Len(p.sets[e]) :
                /\ p.sets[e][i] \in DOMAIN p.ins /\ p.ins[p.sets[e][i]].op = "set"
                /\ e \in p.ins[p.sets[e][i]].events /\ p.nth[p.sets[e][i]][e] = i
           /\ \A i \in 1..Len(p.waits[e]) :
                /\ p.waits[e][i] \in DOMAIN p.ins /\ p.ins[p.waits[e][i]].op = "wait"
                /\ e \in p.ins[p.waits[e][i]].events /\ p.nth[p.waits[e][i]][e] = i
<1>1. Uses(p, p.sets[e], "set", e) /\ Uses(p, p.waits[e], "wait", e)
  BY DEF WellFormed
<1>2. ASSUME NEW seq, NEW op, Uses(p, seq, op, e)
      PROVE  /\ Len(seq) \in Nat
             /\ \A i \in 1..Len(seq) :
                  /\ seq[i] \in DOMAIN p.ins /\ p.ins[seq[i]].op = op
                  /\ e \in p.ins[seq[i]].events /\ p.nth[seq[i]][e] = i
  <2>1. seq \in Seq(DOMAIN p.ins)
    BY <1>2 DEF Uses
  <2>2. Len(seq) \in Nat /\ DOMAIN seq = 1..Len(seq) /\ \A i \in 1..Len(seq) : seq[i] \in DOMAIN p.ins
    BY <2>1, LenProperties, ElementOfSeq
  <2> QED
    BY <1>2, <2>2 DEF Uses
<1> QED
  BY <1>1, <1>2

(* The sets of an event are executed one after the other, and so are the   *)
(* waits for it.                                                           *)
LEMMA InTurn ==
    ASSUME NEW p, WellFormed(p), NEW e \in DOMAIN p.waits
    PROVE  /\ DOMAIN p.sets[e] = 1..Len(p.sets[e]) /\ DOMAIN p.waits[e] = 1..Len(p.waits[e])
           /\ \A i \in 2..Len(p.sets[e]) : Follows(p, p.sets[e][i], p.sets[e][i - 1])
           /\ \A i \in 2..Len(p.waits[e]) :
                /\ AgentOf(p, p.waits[e][i]) = AgentOf(p, p.waits[e][i - 1])
                /\ p.place[p.waits[e][i - 1]] < p.place[p.waits[e][i]]
<1>1. /\ Uses(p, p.sets[e], "set", e) /\ Uses(p, p.waits[e], "wait", e)
      /\ \A i \in 2..Len(p.sets[e]) : Follows(p, p.sets[e][i], p.sets[e][i - 1])
      /\ \A i \in 2..Len(p.waits[e]) :
           /\ p.ins[p.waits[e][i]].agent = p.ins[p.waits[e][i - 1]].agent
           /\ p.place[p.waits[e][i - 1]] < p.place[p.waits[e][i]]
  BY DEF WellFormed
<1>2. p.sets[e] \in Seq(DOMAIN p.ins) /\ p.waits[e] \in Seq(DOMAIN p.ins)
  BY <1>1 DEF Uses
<1>3. DOMAIN p.sets[e] = 1..Len(p.sets[e]) /\ DOMAIN p.waits[e] = 1..Len(p.waits[e])
  BY <1>2, LenProperties
<1> QED
  BY <1>1, <1>3 DEF AgentOf

(* An instruction is where its number says among those of its event. *)
LEMMA NthOf ==
    ASSUME NEW p, WellFormed(p), NEW n \in DOMAIN p.ins, NEW e \in p.ins[n].events
    PROVE  /\ p.ins[n].op = "set" =>
                /\ e \in DOMAIN p.waits /\ p.nth[n][e] \in 1..Len(p.sets[e])
                /\ p.sets[e][p.nth[n][e]] = n
           /\ p.ins[n].op = "wait" =>
                /\ e \in DOMAIN p.waits /\ p.nth[n][e] \in 1..Len(p.waits[e])
                /\ p.waits[e][p.nth[n][e]] = n
<1>1. p.ins[n].op # "do" =>
         /\ e \in DOMAIN p.waits
         /\ p.ins[n].op = "set" =>
              p.nth[n][e] \in DOMAIN p.sets[e] /\ p.sets[e][p.nth[n][e]] = n
         /\ p.ins[n].op = "wait" =>
              p.nth[n][e] \in DOMAIN p.waits[e] /\ p.waits[e][p.nth[n][e]] = n
  BY DEF WellFormed
<1>2. ASSUME e \in DOMAIN p.waits
      PROVE  DOMAIN p.sets[e] = 1..Len(p.sets[e]) /\ DOMAIN p.waits[e] = 1..Len(p.waits[e])
  BY <1>2, InTurn
<1> QED
  BY <1>1, <1>2

(* What an instruction needs is an instruction of its scalar unit. *)
LEMMA NeedsOf ==
    ASSUME NEW p, WellFormed(p), NEW n \in DOMAIN p.ins
    PROVE  LET scalar == ScalarOf(AgentOf(p, n))
           IN /\ p.needs[n] \in Nat
              /\ p.needs[n] > 0 =>
                   scalar \in DOMAIN p.queue /\ p.needs[n] \in 1..Len(p.queue[scalar])
              /\ AgentOf(p, n) = scalar => p.needs[n] = p.place[n] - 1
<1> DEFINE scalar == ScalarOf(AgentOf(p, n))
<1>1. /\ p.needs[n] \in Nat
      /\ p.needs[n] > 0 => scalar \in DOMAIN p.queue /\ p.needs[n] \in DOMAIN p.queue[scalar]
      /\ AgentOf(p, n) = scalar => p.needs[n] = p.place[n] - 1
  BY DEF WellFormed, AgentOf
<1>2. scalar \in DOMAIN p.queue => DOMAIN p.queue[scalar] = 1..Len(p.queue[scalar])
  <2> HIDE DEF scalar
  <2> QED
    BY LenProperties DEF WellFormed
<1> QED
  BY <1>1, <1>2

(* What the scalar unit is ahead of has been executed by it. *)
LEMMA ScalarAhead ==
    ASSUME NEW p, WellFormed(p), Types(p), P = p, NEW a \in DOMAIN p.queue, Busy(a), Issued(a),
           p.needs[Current(a)] > 0
    PROVE  /\ ScalarOf(a) \in DOMAIN p.queue
           /\ p.needs[Current(a)] \in 1..Len(p.queue[ScalarOf(a)])
           /\ p.needs[Current(a)] <= pos[ScalarOf(a)]
<1>1. Current(a) \in DOMAIN p.ins /\ AgentOf(p, Current(a)) = a
  BY AtCurrent
<1>2. p.needs[Current(a)] \in Nat /\ ScalarOf(a) \in DOMAIN p.queue
      /\ p.needs[Current(a)] \in 1..Len(p.queue[ScalarOf(a)])
  BY <1>1, NeedsOf
<1>3. pos[ScalarOf(a)] \in Nat /\ pos[ScalarOf(a)] >= p.needs[Current(a)]
  BY <1>2 DEF Issued, Types
<1> QED
  BY <1>2, <1>3

(* The current instruction of an agent is the next one to wait for, or to  *)
(* set, each of its events.                                                *)
LEMMA NextWait ==
    ASSUME NEW p, WellFormed(p), Types(p), P = p, NEW K, FlagsAre(p, K),
           NEW a \in DOMAIN p.queue, Busy(a),
           NEW e \in p.ins[Current(a)].events, p.ins[Current(a)].op = "wait",
           NEW w \in Nat, NEW s \in Nat, FlagIs(p, K, e, w, s)
    PROVE  p.nth[Current(a)][e] = w + 1
<1> DEFINE n == Current(a)
           i == p.nth[n][e]
<1>1. /\ n \in DOMAIN p.ins /\ AgentOf(p, n) = a /\ p.place[n] = pos[a] + 1 /\ ~Ran(p, n)
      /\ pos[a] \in Nat
  BY AtCurrent DEF Done, Types
<1> HIDE DEF n
<1>2. e \in DOMAIN p.waits /\ i \in 1..Len(p.waits[e]) /\ p.waits[e][i] = n
  BY <1>1, NthOf DEF n
<1> SUFFICES i = w + 1
  BY DEF n
<1>3. Len(p.waits[e]) \in Nat
  BY <1>2, UsesOf
<1>4. \A j \in 1..Len(p.waits[e]) : Ran(p, p.waits[e][j]) <=> j <= w
  BY DEF FlagIs
<1> HIDE DEF i
<1>5. i > w
  BY <1>1, <1>2, <1>3, <1>4
<1>6. CASE i = 1
  BY <1>5, <1>6
<1>7. CASE i > 1
  <2>1. i \in 2..Len(p.waits[e]) /\ i - 1 \in 1..Len(p.waits[e])
    BY <1>2, <1>3, <1>7
  <2>2. /\ AgentOf(p, p.waits[e][i - 1]) = AgentOf(p, p.waits[e][i])
        /\ p.place[p.waits[e][i - 1]] < p.place[p.waits[e][i]]
    BY <1>2, <2>1, InTurn
  <2>3. p.waits[e][i - 1] \in DOMAIN p.ins
    BY <1>2, <2>1, UsesOf
  <2>4. p.place[p.waits[e][i - 1]] \in Int
    BY <2>3, QueueOf
  <2>5. Ran(p, p.waits[e][i - 1])
    BY <1>1, <1>2, <2>2, <2>4 DEF Ran
  <2> QED
    BY <1>2, <1>3, <1>4, <1>5, <2>1, <2>5
<1> QED
  BY <1>2, <1>3, <1>6, <1>7

(* For a set this is so although several agents may set the event: the     *)
(* set before it is waited for by the scalar unit that hands this one out. *)
LEMMA NextSet ==
    ASSUME NEW p, WellFormed(p), Types(p), P = p, NEW K, FlagsAre(p, K),
           NEW a \in DOMAIN p.queue, Busy(a), Issued(a),
           NEW e \in p.ins[Current(a)].events, p.ins[Current(a)].op = "set",
           NEW w \in Nat, NEW s \in Nat, FlagIs(p, K, e, w, s)
    PROVE  p.nth[Current(a)][e] = s + 1
<1> DEFINE n == Current(a)
           i == p.nth[n][e]
           m == p.sets[e][i - 1]
<1>1. /\ n \in DOMAIN p.ins /\ AgentOf(p, n) = a /\ p.place[n] = pos[a] + 1 /\ ~Ran(p, n)
      /\ pos[a] \in Nat
  BY AtCurrent DEF Done, Types
<1>s. p.needs[n] > 0 => p.needs[n] <= pos[ScalarOf(a)] /\ pos[ScalarOf(a)] \in Nat
  BY ScalarAhead DEF Types
<1>0. p.needs[n] \in Nat
  BY <1>1, NeedsOf
<1> HIDE DEF n
<1>2. e \in DOMAIN p.waits /\ i \in 1..Len(p.sets[e]) /\ p.sets[e][i] = n
  BY <1>1, NthOf DEF n
<1> SUFFICES i = s + 1
  BY DEF n
<1>3. Len(p.sets[e]) \in Nat
  BY <1>2, UsesOf
<1>4. \A j \in 1..Len(p.sets[e]) : Ran(p, p.sets[e][j]) <=> j <= s
  BY DEF FlagIs
<1> HIDE DEF i
<1>5. i > s
  BY <1>1, <1>2, <1>3, <1>4
<1>6. CASE i = 1
  BY <1>5, <1>6
<1>7. CASE i > 1
  <2>1. i \in 2..Len(p.sets[e]) /\ i - 1 \in 1..Len(p.sets[e])
    BY <1>2, <1>3, <1>7
  <2>2. Follows(p, n, m)
    BY <1>2, <2>1, InTurn
  <2>3. m \in DOMAIN p.ins /\ p.ins[m].op = "set"
    BY <1>2, <2>1, UsesOf
  <2> HIDE DEF m
  <2>4. p.place[m] \in Int
    BY <2>3, QueueOf
  <2>5. ASSUME p.ins[m].agent = p.ins[n].agent, p.place[m] < p.place[n]
        PROVE  Ran(p, m)
    BY <1>1, <2>4, <2>5 DEF Ran, AgentOf
  <2>6. ASSUME NEW f \in p.ins[m].events, p.nth[m][f] \in DOMAIN p.waits[f],
               p.ins[p.waits[f][p.nth[m][f]]].agent = ScalarOf(p.ins[n].agent),
               p.place[p.waits[f][p.nth[m][f]]] <= p.needs[n]
        PROVE  Ran(p, m)
    <3> DEFINE j == p.nth[m][f]
    <3>1. f \in DOMAIN p.waits /\ j \in 1..Len(p.sets[f]) /\ p.sets[f][j] = m
      BY <2>3, NthOf
    <3>2. DOMAIN p.waits[f] = 1..Len(p.waits[f]) /\ Len(p.waits[f]) \in Nat /\ Len(p.sets[f]) \in Nat
      BY <3>1, InTurn, UsesOf
    <3>a. j \in 1..Len(p.waits[f])
      BY <2>6, <3>2
    <3>3. j \in 1..Len(p.waits[f]) /\ p.waits[f][j] \in DOMAIN p.ins
      <4> HIDE DEF j
      <4> QED
        BY <3>1, <3>a, UsesOf
    <3>4. p.place[p.waits[f][j]] \in Nat /\ p.place[p.waits[f][j]] > 0
      BY <3>3, QueueOf
    <3>5. Ran(p, p.waits[f][j])
      BY <1>0, <1>1, <1>s, <2>6, <3>4 DEF Ran, AgentOf
    <3>6. PICK v, t \in Nat : FlagIs(p, K, f, v, t)
      BY <3>1 DEF FlagsAre
    <3> HIDE DEF j
    <3>7. j <= v
      BY <3>3, <3>5, <3>6 DEF FlagIs
    <3>8. j <= t
      BY <3>1, <3>2, <3>6, <3>7 DEF FlagIs
    <3> QED
      BY <3>1, <3>6, <3>8 DEF FlagIs
  <2>7. Ran(p, m)
    BY <2>2, <2>5, <2>6 DEF Follows
  <2> QED
    BY <1>2, <1>3, <1>4, <1>5, <2>1, <2>7 DEF m
<1> QED
  BY <1>2, <1>3, <1>6, <1>7

(* A wait that can be executed consumes the oldest set that is left, the   *)
(* one with its own number, and learns what its setter knew.               *)
LEMMA HeadIs ==
    ASSUME NEW p, WellFormed(p), Types(p), P = p, NEW K, FlagsAre(p, K),
           NEW a \in DOMAIN p.queue, Ready(a), p.ins[Current(a)].op = "wait",
           NEW e \in p.ins[Current(a)].events
    PROVE  LET i == p.nth[Current(a)][e]
           IN /\ e \in DOMAIN p.waits /\ i \in 1..Len(p.sets[e])
              /\ p.sets[e][i] \in Done(p) /\ Head(flag[e]) = K[p.sets[e][i]]
<1>1. Busy(a) /\ flag[e] # <<>>
  BY DEF Ready, Instruction
<1>2. Current(a) \in DOMAIN p.ins
  BY <1>1, AtCurrent
<1>3. e \in DOMAIN p.waits
  BY <1>2, NthOf
<1>4. PICK w, s \in Nat : FlagIs(p, K, e, w, s)
  BY <1>3 DEF FlagsAre
<1>5. p.nth[Current(a)][e] = w + 1
  BY <1>1, <1>4, NextWait
<1>6. flag[e] \in Seq([DOMAIN p.queue -> Nat])
  BY <1>3 DEF Types
<1>7. Len(flag[e]) \in Nat /\ Len(flag[e]) > 0 /\ Head(flag[e]) = flag[e][1]
  BY <1>1, <1>6, HeadTailProperties, EmptySeq, LenProperties
<1>8. Len(p.sets[e]) \in Nat
  BY <1>3, UsesOf
<1>9. w + 1 \in 1..Len(p.sets[e]) /\ w + 1 <= s /\ flag[e][1] = K[p.sets[e][w + 1]]
  BY <1>4, <1>7, <1>8 DEF FlagIs
<1>10. p.sets[e][w + 1] \in Done(p)
  BY <1>3, <1>4, <1>9, UsesOf DEF FlagIs, Done
<1> QED
  BY <1>3, <1>5, <1>7, <1>9, <1>10

(* What the current instruction comes right after has been executed. *)
LEMMA ComesAfter ==
    ASSUME NEW p, WellFormed(p), Types(p), P = p, NEW K, FlagsAre(p, K),
           NEW a \in DOMAIN p.queue, Ready(a), NEW m, RightBefore(p, m, Current(a))
    PROVE  m \in Done(p)
<1> DEFINE n == Current(a)
<1>1. Busy(a) /\ Issued(a)
  BY DEF Ready
<1>2. /\ n \in DOMAIN p.ins /\ AgentOf(p, n) = a /\ p.place[n] = pos[a] + 1
      /\ pos[a] + 1 \in 1..Len(p.queue[a]) /\ pos[a] \in Nat /\ Len(p.queue[a]) \in Nat
  BY <1>1, AtCurrent, QueueOf DEF Types
<1>3. p.needs[n] > 0 => /\ ScalarOf(a) \in DOMAIN p.queue
                        /\ p.needs[n] \in 1..Len(p.queue[ScalarOf(a)])
                        /\ p.needs[n] <= pos[ScalarOf(a)]
  BY <1>1, ScalarAhead
<1>4. p.ins[n].op = "wait" => \A e \in p.ins[n].events : p.sets[e][p.nth[n][e]] \in Done(p)
  BY HeadIs
<1> HIDE DEF n
<1>5. CASE p.place[n] > 1 /\ m = p.queue[a][p.place[n] - 1]
  <2>1. p.place[n] - 1 \in 1..Len(p.queue[a]) /\ p.place[n] - 1 <= pos[a]
    BY <1>2, <1>5
  <2>2. m \in DOMAIN p.ins /\ AgentOf(p, m) = a /\ p.place[m] = p.place[n] - 1
    BY <1>5, <2>1, QueueOf
  <2> QED
    BY <2>1, <2>2 DEF Done, Ran
<1>6. CASE p.needs[n] > 0 /\ m = p.queue[ScalarOf(a)][p.needs[n]]
  <2>2. m \in DOMAIN p.ins /\ AgentOf(p, m) = ScalarOf(a) /\ p.place[m] = p.needs[n]
    BY <1>3, <1>6, QueueOf
  <2> QED
    BY <1>3, <1>6, <2>2 DEF Done, Ran
<1>7. RightBefore(p, m, n)
  BY DEF n
<1> QED
  BY <1>2, <1>4, <1>5, <1>6, <1>7 DEF RightBefore

(* An agent has learnt of its own steps so far and of what the scalar unit *)
(* knew.                                                                   *)
LEMMA LearntIs ==
    ASSUME NEW p, WellFormed(p), Types(p), P = p, NEW K \in Clocks(p), KnownIs(p, K), HandedIs(p, K),
           NEW a \in DOMAIN p.queue, Busy(a), Issued(a), NEW b \in DOMAIN p.queue
    PROVE  LET n == Current(a)
               own == p.queue[a][p.place[n] - 1]
               handing == p.queue[ScalarOf(a)][p.needs[n]]
           IN /\ Learnt(a, b) \in Nat
              /\ p.place[n] > 1 => own \in DOMAIN p.ins /\ K[own][b] <= Learnt(a, b)
              /\ p.needs[n] > 0 => handing \in DOMAIN p.ins /\ K[handing][b] <= Learnt(a, b)
              /\ \/ Learnt(a, b) = 0
                 \/ p.place[n] > 1 /\ Learnt(a, b) = K[own][b]
                 \/ p.needs[n] > 0 /\ Learnt(a, b) = K[handing][b]
<1> DEFINE n == Current(a)
           own == p.queue[a][p.place[n] - 1]
           handing == p.queue[ScalarOf(a)][p.needs[n]]
<1>1. /\ n \in DOMAIN p.ins /\ AgentOf(p, n) = a /\ p.place[n] = pos[a] + 1
      /\ pos[a] + 1 \in 1..Len(p.queue[a]) /\ pos[a] \in Nat /\ Len(p.queue[a]) \in Nat
  BY AtCurrent, QueueOf DEF Types
<1>2. p.needs[n] \in Nat /\ (a = ScalarOf(a) => p.needs[n] = p.place[n] - 1)
  BY <1>1, NeedsOf
<1>3. p.needs[n] > 0 => /\ ScalarOf(a) \in DOMAIN p.queue
                        /\ p.needs[n] \in 1..Len(p.queue[ScalarOf(a)])
                        /\ p.needs[n] \in 1..pos[ScalarOf(a)]
  <2> SUFFICES ASSUME p.needs[n] > 0
               PROVE  /\ ScalarOf(a) \in DOMAIN p.queue
                      /\ p.needs[n] \in 1..Len(p.queue[ScalarOf(a)])
                      /\ p.needs[n] \in 1..pos[ScalarOf(a)]
    OBVIOUS
  <2>1. /\ ScalarOf(a) \in DOMAIN p.queue
        /\ p.needs[n] \in 1..Len(p.queue[ScalarOf(a)])
        /\ p.needs[n] <= pos[ScalarOf(a)]
    BY ScalarAhead
  <2>2. pos[ScalarOf(a)] \in Nat
    BY <2>1 DEF Types
  <2> HIDE DEF n
  <2> QED
    BY <1>2, <2>1, <2>2
<1>4. a[2] = "S" => a = ScalarOf(a)
  <2>1. a \in p.cores \X STRING
    BY DEF WellFormed
  <2>2. a = <<a[1], a[2]>>
    BY <2>1
  <2> QED
    BY <2>2 DEF ScalarOf
<1>5. Learnt(a, b) = IF p.needs[n] = 0 \/ a[2] = "S" \/ known[a][b] >= handed[a[1]][p.needs[n]][b]
                     THEN known[a][b] ELSE handed[a[1]][p.needs[n]][b]
  BY DEF Learnt
<1>6. known[a][b] = IF p.place[n] = 1 THEN 0 ELSE K[own][b]
  BY <1>1 DEF KnownIs
<1>7. p.place[n] > 1 => own \in DOMAIN p.ins /\ K[own][b] \in Nat
  <2>1. p.place[n] > 1 => p.place[n] - 1 \in 1..Len(p.queue[a])
    BY <1>1
  <2>2. p.place[n] > 1 => own \in DOMAIN p.ins
    <3> HIDE DEF n
    <3> QED
      BY <2>1, QueueOf
  <2> QED
    BY <2>2 DEF Clocks
<1>8. p.needs[n] > 0 => handed[a[1]][p.needs[n]] = K[handing]
  <2>1. ScalarOf(a) = ScalarOf(ScalarOf(a)) /\ ScalarOf(a)[1] = a[1]
    BY DEF ScalarOf
  <2> QED
    BY <1>3, <2>1 DEF HandedIs
<1>9. p.needs[n] > 0 => handing \in DOMAIN p.ins /\ K[handing][b] \in Nat
  BY <1>3, QueueOf DEF Clocks
<1>10. a[2] = "S" /\ p.needs[n] > 0 => handing = own
  BY <1>2, <1>4
<1> HIDE DEF own, handing, n
<1>a. p.place[n] = 1 \/ p.place[n] > 1
  BY <1>1
<1>b. p.needs[n] = 0 \/ p.needs[n] > 0
  BY <1>2
<1>11. /\ Learnt(a, b) \in Nat
       /\ p.place[n] > 1 => own \in DOMAIN p.ins /\ K[own][b] <= Learnt(a, b)
       /\ p.needs[n] > 0 => handing \in DOMAIN p.ins /\ K[handing][b] <= Learnt(a, b)
       /\ \/ Learnt(a, b) = 0
          \/ p.place[n] > 1 /\ Learnt(a, b) = K[own][b]
          \/ p.needs[n] > 0 /\ Learnt(a, b) = K[handing][b]
  <2>1. CASE p.needs[n] = 0
    BY <1>5, <1>6, <1>7, <1>a, <2>1
  <2>2. CASE p.needs[n] > 0 /\ a[2] = "S"
    <3>1. p.place[n] > 1
      <4>1. p.needs[n] = p.place[n] - 1
        BY <1>2, <1>4, <2>2
      <4>2. p.needs[n] > 0 /\ p.needs[n] \in Nat /\ p.place[n] \in Nat
        BY <1>1, <1>2, <2>2
      <4> QED
        BY <4>1, <4>2
    <3>2. Learnt(a, b) = K[own][b]
      BY <1>1, <1>5, <1>6, <2>2, <3>1
    <3> QED
      BY <1>7, <1>10, <2>2, <3>1, <3>2
  <2>3. CASE p.needs[n] > 0 /\ a[2] # "S"
    BY <1>5, <1>6, <1>7, <1>8, <1>9, <1>a, <2>3
  <2> QED
    BY <1>b, <2>1, <2>2, <2>3
<1> QED
  BY <1>11 DEF own, handing, n

(* A set of numbers that has a bound has a largest one: the intervals from *)
(* its members up to the bound are finite sets, and one of them has none   *)
(* of the others as a part.                                                *)
LEMMA Largest ==
    ASSUME NEW T \in SUBSET Nat, T # {}, NEW bound \in Nat, \A t \in T : t <= bound
    PROVE  \E m \in T : \A t \in T : t <= m
<1> DEFINE F == {t..bound : t \in T}
           R == StrictSubsetOrdering(Nat)
<1>1. IsWellFoundedOn(R, FiniteSubsetsOf(Nat))
  BY FS_StrictSubsetOrderingWellFounded
<1>2. F \subseteq FiniteSubsetsOf(Nat) /\ F # {}
  <2>1. \A t \in T : t..bound \in FiniteSubsetsOf(Nat)
    <3> SUFFICES ASSUME NEW t \in T
                 PROVE  t..bound \in FiniteSubsetsOf(Nat)
      OBVIOUS
    <3>1. IsFiniteSet(t..bound)
      BY FS_Interval
    <3>2. t..bound \subseteq Nat
      OBVIOUS
    <3> QED
      BY <3>1, <3>2 DEF FiniteSubsetsOf
  <2> QED
    BY <2>1
<1>3. PICK x \in F : \A y \in F : <<y, x>> \notin R
  <2> HIDE DEF F, R
  <2> QED
    BY <1>1, <1>2, WFMin
<1>4. PICK m \in T : x = m..bound
  BY <1>3
<1>5. ASSUME NEW t \in T, t > m
      PROVE  FALSE
  <2>1. t..bound \in F /\ t..bound \subseteq Nat /\ x \subseteq Nat
    BY <1>4
  <2>2. t..bound \subseteq x /\ m \in x /\ m \notin t..bound
    BY <1>4, <1>5
  <2>3. <<t..bound, x>> \in R
    BY <2>1, <2>2 DEF StrictSubsetOrdering
  <2> QED
    BY <1>3, <2>1, <2>3
<1> QED
  BY <1>5

(* What an agent knows of any agent is no more than has happened. *)
LEMMA LearntHappened ==
    ASSUME NEW p, WellFormed(p), P = p, NEW K, Base(p, K), NEW a \in DOMAIN p.queue, Ready(a),
           NEW b \in DOMAIN p.queue
    PROVE  Learnt(a, b) \in Nat /\ Learnt(a, b) <= pos[b] /\ pos[b] \in Nat
<1> DEFINE n == Current(a)
           own == p.queue[a][p.place[n] - 1]
           handing == p.queue[ScalarOf(a)][p.needs[n]]
<1>1. /\ Types(p) /\ K \in Clocks(p) /\ KnownIs(p, K) /\ HandedIs(p, K) /\ FlagsAre(p, K)
      /\ Truthful(p, K) /\ Busy(a) /\ Issued(a)
  BY DEF Base, Ready
<1>2. /\ Learnt(a, b) \in Nat
      /\ \/ Learnt(a, b) = 0
         \/ p.place[n] > 1 /\ Learnt(a, b) = K[own][b]
         \/ p.needs[n] > 0 /\ Learnt(a, b) = K[handing][b]
  BY <1>1, LearntIs
<1>3. AgentOf(p, n) = a
  BY <1>1, AtCurrent
<1>4. \A m : RightBefore(p, m, n) => m \in Done(p)
  BY <1>1, ComesAfter
<1> HIDE DEF n
<1>5. p.place[n] > 1 => own \in Done(p)
  BY <1>3, <1>4 DEF RightBefore
<1>6. p.needs[n] > 0 => handing \in Done(p)
  BY <1>3, <1>4 DEF RightBefore
<1>7. pos[b] \in Nat
  BY <1>1 DEF Types
<1> HIDE DEF own, handing
<1> QED
  BY <1>1, <1>2, <1>5, <1>6, <1>7 DEF Truthful

(* Before n its agent has learnt of what n comes right after. *)
LEMMA LearntJoins ==
    ASSUME NEW p, WellFormed(p), P = p, NEW K, Base(p, K), NEW a \in DOMAIN p.queue, Ready(a)
    PROVE  LET n == Current(a)
           IN /\ \A b \in DOMAIN p.queue : \A m \in DOMAIN p.ins :
                   RightBefore(p, m, n) => K[m][b] \in Nat /\ K[m][b] <= pos[b]
              /\ \A b \in DOMAIN p.queue : p.ins[n].op # "wait" =>
                   \A m \in DOMAIN p.ins : RightBefore(p, m, n) => K[m][b] <= Learnt(a, b)
              /\ \A b \in DOMAIN p.queue :
                   \/ Learnt(a, b) = 0
                   \/ \E m \in DOMAIN p.ins : RightBefore(p, m, n) /\ K[m][b] = Learnt(a, b)
              /\ \A b \in DOMAIN p.queue : \A m \in DOMAIN p.ins :
                   RightBefore(p, m, n) =>
                     \/ K[m][b] <= Learnt(a, b)
                     \/ /\ p.ins[n].op = "wait"
                        /\ \E e \in p.ins[n].events : K[m] = Head(flag[e])
              /\ p.ins[n].op = "wait" => \A e \in p.ins[n].events :
                   \E m \in DOMAIN p.ins : RightBefore(p, m, n) /\ K[m] = Head(flag[e])
<1> DEFINE n == Current(a)
           own == p.queue[a][p.place[n] - 1]
           handing == p.queue[ScalarOf(a)][p.needs[n]]
<1>1. /\ Types(p) /\ K \in Clocks(p) /\ KnownIs(p, K) /\ HandedIs(p, K) /\ FlagsAre(p, K)
      /\ Truthful(p, K) /\ Busy(a) /\ Issued(a)
  BY DEF Base, Ready
<1>2. \A b \in DOMAIN p.queue :
           /\ p.place[n] > 1 => own \in DOMAIN p.ins /\ K[own][b] <= Learnt(a, b)
           /\ p.needs[n] > 0 => handing \in DOMAIN p.ins /\ K[handing][b] <= Learnt(a, b)
           /\ \/ Learnt(a, b) = 0
              \/ p.place[n] > 1 /\ Learnt(a, b) = K[own][b]
              \/ p.needs[n] > 0 /\ Learnt(a, b) = K[handing][b]
  BY <1>1, LearntIs
<1>3. AgentOf(p, n) = a
  BY <1>1, AtCurrent
<1>4. \A m : RightBefore(p, m, n) => m \in Done(p)
  BY <1>1, ComesAfter
<1>5. p.ins[n].op = "wait" => \A e \in p.ins[n].events :
         /\ e \in DOMAIN p.waits /\ p.nth[n][e] \in 1..Len(p.sets[e])
         /\ Head(flag[e]) = K[p.sets[e][p.nth[n][e]]]
  BY <1>1, HeadIs
<1> HIDE DEF n
<1>6. ASSUME NEW b \in DOMAIN p.queue, NEW m \in DOMAIN p.ins, RightBefore(p, m, n)
      PROVE  K[m][b] \in Nat /\ K[m][b] <= pos[b]
  BY <1>1, <1>4, <1>6 DEF Truthful, Clocks
<1>7. p.place[n] > 1 => RightBefore(p, own, n)
  BY <1>3 DEF RightBefore
<1>8. p.needs[n] > 0 => RightBefore(p, handing, n)
  BY <1>3 DEF RightBefore
<1>9. ASSUME p.ins[n].op = "wait", NEW e \in p.ins[n].events
      PROVE  \E m \in DOMAIN p.ins : RightBefore(p, m, n) /\ K[m] = Head(flag[e])
  <2> DEFINE m == p.sets[e][p.nth[n][e]]
  <2>1. e \in DOMAIN p.waits /\ p.nth[n][e] \in 1..Len(p.sets[e]) /\ Head(flag[e]) = K[m]
    BY <1>5, <1>9
  <2>2. m \in DOMAIN p.ins /\ p.nth[n][e] \in DOMAIN p.sets[e]
    <3>1. \A i \in 1..Len(p.sets[e]) : p.sets[e][i] \in DOMAIN p.ins
      BY <2>1, UsesOf
    <3>2. DOMAIN p.sets[e] = 1..Len(p.sets[e])
      BY <2>1, InTurn
    <3> QED
      BY <2>1, <3>1, <3>2
  <2>3. RightBefore(p, m, n)
    BY <1>9, <2>2 DEF RightBefore
  <2> QED
    BY <2>1, <2>2, <2>3
<1>10. ASSUME NEW m \in DOMAIN p.ins, RightBefore(p, m, n)
       PROVE  \/ p.place[n] > 1 /\ m = own
              \/ p.needs[n] > 0 /\ m = handing
              \/ p.ins[n].op = "wait" /\ \E e \in p.ins[n].events : K[m] = Head(flag[e])
  BY <1>3, <1>5, <1>10 DEF RightBefore
<1> HIDE DEF own, handing
<1>11. ASSUME NEW b \in DOMAIN p.queue
       PROVE  \/ Learnt(a, b) = 0
              \/ \E m \in DOMAIN p.ins : RightBefore(p, m, n) /\ K[m][b] = Learnt(a, b)
  BY <1>2, <1>7, <1>8
<1>12. ASSUME NEW b \in DOMAIN p.queue, NEW m \in DOMAIN p.ins, RightBefore(p, m, n)
       PROVE  \/ K[m][b] <= Learnt(a, b)
              \/ p.ins[n].op = "wait" /\ \E e \in p.ins[n].events : K[m] = Head(flag[e])
  BY <1>2, <1>10, <1>12
<1> QED
  BY <1>6, <1>9, <1>11, <1>12 DEF n

(* What an agent knows when it sets an event or touches buffers. *)
LEMMA QuietJoins ==
    ASSUME NEW p, WellFormed(p), P = p, NEW K, Base(p, K), NEW a \in DOMAIN p.queue, Ready(a),
           p.ins[Current(a)].op # "wait"
    PROVE  Joins(p, K, Current(a), [Knowledge(a) EXCEPT ![a] = pos[a] + 1])
<1> DEFINE n == Current(a)
           clock == [Knowledge(a) EXCEPT ![a] = pos[a] + 1]
<1>1. AgentOf(p, n) = a /\ p.place[n] = pos[a] + 1 /\ pos[a] \in Nat
  BY AtCurrent DEF Base, Ready, Types
<1>2. \A b \in DOMAIN p.queue : Learnt(a, b) \in Nat /\ Learnt(a, b) <= pos[b] /\ pos[b] \in Nat
  BY LearntHappened
<1>3. /\ clock \in [DOMAIN p.queue -> Nat] /\ clock[a] = pos[a] + 1
      /\ \A b \in DOMAIN p.queue \ {a} : clock[b] = Learnt(a, b)
  BY <1>1, <1>2 DEF Knowledge, Agents
<1>4. /\ \A b \in DOMAIN p.queue : \A m \in DOMAIN p.ins :
           RightBefore(p, m, n) => K[m][b] \in Nat /\ K[m][b] <= pos[b] /\ K[m][b] <= Learnt(a, b)
      /\ \A b \in DOMAIN p.queue :
           \/ Learnt(a, b) = 0
           \/ \E m \in DOMAIN p.ins : RightBefore(p, m, n) /\ K[m][b] = Learnt(a, b)
  BY LearntJoins
<1> HIDE DEF clock, n
<1>5. \A m \in DOMAIN p.ins : RightBefore(p, m, n) => \A b \in DOMAIN p.queue : K[m][b] <= clock[b]
  BY <1>1, <1>2, <1>3, <1>4
<1>6. Joins(p, K, n, clock)
  BY <1>1, <1>3, <1>4, <1>5 DEF Joins
<1> QED
  BY <1>6 DEF n, clock

(* A clock that knows what is to be known of the other agents, and the     *)
(* step of this one.                                                       *)
LEMMA OwnStepJoins ==
    ASSUME NEW p, WellFormed(p), P = p, NEW K, Base(p, K), NEW a \in DOMAIN p.queue, Ready(a),
           NEW clock \in [DOMAIN p.queue -> Nat],
           \A b \in DOMAIN p.queue :
             /\ \A m \in DOMAIN p.ins : RightBefore(p, m, Current(a)) => K[m][b] <= clock[b]
             /\ \/ clock[b] = 0
                \/ \E m \in DOMAIN p.ins : RightBefore(p, m, Current(a)) /\ K[m][b] = clock[b]
    PROVE  Joins(p, K, Current(a), [clock EXCEPT ![a] = pos[a] + 1])
<1> DEFINE n == Current(a)
<1>1. AgentOf(p, n) = a /\ p.place[n] = pos[a] + 1 /\ pos[a] \in Nat
  BY AtCurrent DEF Base, Ready, Types
<1>2. \A b \in DOMAIN p.queue : pos[b] \in Nat
  BY DEF Base, Types
<1>4. \A b \in DOMAIN p.queue : \A m \in DOMAIN p.ins :
           RightBefore(p, m, n) => K[m][b] \in Nat /\ K[m][b] <= pos[b]
  BY LearntJoins
<1>6. \A b \in DOMAIN p.queue :
         /\ \A m \in DOMAIN p.ins : RightBefore(p, m, n) => K[m][b] <= clock[b]
         /\ \/ clock[b] = 0
            \/ \E m \in DOMAIN p.ins : RightBefore(p, m, n) /\ K[m][b] = clock[b]
  OBVIOUS
<1> HIDE DEF n
<1> DEFINE now == [clock EXCEPT ![a] = pos[a] + 1]
<1>7. /\ now \in [DOMAIN p.queue -> Nat] /\ now[a] = pos[a] + 1
      /\ \A b \in DOMAIN p.queue \ {a} : now[b] = clock[b]
  BY <1>1
<1> HIDE DEF now
<1>8. ASSUME NEW m \in DOMAIN p.ins, RightBefore(p, m, n), NEW b \in DOMAIN p.queue
      PROVE  K[m][b] <= now[b]
  <2>1. K[m][b] \in Nat /\ K[m][b] <= pos[b] /\ K[m][b] <= clock[b] /\ pos[b] \in Nat
    BY <1>2, <1>4, <1>6, <1>8
  <2>2. CASE b = a
    BY <1>7, <2>1, <2>2
  <2>3. CASE b # a
    BY <1>7, <2>1, <2>3
  <2> QED
    BY <2>2, <2>3
<1>9. ASSUME NEW b \in DOMAIN p.queue \ {a}
      PROVE  now[b] = 0 \/ \E m \in DOMAIN p.ins : RightBefore(p, m, n) /\ K[m][b] = now[b]
  BY <1>6, <1>7
<1>10. Joins(p, K, n, now)
  BY <1>1, <1>7, <1>8, <1>9 DEF Joins
<1> QED
  BY <1>10 DEF n, now

(* What an agent is told by a wait. *)
Told(p, a) == {Head(flag[e]) : e \in p.ins[Current(a)].events} \cup {Knowledge(a)}

(* What it knows when it has waited for events: all that their setters     *)
(* knew.                                                                   *)
LEMMA WaitJoins ==
    ASSUME NEW p, WellFormed(p), P = p, NEW K, Base(p, K), NEW a \in DOMAIN p.queue, Ready(a),
           p.ins[Current(a)].op = "wait", NEW b \in DOMAIN p.queue
    PROVE  /\ Latest(Told(p, a), b) \in Nat
           /\ \A m \in DOMAIN p.ins :
                RightBefore(p, m, Current(a)) => K[m][b] <= Latest(Told(p, a), b)
           /\ \/ Latest(Told(p, a), b) = 0
              \/ \E m \in DOMAIN p.ins :
                   RightBefore(p, m, Current(a)) /\ K[m][b] = Latest(Told(p, a), b)
<1> DEFINE n == Current(a)
           told == Told(p, a)
           clock == Latest(told, b)
<1>2. \A d \in DOMAIN p.queue : Learnt(a, d) \in Nat /\ Learnt(a, d) <= pos[d] /\ pos[d] \in Nat
  BY LearntHappened
<1>3. \A d \in DOMAIN p.queue : Knowledge(a)[d] = Learnt(a, d)
  BY DEF Knowledge, Agents
<1>4. /\ \A d \in DOMAIN p.queue : \A m \in DOMAIN p.ins :
           RightBefore(p, m, n) => K[m][d] \in Nat /\ K[m][d] <= pos[d]
      /\ \A d \in DOMAIN p.queue :
           \/ Learnt(a, d) = 0
           \/ \E m \in DOMAIN p.ins : RightBefore(p, m, n) /\ K[m][d] = Learnt(a, d)
      /\ \A d \in DOMAIN p.queue : \A m \in DOMAIN p.ins : RightBefore(p, m, n) =>
           K[m][d] <= Learnt(a, d) \/ \E e \in p.ins[n].events : K[m] = Head(flag[e])
      /\ \A e \in p.ins[n].events :
           \E m \in DOMAIN p.ins : RightBefore(p, m, n) /\ K[m] = Head(flag[e])
  BY LearntJoins
<1>5. told = {Head(flag[e]) : e \in p.ins[n].events} \cup {Knowledge(a)}
  BY DEF Told
<1> HIDE DEF told
<1> HIDE DEF n
<1> DEFINE T == {c[b] : c \in told}
<1>11. \A c \in told : c[b] \in Nat /\ c[b] <= pos[b]
  BY <1>2, <1>3, <1>4, <1>5
<1>12. T \in SUBSET Nat /\ T # {} /\ \A t \in T : t <= pos[b]
  BY <1>5, <1>11
<1>13. \E m \in T : \A t \in T : t <= m
  <2> HIDE DEF T
  <2> QED
    BY <1>2, <1>12, Largest
<1>14. \E m \in T : \A c \in told : c[b] <= m
  BY <1>13
<1>15. clock = CHOOSE m \in T : \A c \in told : c[b] <= m
  BY DEF Latest
<1> HIDE DEF clock
<1>16. clock \in T /\ \A c \in told : c[b] <= clock
  <2> HIDE DEF T
  <2> QED
    BY <1>14, <1>15
<1>17. clock \in Nat
  BY <1>12, <1>16
<1>18. Learnt(a, b) <= clock
  BY <1>3, <1>5, <1>16
<1>19. ASSUME NEW m \in DOMAIN p.ins, RightBefore(p, m, n)
      PROVE  K[m][b] <= clock
  <2>1. CASE K[m][b] <= Learnt(a, b)
    BY <1>2, <1>4, <1>17, <1>18, <1>19, <2>1
  <2>2. ASSUME NEW e \in p.ins[n].events, K[m] = Head(flag[e])
        PROVE  K[m][b] <= clock
    BY <1>5, <1>16, <2>2
  <2> QED
    BY <1>4, <1>19, <2>1, <2>2
<1>20. PICK c \in told : clock = c[b]
  BY <1>16
<1>21. clock = 0 \/ \E m \in DOMAIN p.ins : RightBefore(p, m, n) /\ K[m][b] = clock
  <2>1. CASE c = Knowledge(a)
    <3>1. clock = Learnt(a, b)
      BY <1>3, <1>20, <2>1
    <3>2. \/ Learnt(a, b) = 0
          \/ \E m \in DOMAIN p.ins : RightBefore(p, m, n) /\ K[m][b] = Learnt(a, b)
      BY <1>4
    <3> QED
      BY <3>1, <3>2
  <2>2. ASSUME NEW e \in p.ins[n].events, c = Head(flag[e])
        PROVE  \E m \in DOMAIN p.ins : RightBefore(p, m, n) /\ K[m][b] = clock
    <3>1. PICK m \in DOMAIN p.ins : RightBefore(p, m, n) /\ K[m] = Head(flag[e])
      BY <1>4
    <3>2. K[m][b] = clock
      BY <1>20, <2>2, <3>1
    <3> QED
      BY <3>1, <3>2
  <2> QED
    BY <1>5, <2>1, <2>2
<1> QED
  BY <1>17, <1>19, <1>21 DEF n, clock, told

(* A step of an agent, whatever it is. *)
LEMMA StepIs ==
    ASSUME NEW p, WellFormed(p), P = p, NEW K, Base(p, K), NEW a \in DOMAIN p.queue, Step(a)
    PROVE  /\ Ready(a) /\ Busy(a) /\ Issued(a)
           /\ P' = p
           /\ pos' = [pos EXCEPT ![a] = pos[a] + 1]
           /\ Joins(p, K, Current(a), known'[a])
           /\ known' = [known EXCEPT ![a] = known'[a]]
           /\ handed' = IF a[2] = "S" THEN [handed EXCEPT ![a[1]] = Append(@, known'[a])]
                        ELSE handed
           /\ p.ins[Current(a)].op \in {"set", "wait", "do"}
           /\ p.ins[Current(a)].op = "set" =>
                flag' = [e \in DOMAIN flag |-> IF e \in p.ins[Current(a)].events
                                               THEN Append(flag[e], known'[a]) ELSE flag[e]]
           /\ p.ins[Current(a)].op = "wait" =>
                flag' = [e \in DOMAIN flag |-> IF e \in p.ins[Current(a)].events
                                               THEN Tail(flag[e]) ELSE flag[e]]
           /\ p.ins[Current(a)].op = "do" => flag' = flag
           /\ p.ins[Current(a)].op # "do" => mem' = mem
<1>0. Ready(a) /\ Busy(a) /\ Issued(a) /\ (Set(a) \/ Wait(a) \/ Transfer(a))
  BY DEF Step, Ready
<1>1. known \in [DOMAIN p.queue -> [DOMAIN p.queue -> Nat]]
  BY DEF Base, Types
<1>2. ASSUME NEW c, Advance(a, c)
      PROVE  /\ P' = p
             /\ pos' = [pos EXCEPT ![a] = pos[a] + 1]
             /\ known'[a] = [c EXCEPT ![a] = pos[a] + 1]
             /\ known' = [known EXCEPT ![a] = known'[a]]
             /\ handed' = IF a[2] = "S" THEN [handed EXCEPT ![a[1]] = Append(@, known'[a])]
                          ELSE handed
  <2>1. P' = p
    BY <1>2 DEF Advance, P
  <2>2. known' = [known EXCEPT ![a] = [c EXCEPT ![a] = pos[a] + 1]]
    BY <1>2 DEF Advance
  <2>3. known'[a] = [c EXCEPT ![a] = pos[a] + 1]
    BY <1>1, <2>2
  <2>4. known' = [known EXCEPT ![a] = known'[a]]
    BY <2>2, <2>3
  <2>5. handed' = IF a[2] = "S" THEN [handed EXCEPT ![a[1]] = Append(@, known'[a])] ELSE handed
    BY <1>2, <2>3 DEF Advance
  <2>6. pos' = [pos EXCEPT ![a] = pos[a] + 1]
    BY <1>2 DEF Advance
  <2> QED
    BY <2>1, <2>3, <2>4, <2>5, <2>6
<1>3. CASE Set(a)
  <2> DEFINE clock == [Knowledge(a) EXCEPT ![a] = pos[a] + 1]
  <2>1. /\ p.ins[Current(a)].op = "set" /\ Advance(a, clock) /\ mem' = mem
        /\ flag' = [e \in DOMAIN flag |-> IF e \in p.ins[Current(a)].events
                                          THEN Append(flag[e], clock) ELSE flag[e]]
    BY <1>3 DEF Set, Instruction
  <2>2. Joins(p, K, Current(a), clock)
    BY <1>0, <2>1, QuietJoins
  <2>3. [clock EXCEPT ![a] = pos[a] + 1] = clock
    BY DEF Knowledge, Agents
  <2> HIDE DEF clock
  <2>4. known'[a] = clock
    BY <1>2, <2>1, <2>3
  <2> QED
    BY <1>0, <1>2, <2>1, <2>2, <2>4
<1>4. CASE Wait(a)
  <2> DEFINE told == Told(p, a)
             clock == [b \in DOMAIN p.queue |-> Latest(told, b)]
  <2>1. /\ p.ins[Current(a)].op = "wait" /\ Advance(a, clock) /\ mem' = mem
        /\ flag' = [e \in DOMAIN flag |-> IF e \in p.ins[Current(a)].events
                                          THEN Tail(flag[e]) ELSE flag[e]]
    BY <1>4 DEF Wait, Instruction, Agents, Told
  <2>b. \A b \in DOMAIN p.queue :
           /\ Latest(told, b) \in Nat
           /\ \A m \in DOMAIN p.ins :
                RightBefore(p, m, Current(a)) => K[m][b] <= Latest(told, b)
           /\ \/ Latest(told, b) = 0
              \/ \E m \in DOMAIN p.ins :
                   RightBefore(p, m, Current(a)) /\ K[m][b] = Latest(told, b)
    BY <1>0, <2>1, WaitJoins
  <2> HIDE DEF told
  <2>c. clock \in [DOMAIN p.queue -> Nat] /\ \A b \in DOMAIN p.queue : clock[b] = Latest(told, b)
    BY <2>b
  <2> HIDE DEF clock
  <2>2. Joins(p, K, Current(a), [clock EXCEPT ![a] = pos[a] + 1])
    BY <1>0, <2>b, <2>c, OwnStepJoins
  <2> QED
    BY <1>0, <1>2, <2>1, <2>2
<1>5. CASE Transfer(a)
  <2>1. /\ p.ins[Current(a)].op = "do" /\ Advance(a, Knowledge(a)) /\ flag' = flag
    BY <1>5 DEF Transfer, Instruction
  <2>2. Joins(p, K, Current(a), [Knowledge(a) EXCEPT ![a] = pos[a] + 1])
    BY <1>0, <2>1, QuietJoins
  <2> QED
    BY <1>0, <1>2, <2>1, <2>2
<1> QED
  BY <1>0, <1>3, <1>4, <1>5

-----------------------------------------------------------------------------
(* K2 is K with what is known when the current instruction of a has been   *)
(* executed.                                                               *)
Recorded(p, K, K2, a) ==
    /\ K2 \in Clocks(p) /\ K2[Current(a)] = known'[a]
    /\ \A m \in DOMAIN p.ins \ {Current(a)} : K2[m] = K[m]

(* A step of an agent executes its current instruction. *)
LEMMA DoneAfter ==
    ASSUME NEW p, WellFormed(p), P = p, NEW K, Base(p, K), NEW a \in DOMAIN p.queue, Step(a)
    PROVE  /\ Done(p)' = Done(p) \cup {Current(a)}
           /\ \A m \in DOMAIN p.ins : Ran(p, m)' <=> Ran(p, m) \/ m = Current(a)
           /\ \A b \in DOMAIN p.queue : pos'[b] = IF b = a THEN pos[a] + 1 ELSE pos[b]
<1> DEFINE n == Current(a)
<1>1. Busy(a) /\ pos' = [pos EXCEPT ![a] = pos[a] + 1]
  BY StepIs
<1>2. pos \in [DOMAIN p.queue -> Nat] /\ Types(p)
  BY DEF Base, Types
<1>3. \A b \in DOMAIN p.queue : pos'[b] = IF b = a THEN pos[a] + 1 ELSE pos[b]
  BY <1>1, <1>2
<1>4. /\ n \in DOMAIN p.ins /\ AgentOf(p, n) = a /\ p.place[n] = pos[a] + 1
      /\ p.queue[a][pos[a] + 1] = n
  BY <1>1, <1>2, AtCurrent
<1> HIDE DEF n
<1>5. ASSUME NEW m \in DOMAIN p.ins
      PROVE  Ran(p, m)' <=> Ran(p, m) \/ m = n
  <2>1. /\ AgentOf(p, m) \in DOMAIN p.queue /\ p.place[m] \in Nat
        /\ p.queue[AgentOf(p, m)][p.place[m]] = m
    BY QueueOf
  <2>2. Ran(p, m)' <=> p.place[m] <= pos'[AgentOf(p, m)]
    BY DEF Ran, AgentOf
  <2>3. CASE AgentOf(p, m) = a
    <3>1. p.place[m] = pos[a] + 1 => m = n
      BY <1>4, <2>1, <2>3
    <3> QED
      BY <1>2, <1>3, <1>4, <2>1, <2>2, <2>3, <3>1 DEF Ran
  <2>4. CASE AgentOf(p, m) # a
    BY <1>3, <1>4, <2>1, <2>2, <2>4 DEF Ran
  <2> QED
    BY <2>3, <2>4
<1>6. Done(p)' = {m \in DOMAIN p.ins : Ran(p, m)'}
  BY DEF Done
<1>7. Done(p)' = Done(p) \cup {n}
  BY <1>4, <1>5, <1>6 DEF Done
<1> QED
  BY <1>3, <1>5, <1>7 DEF n

(* The new clock fits in with the others, and says nothing that has not    *)
(* happened.                                                               *)
LEMMA ClocksAfter ==
    ASSUME NEW p, WellFormed(p), P = p, NEW K, Base(p, K), NEW a \in DOMAIN p.queue, Step(a),
           NEW K2, Recorded(p, K, K2, a)
    PROVE  /\ Closed(p)'
           /\ Truthful(p, K2)' /\ ClockOK(p, K2, Done(p)') /\ OrderOK(p, K2, Done(p)')
<1> DEFINE n == Current(a)
           D == Done(p)
<1>1. /\ Ready(a) /\ Busy(a) /\ Joins(p, K, n, known'[a])
  BY StepIs
<1>2. /\ Types(p) /\ K \in Clocks(p) /\ Closed(p) /\ FlagsAre(p, K)
      /\ Truthful(p, K) /\ ClockOK(p, K, D) /\ OrderOK(p, K, D)
  BY DEF Base
<1>3. /\ n \in DOMAIN p.ins /\ AgentOf(p, n) = a /\ p.place[n] = pos[a] + 1 /\ n \notin D
      /\ p.queue[a][pos[a] + 1] = n /\ pos[a] + 1 \in 1..Len(p.queue[a])
      /\ pos[a] \in Nat
  BY <1>1, <1>2, AtCurrent DEF Types
<1>4. /\ Done(p)' = D \cup {n}
      /\ \A b \in DOMAIN p.queue : pos'[b] = IF b = a THEN pos[a] + 1 ELSE pos[b]
  BY DoneAfter
<1>5. \A m : RightBefore(p, m, n) => m \in D
  BY <1>1, <1>2, ComesAfter
<1>6. K2 \in Clocks(p) /\ K2[n] = known'[a] /\ \A m \in DOMAIN p.ins \ {n} : K2[m] = K[m]
  BY DEF Recorded
<1>7. D \subseteq DOMAIN p.ins /\ \A b \in DOMAIN p.queue : pos[b] \in Nat
  BY <1>2 DEF Done, Types
<1> HIDE DEF n, D
<1>8. \A m \in D : m \in DOMAIN p.ins /\ m # n /\ K2[m] = K[m]
  BY <1>3, <1>6, <1>7
<1>9. \A m \in DOMAIN p.ins : \A b \in DOMAIN p.queue : K2[m][b] \in Nat
  BY <1>6 DEF Clocks
<1>10. /\ K2[n][a] = pos[a] + 1
       /\ \A m \in D : RightBefore(p, m, n) => \A b \in DOMAIN p.queue : K2[m][b] <= K2[n][b]
       /\ \A b \in DOMAIN p.queue \ {a} :
            K2[n][b] = 0 \/ \E m \in D : RightBefore(p, m, n) /\ K2[m][b] = K2[n][b]
  BY <1>1, <1>3, <1>5, <1>6, <1>8 DEF Joins
<1>11. \A m \in D : \A b \in DOMAIN p.queue : K2[m][b] <= pos[b]
  BY <1>2, <1>8 DEF Truthful, D
<1>12. Closed(p)'
  <2>1. \A m, l : RightBefore(p, m, l)' <=> RightBefore(p, m, l)
    BY DEF RightBefore, AgentOf, ScalarOf
  <2>2. \A l \in D \cup {n} : \A m : RightBefore(p, m, l) => m \in D
    BY <1>2, <1>5 DEF Closed, D
  <2> QED
    BY <1>4, <2>2 DEF Closed
<1>13. Truthful(p, K2)'
  <2>1. ASSUME NEW b \in DOMAIN p.queue
        PROVE  K2[n][b] <= pos'[b]
    <3>1. CASE b = a
      BY <1>3, <1>4, <1>10, <3>1
    <3>2. CASE b # a
      BY <1>4, <1>7, <1>10, <1>11, <3>2
    <3> QED
      BY <3>1, <3>2
  <2>2. ASSUME NEW m \in D, NEW b \in DOMAIN p.queue
        PROVE  K2[m][b] <= pos'[b]
    <3>1. K2[m][b] \in Nat /\ K2[m][b] <= pos[b] /\ pos[b] \in Nat
      BY <1>7, <1>8, <1>9, <1>11
    <3> QED
      BY <1>4, <3>1
  <2>3. \A m \in D \cup {n} : \A b \in DOMAIN p.queue : K2[m][b] <= pos'[b]
    BY <2>1, <2>2
  <2> QED
    BY <1>4, <2>3 DEF Truthful
<1>14. ClockOK(p, K2, D \cup {n})
  <2>1. Joins(p, K2, n, K2[n])
    <3>1. \A m \in DOMAIN p.ins : RightBefore(p, m, n) => m \in D
      BY <1>5
    <3> QED
      BY <1>1, <1>6, <1>8, <3>1 DEF Joins
  <2>2. ASSUME NEW l \in D
        PROVE  Joins(p, K2, l, K2[l])
    <3>1. \A m \in DOMAIN p.ins : RightBefore(p, m, l) => m \in D
      BY <1>2 DEF Closed, D
    <3>2. Joins(p, K, l, K[l]) /\ K2[l] = K[l]
      BY <1>2, <1>8 DEF ClockOK
    <3> QED
      BY <1>8, <3>1, <3>2 DEF Joins
  <2> QED
    BY <2>1, <2>2 DEF ClockOK
<1>15. OrderOK(p, K2, D \cup {n})
  <2>0. \A m \in DOMAIN p.ins : p.place[m] \in Nat /\ p.place[m] > 0 /\ AgentOf(p, m) \in DOMAIN p.queue
    BY QueueOf
  <2>1. ASSUME NEW m \in D, NEW l \in D, Before(p, K2, m, l)
        PROVE  /\ \A b \in DOMAIN p.queue : K2[m][b] <= K2[l][b]
               /\ m # l => ~Before(p, K2, l, m)
    BY <1>2, <1>8, <2>1 DEF OrderOK, Before
  <2>2. ASSUME NEW m \in D, Before(p, K2, n, m)
        PROVE  FALSE
    <3>1. pos[a] + 1 <= K2[m][a] /\ K2[m][a] <= pos[a] /\ K2[m][a] \in Nat
      BY <1>3, <1>8, <1>9, <1>11, <2>2 DEF Before
    <3> QED
      BY <1>3, <3>1
  <2>3. ASSUME NEW m \in D, Before(p, K2, m, n), NEW b \in DOMAIN p.queue
        PROVE  K2[m][b] <= K2[n][b]
    <3>1. PICK q \in D : RightBefore(p, q, n) /\ Before(p, K2, m, q)
      <4>1. CASE AgentOf(p, m) # a
        <5>1. K2[n][AgentOf(p, m)] # 0
          BY <1>8, <2>0, <2>3 DEF Before
        <5>2. PICK q \in D : RightBefore(p, q, n) /\ K2[q][AgentOf(p, m)] = K2[n][AgentOf(p, m)]
          BY <1>8, <1>10, <2>0, <4>1, <5>1
        <5> QED
          BY <2>3, <5>2 DEF Before
      <4>2. CASE AgentOf(p, m) = a
        <5> DEFINE q == p.queue[a][pos[a]]
        <5>1. p.place[m] <= pos[a] /\ p.place[m] > 0 /\ p.place[m] \in Nat
          BY <1>8, <2>0, <4>2 DEF D, Done, Ran
        <5>2. pos[a] \in 1..Len(p.queue[a]) /\ p.place[n] > 1 /\ p.place[n] - 1 = pos[a]
          BY <1>3, <5>1
        <5>3. RightBefore(p, q, n)
          BY <1>3, <5>2 DEF RightBefore
        <5>4. AgentOf(p, q) = a /\ p.place[q] = pos[a]
          BY <5>2, QueueOf
        <5>5. q \in D
          BY <1>5, <5>3
        <5>6. K[q][a] = pos[a]
          BY <1>2, <5>4, <5>5 DEF ClockOK, Joins
        <5> HIDE DEF q
        <5>7. Before(p, K2, m, q)
          BY <1>8, <4>2, <5>1, <5>5, <5>6 DEF Before
        <5> QED
          BY <5>3, <5>5, <5>7
      <4> QED
        BY <4>1, <4>2
    <3>2. K2[m][b] <= K2[q][b] /\ K2[q][b] <= K2[n][b]
      BY <1>10, <2>1, <3>1
    <3> QED
      BY <1>3, <1>8, <1>9, <3>2
  <2>4. \A b \in DOMAIN p.queue : K2[n][b] <= K2[n][b]
    BY <1>3, <1>9
  <2> QED
    BY <1>8, <2>1, <2>2, <2>3, <2>4 DEF OrderOK
<1> QED
  BY <1>4, <1>12, <1>13, <1>14, <1>15

(* A transfer or a calculation writes one buffer and reads some. *)
LEMMA TransferIs ==
    ASSUME NEW p, P = p, NEW a, Step(a), p.ins[Current(a)].op = "do"
    PROVE  mem' = [b \in DOMAIN mem |->
                     IF b = p.ins[Current(a)].dst THEN [writer |-> Current(a), readers |-> {}]
                     ELSE IF b \in p.ins[Current(a)].srcs
                     THEN [mem[b] EXCEPT !.readers = @ \cup {Current(a)}] ELSE mem[b]]
<1>1. Set(a) \/ Wait(a) \/ Transfer(a)
  BY DEF Step
<1>2. Transfer(a)
  BY <1>1 DEF Set, Wait, Instruction
<1> QED
  BY <1>2 DEF Transfer, Instruction

(* The variables keep their types. *)
LEMMA TypesAfter ==
    ASSUME NEW p, WellFormed(p), P = p, NEW K, Base(p, K), NEW a \in DOMAIN p.queue, Step(a)
    PROVE  Types(p)'
<1> DEFINE n == Current(a)
           agents == DOMAIN p.queue
<1>1. /\ Types(p) /\ FlagsAre(p, K) /\ Ready(a) /\ Busy(a) /\ Joins(p, K, n, known'[a])
      /\ known' = [known EXCEPT ![a] = known'[a]]
      /\ handed' = IF a[2] = "S" THEN [handed EXCEPT ![a[1]] = Append(@, known'[a])] ELSE handed
      /\ p.ins[n].op \in {"set", "wait", "do"}
      /\ p.ins[n].op = "set" => flag' = [e \in DOMAIN flag |->
                                  IF e \in p.ins[n].events THEN Append(flag[e], known'[a]) ELSE flag[e]]
      /\ p.ins[n].op = "wait" => flag' = [e \in DOMAIN flag |->
                                   IF e \in p.ins[n].events THEN Tail(flag[e]) ELSE flag[e]]
      /\ p.ins[n].op = "do" => flag' = flag
      /\ p.ins[n].op # "do" => mem' = mem
      /\ pos' = [pos EXCEPT ![a] = pos[a] + 1]
  BY StepIs DEF Base
<1>2. n \in DOMAIN p.ins /\ pos[a] + 1 \in 1..Len(p.queue[a]) /\ pos[a] \in Nat
  BY <1>1, AtCurrent DEF Types
<1>3. known'[a] \in [agents -> Nat]
  BY <1>1 DEF Joins
<1>4. p.ins[n].op = "wait" => \A e \in p.ins[n].events : flag[e] # <<>>
  BY <1>1 DEF Ready, Instruction
<1>5. p.ins[n].op = "do" => mem' = [b \in DOMAIN mem |->
                     IF b = p.ins[n].dst THEN [writer |-> n, readers |-> {}]
                     ELSE IF b \in p.ins[n].srcs
                     THEN [mem[b] EXCEPT !.readers = @ \cup {n}] ELSE mem[b]]
  BY TransferIs
<1> HIDE DEF n
<1>6. /\ pos \in [agents -> Nat] /\ \A b \in agents : pos[b] <= Len(p.queue[b])
      /\ known \in [agents -> [agents -> Nat]]
      /\ handed \in [p.cores -> Seq([agents -> Nat])]
      /\ flag \in [DOMAIN p.waits -> Seq([agents -> Nat])]
      /\ mem \in [p.buffers -> [writer : {0} \cup DOMAIN p.ins, readers : SUBSET DOMAIN p.ins]]
  BY <1>1 DEF Types
<1>7. /\ pos' \in [agents -> Nat] /\ \A b \in agents : pos'[b] <= Len(p.queue[b])
  BY <1>1, <1>2, <1>6
<1>8. known' \in [agents -> [agents -> Nat]]
  BY <1>1, <1>3, <1>6
<1>9. handed' \in [p.cores -> Seq([agents -> Nat])]
  <2>1. a[1] \in p.cores
    BY DEF WellFormed
  <2>2. Append(handed[a[1]], known'[a]) \in Seq([agents -> Nat])
    BY <1>3, <1>6, <2>1, AppendProperties
  <2> QED
    BY <1>1, <1>6, <2>2
<1>10. flag' \in [DOMAIN p.waits -> Seq([agents -> Nat])]
  <2>1. ASSUME NEW e \in DOMAIN p.waits
        PROVE  Append(flag[e], known'[a]) \in Seq([agents -> Nat])
    <3>1. flag[e] \in Seq([agents -> Nat])
      BY <1>6
    <3> QED
      BY <1>3, <3>1, AppendProperties
  <2>2. ASSUME NEW e \in DOMAIN p.waits, flag[e] # <<>>
        PROVE  Tail(flag[e]) \in Seq([agents -> Nat])
    <3>1. flag[e] \in Seq([agents -> Nat])
      BY <1>6
    <3> QED
      BY <2>2, <3>1, HeadTailProperties
  <2>3. CASE p.ins[n].op = "set"
    <3>1. DOMAIN flag = DOMAIN p.waits /\ \A e \in DOMAIN p.waits : flag[e] \in Seq([agents -> Nat])
      BY <1>6
    <3> HIDE DEF agents
    <3> QED
      BY <1>1, <2>1, <2>3, <3>1
  <2>4. CASE p.ins[n].op = "wait"
    <3>1. DOMAIN flag = DOMAIN p.waits /\ \A e \in DOMAIN p.waits : flag[e] \in Seq([agents -> Nat])
      BY <1>6
    <3> HIDE DEF agents
    <3> QED
      BY <1>1, <1>4, <2>2, <2>4, <3>1
  <2>5. CASE p.ins[n].op = "do"
    BY <1>1, <1>6, <2>5
  <2> QED
    BY <1>1, <2>3, <2>4, <2>5
<1>11. mem' \in [p.buffers -> [writer : {0} \cup DOMAIN p.ins, readers : SUBSET DOMAIN p.ins]]
  <2>1. ASSUME NEW b \in p.buffers
        PROVE  /\ [mem[b] EXCEPT !.readers = @ \cup {n}]
                    \in [writer : {0} \cup DOMAIN p.ins, readers : SUBSET DOMAIN p.ins]
               /\ [writer |-> n, readers |-> {}]
                    \in [writer : {0} \cup DOMAIN p.ins, readers : SUBSET DOMAIN p.ins]
    <3>1. mem[b] \in [writer : {0} \cup DOMAIN p.ins, readers : SUBSET DOMAIN p.ins]
      BY <1>6
    <3> QED
      BY <1>2, <3>1
  <2>2. CASE p.ins[n].op = "do"
    <3> DEFINE Cell == [writer : {0} \cup DOMAIN p.ins, readers : SUBSET DOMAIN p.ins]
               F(b) == IF b = p.ins[n].dst THEN [writer |-> n, readers |-> {}]
                       ELSE IF b \in p.ins[n].srcs
                       THEN [mem[b] EXCEPT !.readers = @ \cup {n}] ELSE mem[b]
    <3>1. DOMAIN mem = p.buffers /\ \A b \in p.buffers : mem[b] \in Cell
      BY <1>6
    <3>2. \A b \in p.buffers : F(b) \in Cell
      BY <2>1, <3>1
    <3>3. mem' = [b \in p.buffers |-> F(b)]
      BY <1>5, <2>2, <3>1
    <3> HIDE DEF Cell, F
    <3>4. mem' \in [p.buffers -> Cell]
      BY <3>2, <3>3
    <3> QED
      BY <3>4 DEF Cell
  <2>3. CASE p.ins[n].op # "do"
    BY <1>1, <1>6, <2>3
  <2> QED
    BY <2>2, <2>3
<1> QED
  BY <1>7, <1>8, <1>9, <1>10, <1>11 DEF Types

(* What the agents know, and what the scalar units handed on, is what the  *)
(* tables say.                                                             *)
LEMMA KnownAfter ==
    ASSUME NEW p, WellFormed(p), P = p, NEW K, Base(p, K), NEW a \in DOMAIN p.queue, Step(a),
           NEW K2, Recorded(p, K, K2, a)
    PROVE  KnownIs(p, K2)' /\ HandedIs(p, K2)'
<1> DEFINE n == Current(a)
           agents == DOMAIN p.queue
<1>1. /\ Types(p) /\ KnownIs(p, K) /\ HandedIs(p, K) /\ Busy(a)
      /\ known' = [known EXCEPT ![a] = known'[a]]
      /\ handed' = IF a[2] = "S" THEN [handed EXCEPT ![a[1]] = Append(@, known'[a])] ELSE handed
  BY StepIs DEF Base
<1>2. /\ n \in DOMAIN p.ins /\ AgentOf(p, n) = a /\ p.queue[a][pos[a] + 1] = n
  BY <1>1, AtCurrent
<1>3. K2[n] = known'[a] /\ \A m \in DOMAIN p.ins \ {n} : K2[m] = K[m]
  BY DEF Recorded
<1>4. \A b \in agents : pos'[b] = IF b = a THEN pos[a] + 1 ELSE pos[b]
  BY DoneAfter
<1> HIDE DEF n
<1>5. /\ pos \in [agents -> Nat] /\ \A b \in agents : pos[b] <= Len(p.queue[b])
      /\ known \in [agents -> [agents -> Nat]]
      /\ handed \in [p.cores -> Seq([agents -> Nat])]
  BY <1>1 DEF Types
<1>6. ASSUME NEW c \in agents, NEW i \in 1..pos[c]
      PROVE  p.queue[c][i] \in DOMAIN p.ins \ {n}
  <2>1. i \in 1..Len(p.queue[c])
    BY <1>5, QueueOf
  <2>2. p.queue[c][i] \in DOMAIN p.ins /\ AgentOf(p, p.queue[c][i]) = c /\ p.place[p.queue[c][i]] = i
    BY <2>1, QueueOf
  <2>3. CASE c = a
    <3>1. pos[a] + 1 \in 1..Len(p.queue[a]) /\ pos[a] \in Nat
      BY <1>1, <1>5, QueueOf DEF Busy
    <3>2. p.place[n] = pos[a] + 1
      BY <1>2, <3>1, QueueOf
    <3> QED
      BY <2>2, <2>3, <3>1, <3>2
  <2> QED
    BY <1>2, <2>2, <2>3
<1>7. ASSUME NEW c \in agents, NEW b \in agents
      PROVE  known'[c][b] = IF pos'[c] = 0 THEN 0 ELSE K2[p.queue[c][pos'[c]]][b]
  <2>1. CASE c = a
    BY <1>2, <1>3, <1>4, <1>5, <2>1
  <2>2. CASE c # a
    <3>1. pos'[c] = pos[c] /\ known'[c] = known[c]
      BY <1>1, <1>4, <1>5, <2>2
    <3>2. pos[c] # 0 => K2[p.queue[c][pos[c]]] = K[p.queue[c][pos[c]]]
      <4>1. pos[c] # 0 => pos[c] \in 1..pos[c]
        BY <1>5
      <4> QED
        BY <1>3, <1>6, <4>1
    <3> QED
      BY <1>1, <3>1, <3>2 DEF KnownIs
  <2> QED
    BY <2>1, <2>2
<1>8. KnownIs(p, K2)'
  BY <1>7 DEF KnownIs
<1>9. \A c \in agents : c = <<c[1], c[2]>> /\ c[1] \in p.cores
  <2>1. \A c \in agents : c \in p.cores \X STRING
    BY DEF WellFormed
  <2> QED
    BY <2>1
<1>10. ASSUME NEW c \in agents, c = ScalarOf(c)
       PROVE  /\ Len(handed'[c[1]]) = pos'[c]
              /\ \A i \in 1..pos'[c] : handed'[c[1]][i] = K2[p.queue[c][i]]
  <2>1. /\ Len(handed[c[1]]) = pos[c]
        /\ \A i \in 1..pos[c] : handed[c[1]][i] = K2[p.queue[c][i]]
    BY <1>1, <1>3, <1>6, <1>10 DEF HandedIs
  <2>2. CASE c = a
    <3>1. a[2] = "S"
      BY <1>9, <1>10, <2>2 DEF ScalarOf
    <3>2. handed'[a[1]] = Append(handed[a[1]], known'[a]) /\ handed[a[1]] \in Seq([agents -> Nat])
      BY <1>1, <1>5, <1>9, <3>1
    <3>3. /\ Len(handed'[a[1]]) = pos[a] + 1
          /\ \A i \in 1..pos[a] : handed'[a[1]][i] = handed[a[1]][i]
          /\ handed'[a[1]][pos[a] + 1] = known'[a]
      BY <2>1, <2>2, <3>2, AppendProperties
    <3>4. pos'[c] = pos[a] + 1 /\ pos[a] \in Nat
      BY <1>4, <1>5, <2>2
    <3>5. \A i \in 1..pos'[c] : i \in 1..pos[a] \/ i = pos[a] + 1
      BY <3>4
    <3> QED
      BY <1>2, <1>3, <2>1, <2>2, <3>3, <3>4, <3>5
  <2>3. CASE c # a
    <3>1. a[2] = "S" => a[1] # c[1]
      BY <1>9, <1>10, <2>3 DEF ScalarOf
    <3>2. handed'[c[1]] = handed[c[1]]
      BY <1>1, <1>5, <1>9, <3>1
    <3> QED
      BY <1>4, <2>1, <2>3, <3>2
  <2> QED
    BY <2>2, <2>3
<1>11. HandedIs(p, K2)'
  <2>1. \A c \in agents : c = ScalarOf(c) =>
              /\ Len(handed'[c[1]]) = pos'[c]
              /\ \A i \in 1..pos'[c] : handed'[c[1]][i] = K2[p.queue[c][i]]
    BY <1>10
  <2> QED
    BY <2>1 DEF HandedIs, ScalarOf
<1> QED
  BY <1>8, <1>11

(* What is left of an event is what its setters knew that no one has       *)
(* waited for yet.                                                         *)
LEMMA FlagsAfter ==
    ASSUME NEW p, WellFormed(p), P = p, NEW K, Base(p, K), NEW a \in DOMAIN p.queue, Step(a),
           NEW K2, Recorded(p, K, K2, a)
    PROVE  FlagsAre(p, K2)'
<1> DEFINE n == Current(a)
<1>1. /\ Types(p) /\ FlagsAre(p, K) /\ Ready(a) /\ Busy(a) /\ Issued(a)
      /\ p.ins[n].op \in {"set", "wait", "do"}
      /\ p.ins[n].op = "set" => flag' = [e \in DOMAIN flag |->
                                  IF e \in p.ins[n].events THEN Append(flag[e], known'[a]) ELSE flag[e]]
      /\ p.ins[n].op = "wait" => flag' = [e \in DOMAIN flag |->
                                   IF e \in p.ins[n].events THEN Tail(flag[e]) ELSE flag[e]]
      /\ p.ins[n].op = "do" => flag' = flag
  BY StepIs DEF Base
<1>2. n \in DOMAIN p.ins /\ ~Ran(p, n)
  BY <1>1, AtCurrent DEF Done
<1>3. K2[n] = known'[a] /\ \A m \in DOMAIN p.ins \ {n} : K2[m] = K[m]
  BY DEF Recorded
<1>4. \A m \in DOMAIN p.ins : Ran(p, m)' <=> Ran(p, m) \/ m = n
  BY DoneAfter
<1>10. \A e \in DOMAIN p.waits :
        /\ Len(p.sets[e]) \in Nat /\ Len(p.waits[e]) \in Nat
        /\ \A i \in 1..Len(p.sets[e]) :
             /\ p.sets[e][i] \in DOMAIN p.ins /\ p.ins[p.sets[e][i]].op = "set"
             /\ e \in p.ins[p.sets[e][i]].events /\ p.nth[p.sets[e][i]][e] = i
        /\ \A i \in 1..Len(p.waits[e]) :
             /\ p.waits[e][i] \in DOMAIN p.ins /\ p.ins[p.waits[e][i]].op = "wait"
             /\ e \in p.ins[p.waits[e][i]].events /\ p.nth[p.waits[e][i]][e] = i
  BY UsesOf
<1>5. p.ins[n].op = "wait" => \A e \in p.ins[n].events : flag[e] # <<>>
  BY <1>1 DEF Ready, Instruction
<1>6. DOMAIN flag = DOMAIN p.waits
      /\ \A e \in DOMAIN p.waits : flag[e] \in Seq([DOMAIN p.queue -> Nat])
  BY <1>1 DEF Types
<1>7. p.ins[n].op = "set" => \A e \in p.ins[n].events : \A w, s \in Nat :
         FlagIs(p, K, e, w, s) => p.nth[n][e] = s + 1
  BY <1>1, NextSet
<1>8. p.ins[n].op = "wait" => \A e \in p.ins[n].events : \A w, s \in Nat :
         FlagIs(p, K, e, w, s) => p.nth[n][e] = w + 1
  <2>1. Types(p) /\ Busy(a)
    BY <1>1
  <2>2. ASSUME NEW e \in p.ins[Current(a)].events, p.ins[Current(a)].op = "wait",
               NEW w \in Nat, NEW s \in Nat, FlagIs(p, K, e, w, s)
        PROVE  p.nth[Current(a)][e] = w + 1
    <3> HIDE DEF n
    <3> QED
      BY <1>1, <2>2, NextWait
  <2> QED
    BY <2>2
<1> HIDE DEF n
<1>9. ASSUME NEW e \in DOMAIN p.waits
      PROVE  \E w, s \in Nat :
               /\ w <= s /\ s <= Len(p.sets[e]) /\ w <= Len(p.waits[e])
               /\ Len(flag'[e]) = s - w
               /\ \A i \in 1..Len(flag'[e]) : flag'[e][i] = K2[p.sets[e][w + i]]
               /\ \A i \in 1..Len(p.sets[e]) : Ran(p, p.sets[e][i])' <=> i <= s
               /\ \A i \in 1..Len(p.waits[e]) : Ran(p, p.waits[e][i])' <=> i <= w
  <2>1. PICK w \in Nat, s \in Nat : FlagIs(p, K, e, w, s)
    BY <1>1 DEF FlagsAre
  <2>2. /\ w <= s /\ s <= Len(p.sets[e]) /\ w <= Len(p.waits[e])
        /\ Len(flag[e]) = s - w
        /\ \A i \in 1..Len(flag[e]) : flag[e][i] = K[p.sets[e][w + i]]
        /\ \A i \in 1..Len(p.sets[e]) : Ran(p, p.sets[e][i]) <=> i <= s
        /\ \A i \in 1..Len(p.waits[e]) : Ran(p, p.waits[e][i]) <=> i <= w
    BY <2>1 DEF FlagIs
  <2>3. /\ Len(p.sets[e]) \in Nat /\ Len(p.waits[e]) \in Nat
        /\ \A i \in 1..Len(p.sets[e]) :
             /\ p.sets[e][i] \in DOMAIN p.ins /\ p.ins[p.sets[e][i]].op = "set"
             /\ e \in p.ins[p.sets[e][i]].events /\ p.nth[p.sets[e][i]][e] = i
        /\ \A i \in 1..Len(p.waits[e]) :
             /\ p.waits[e][i] \in DOMAIN p.ins /\ p.ins[p.waits[e][i]].op = "wait"
             /\ e \in p.ins[p.waits[e][i]].events /\ p.nth[p.waits[e][i]][e] = i
    BY <1>10
  <2>4. \A i \in 1..Len(flag[e]) : flag[e][i] = K2[p.sets[e][w + i]]
    <3>1. \A i \in 1..Len(flag[e]) : w + i \in 1..Len(p.sets[e]) /\ w + i <= s
      BY <2>2, <2>3
    <3>2. ASSUME NEW i \in 1..Len(flag[e])
          PROVE  p.sets[e][w + i] \in DOMAIN p.ins \ {n}
      <4>1. w + i \in 1..Len(p.sets[e]) /\ w + i <= s
        BY <3>1
      <4>2. Ran(p, p.sets[e][w + i]) /\ p.sets[e][w + i] \in DOMAIN p.ins
        BY <2>2, <2>3, <4>1
      <4> QED
        BY <1>2, <4>2
    <3> QED
      BY <1>3, <2>2, <3>2
  <2>5. CASE p.ins[n].op = "do" \/ e \notin p.ins[n].events
    <3>1. flag'[e] = flag[e]
      BY <1>1, <1>6, <2>5
    <3>2. /\ \A i \in 1..Len(p.sets[e]) : p.sets[e][i] # n
          /\ \A i \in 1..Len(p.waits[e]) : p.waits[e][i] # n
      BY <2>3, <2>5
    <3>3. /\ \A i \in 1..Len(p.sets[e]) : Ran(p, p.sets[e][i])' <=> i <= s
          /\ \A i \in 1..Len(p.waits[e]) : Ran(p, p.waits[e][i])' <=> i <= w
      BY <1>4, <2>2, <2>3, <3>2
    <3> QED
      BY <2>2, <2>4, <3>1, <3>3
  <2>6. CASE p.ins[n].op = "set" /\ e \in p.ins[n].events
    <3>1. flag'[e] = Append(flag[e], known'[a])
      BY <1>1, <1>6, <2>6
    <3>2. /\ Len(flag'[e]) = Len(flag[e]) + 1
          /\ \A i \in 1..Len(flag[e]) : flag'[e][i] = flag[e][i]
          /\ flag'[e][Len(flag[e]) + 1] = known'[a]
      BY <1>6, <3>1, AppendProperties
    <3>3. s + 1 \in 1..Len(p.sets[e]) /\ p.sets[e][s + 1] = n
      BY <1>2, <1>7, <2>1, <2>6, NthOf
    <3>4. \A i \in 1..Len(p.sets[e]) : p.sets[e][i] = n => i = s + 1
      BY <2>3, <3>3
    <3>5. \A i \in 1..Len(p.waits[e]) : p.waits[e][i] # n
      BY <2>3, <2>6
    <3>6. Len(flag'[e]) = (s + 1) - w
      BY <2>2, <2>3, <3>2
    <3>7. ASSUME NEW i \in 1..Len(flag'[e])
          PROVE  flag'[e][i] = K2[p.sets[e][w + i]]
      <4>1. i \in 1..Len(flag[e]) \/ (i = Len(flag[e]) + 1 /\ w + i = s + 1)
        BY <2>2, <2>3, <3>6
      <4> QED
        BY <1>3, <2>4, <3>2, <3>3, <4>1
    <3>8. ASSUME NEW i \in 1..Len(p.sets[e])
          PROVE  Ran(p, p.sets[e][i])' <=> i <= s + 1
      BY <1>4, <2>2, <2>3, <3>3, <3>4
    <3>9. \A i \in 1..Len(p.waits[e]) : Ran(p, p.waits[e][i])' <=> i <= w
      BY <1>4, <2>2, <2>3, <3>5
    <3>10. s + 1 \in Nat /\ w <= s + 1 /\ s + 1 <= Len(p.sets[e])
      BY <2>2, <3>3
    <3> QED
      BY <2>2, <3>6, <3>7, <3>8, <3>9, <3>10
  <2>7. CASE p.ins[n].op = "wait" /\ e \in p.ins[n].events
    <3>1. flag'[e] = Tail(flag[e]) /\ flag[e] # <<>>
      BY <1>1, <1>5, <1>6, <2>7
    <3>2. /\ Len(flag'[e]) = Len(flag[e]) - 1 /\ Len(flag[e]) \in Nat /\ Len(flag[e]) > 0
          /\ \A i \in 1..(Len(flag[e]) - 1) : flag'[e][i] = flag[e][i + 1]
      <4>1. Len(Tail(flag[e])) = Len(flag[e]) - 1 /\ Len(flag[e]) \in Nat /\ Len(flag[e]) # 0
        BY <1>6, <3>1, HeadTailProperties, EmptySeq, LenProperties
      <4>2. \A i \in 1..Len(Tail(flag[e])) : Tail(flag[e])[i] = flag[e][i + 1]
        BY <1>6, <3>1, HeadTailProperties
      <4> QED
        BY <3>1, <4>1, <4>2
    <3>3. w + 1 \in 1..Len(p.waits[e]) /\ p.waits[e][w + 1] = n
      BY <1>2, <1>8, <2>1, <2>7, NthOf
    <3>4. \A i \in 1..Len(p.waits[e]) : p.waits[e][i] = n => i = w + 1
      BY <2>3, <3>3
    <3>5. \A i \in 1..Len(p.sets[e]) : p.sets[e][i] # n
      BY <2>3, <2>7
    <3>6. Len(flag'[e]) = s - (w + 1)
      BY <2>2, <2>3, <3>2
    <3>7. ASSUME NEW i \in 1..Len(flag'[e])
          PROVE  flag'[e][i] = K2[p.sets[e][(w + 1) + i]]
      <4>1. i + 1 \in 1..Len(flag[e]) /\ i \in 1..(Len(flag[e]) - 1) /\ w + (i + 1) = (w + 1) + i
        BY <3>2
      <4> QED
        BY <2>4, <3>2, <4>1
    <3>8. ASSUME NEW i \in 1..Len(p.waits[e])
          PROVE  Ran(p, p.waits[e][i])' <=> i <= w + 1
      BY <1>4, <2>2, <2>3, <3>3, <3>4
    <3>9. \A i \in 1..Len(p.sets[e]) : Ran(p, p.sets[e][i])' <=> i <= s
      BY <1>4, <2>2, <2>3, <3>5
    <3>10. w + 1 \in Nat /\ w + 1 <= s /\ w + 1 <= Len(p.waits[e])
      BY <2>2, <3>2, <3>3
    <3> QED
      BY <2>2, <3>6, <3>7, <3>8, <3>9, <3>10
  <2> QED
    BY <1>1, <2>5, <2>6, <2>7
<1> QED
  BY <1>9 DEF FlagsAre, FlagIs

(* A step of any agent leaves the tables telling the truth.                *)
LEMMA BaseAfter ==
    ASSUME NEW p, WellFormed(p), P = p, NEW K, Base(p, K), NEW a \in DOMAIN p.queue, Step(a),
           NEW K2, Recorded(p, K, K2, a)
    PROVE  Base(p, K2)'
<1>1. Types(p)'
  BY TypesAfter
<1>2. KnownIs(p, K2)' /\ HandedIs(p, K2)'
  BY KnownAfter
<1>3. FlagsAre(p, K2)'
  BY FlagsAfter
<1>4. /\ Closed(p)' /\ Truthful(p, K2)'
      /\ ClockOK(p, K2, Done(p)') /\ OrderOK(p, K2, Done(p)')
  BY ClocksAfter
<1>5. K2 \in Clocks(p)
  BY DEF Recorded
<1>6. ClockOK(p, K2, Done(p))' /\ OrderOK(p, K2, Done(p))'
  BY <1>4 DEF ClockOK, OrderOK, Joins, Before, RightBefore, AgentOf, ScalarOf
<1>7. (K2 \in Clocks(p))'
  BY <1>5 DEF Clocks
<1> QED
  BY <1>1, <1>2, <1>3, <1>4, <1>6, <1>7 DEF Base

(* Only one clock is an instruction's own step and all that what it comes  *)
(* right after knows.                                                      *)
LEMMA SameClock ==
    ASSUME NEW p, WellFormed(p), NEW K \in Clocks(p), NEW n \in DOMAIN p.ins,
           NEW c, Joins(p, K, n, c), NEW d, Joins(p, K, n, d)
    PROVE  c = d
<1>1. /\ c \in [DOMAIN p.queue -> Nat] /\ d \in [DOMAIN p.queue -> Nat]
      /\ c[AgentOf(p, n)] = d[AgentOf(p, n)]
  BY DEF Joins
<1>2. ASSUME NEW x, Joins(p, K, n, x), NEW y, Joins(p, K, n, y),
             NEW b \in DOMAIN p.queue \ {AgentOf(p, n)}
      PROVE  x[b] <= y[b]
  <2>1. x[b] \in Nat /\ y[b] \in Nat
    BY <1>2 DEF Joins
  <2>2. x[b] = 0 \/ \E m \in DOMAIN p.ins : RightBefore(p, m, n) /\ K[m][b] = x[b]
    BY <1>2 DEF Joins
  <2>3. \A m \in DOMAIN p.ins : RightBefore(p, m, n) => K[m][b] <= y[b]
    BY <1>2 DEF Joins
  <2> QED
    BY <2>1, <2>2, <2>3
<1>3. \A b \in DOMAIN p.queue \ {AgentOf(p, n)} : c[b] <= d[b] /\ d[b] <= c[b]
  BY <1>2
<1>4. \A b \in DOMAIN p.queue : c[b] \in Nat /\ d[b] \in Nat
  BY <1>1
<1>5. \A b \in DOMAIN p.queue : c[b] = d[b]
  BY <1>1, <1>3, <1>4
<1> QED
  BY <1>1, <1>5

(* An agent knows of its own steps. *)
LEMMA OwnSteps ==
    ASSUME NEW p, WellFormed(p), P = p, NEW K, Base(p, K), NEW a \in DOMAIN p.queue, Ready(a)
    PROVE  Learnt(a, a) = pos[a] /\ pos[a] \in Nat
<1> DEFINE n == Current(a)
           own == p.queue[a][p.place[n] - 1]
<1>1. /\ Types(p) /\ K \in Clocks(p) /\ KnownIs(p, K) /\ HandedIs(p, K) /\ FlagsAre(p, K)
      /\ ClockOK(p, K, Done(p)) /\ Closed(p) /\ Busy(a) /\ Issued(a)
  BY DEF Base, Ready
<1>2. Learnt(a, a) \in Nat /\ Learnt(a, a) <= pos[a] /\ pos[a] \in Nat
  BY LearntHappened
<1>3. p.place[n] > 1 => own \in DOMAIN p.ins /\ K[own][a] <= Learnt(a, a)
  BY <1>1, LearntIs
<1>4. AgentOf(p, n) = a /\ p.place[n] = pos[a] + 1 /\ pos[a] + 1 \in 1..Len(p.queue[a])
  BY <1>1, AtCurrent
<1>5. \A m : RightBefore(p, m, n) => m \in Done(p)
  BY <1>1, ComesAfter
<1> HIDE DEF n
<1>6. CASE pos[a] = 0
  BY <1>2, <1>6
<1>7. CASE pos[a] > 0
  <2>1. p.place[n] > 1 /\ p.place[n] - 1 = pos[a] /\ pos[a] \in 1..Len(p.queue[a])
    BY <1>2, <1>4, <1>7
  <2>2. own \in Done(p)
    BY <1>4, <1>5, <2>1 DEF RightBefore
  <2>3. AgentOf(p, own) = a /\ p.place[own] = pos[a]
    BY <2>1, QueueOf
  <2>4. K[own][a] = pos[a]
    BY <1>1, <2>2, <2>3 DEF ClockOK, Joins
  <2> QED
    BY <1>2, <1>3, <2>1, <2>4
<1> QED
  BY <1>2, <1>6, <1>7

(* What an agent knows of before its current instruction is what happens   *)
(* before that instruction.                                                *)
LEMMA KnowsIs ==
    ASSUME NEW p, WellFormed(p), P = p, NEW K, Base(p, K), NEW a \in DOMAIN p.queue, Ready(a),
           p.ins[Current(a)].op # "wait",
           NEW clock, Joins(p, K, Current(a), clock),
           NEW m \in DOMAIN p.ins, m # Current(a)
    PROVE  Knows(a, m) <=> p.place[m] <= clock[AgentOf(p, m)]
<1> DEFINE n == Current(a)
<1>1. Types(p) /\ K \in Clocks(p) /\ Busy(a)
  BY DEF Base, Ready
<1>2. /\ n \in DOMAIN p.ins /\ AgentOf(p, n) = a /\ p.place[n] = pos[a] + 1
      /\ p.queue[a][pos[a] + 1] = n
  BY <1>1, AtCurrent
<1>3. Joins(p, K, n, [Knowledge(a) EXCEPT ![a] = pos[a] + 1])
  BY QuietJoins
<1>4. clock = [Knowledge(a) EXCEPT ![a] = pos[a] + 1]
  <2> HIDE DEF n
  <2>1. Joins(p, K, n, clock)
    BY DEF n
  <2> QED
    BY <1>1, <1>2, <1>3, <2>1, SameClock
<1>5. /\ clock[a] = pos[a] + 1
      /\ \A b \in DOMAIN p.queue \ {a} : clock[b] = Learnt(a, b)
  BY <1>4 DEF Knowledge, Agents
<1>6. Learnt(a, a) = pos[a] /\ pos[a] \in Nat
  BY OwnSteps
<1>7. /\ AgentOf(p, m) \in DOMAIN p.queue /\ p.place[m] \in Nat
      /\ p.queue[AgentOf(p, m)][p.place[m]] = m
  BY QueueOf
<1>8. m # n
  OBVIOUS
<1>9. Knows(a, m) <=> Learnt(a, AgentOf(p, m)) >= p.place[m]
  <2>1. m # 0
    BY DEF WellFormed
  <2> QED
    BY <2>1 DEF Knows, AgentOf
<1> HIDE DEF n
<1>10. CASE AgentOf(p, m) = a
  BY <1>2, <1>5, <1>6, <1>7, <1>8, <1>9, <1>10
<1>11. CASE AgentOf(p, m) # a
  <2>1. Learnt(a, AgentOf(p, m)) \in Nat
    BY <1>7, LearntHappened
  <2> QED
    BY <1>5, <1>7, <1>9, <1>11, <2>1
<1> QED
  BY <1>10, <1>11

-----------------------------------------------------------------------------
(* The current instruction of an agent is not in a race: what has touched  *)
(* its buffers before happens before it.                                   *)
LEMMA TouchedBefore ==
    ASSUME NEW p, WellFormed(p), P = p, NEW K, Base(p, K), MemIs(p, K), NoRace,
           NEW a \in DOMAIN p.queue, Step(a), p.ins[Current(a)].op = "do",
           NEW K2, Recorded(p, K, K2, a), NEW b \in p.buffers,
           Reads(p, Current(a), b) \/ Writes(p, Current(a), b)
    PROVE  /\ mem[b].writer # 0 => Before(p, K2, mem[b].writer, Current(a))
           /\ \A m \in Done(p) : Writes(p, m, b) => Before(p, K2, m, Current(a))
           /\ Writes(p, Current(a), b) =>
                \A m \in Done(p) : Reads(p, m, b) => Before(p, K2, m, Current(a))
<1> DEFINE n == Current(a)
           w == mem[b].writer
<1>1. /\ Ready(a) /\ Busy(a) /\ Issued(a) /\ Joins(p, K, n, known'[a])
  BY StepIs
<1>2. Types(p) /\ Active(a) /\ a \in Agents
  BY <1>1 DEF Base, Active, Instruction, Agents
<1>3. /\ n \in DOMAIN p.ins /\ n \notin Done(p)
  BY <1>1, <1>2, AtCurrent
<1>4. K2 \in Clocks(p) /\ K2[n] = known'[a] /\ \A m \in DOMAIN p.ins \ {n} : K2[m] = K[m]
  BY DEF Recorded
<1>5. \A m \in DOMAIN p.ins : m # n => (Knows(a, m) <=> Before(p, K2, m, n))
  <2> SUFFICES ASSUME NEW m \in DOMAIN p.ins, m # n
               PROVE  Knows(a, m) <=> Before(p, K2, m, n)
    OBVIOUS
  <2>1. Knows(a, m) <=> p.place[m] <= known'[a][AgentOf(p, m)]
    BY <1>1, KnowsIs
  <2> QED
    BY <1>4, <2>1 DEF Before
<1>6. /\ \A c \in p.ins[n].srcs \cup {p.ins[n].dst} : Knows(a, mem[c].writer)
      /\ \A m \in mem[p.ins[n].dst].readers : Knows(a, m)
  BY <1>2 DEF NoRace, Instruction
<1>7. OrderOK(p, K2, Done(p) \cup {n})
  BY DoneAfter, ClocksAfter
<1>8. /\ w # 0 => w \in Done(p) /\ Writes(p, w, b)
      /\ \A r \in mem[b].readers : r \in Done(p) /\ Reads(p, r, b)
      /\ \A m \in Done(p) : Writes(p, m, b) => w # 0 /\ (m = w \/ Before(p, K, m, w))
      /\ \A m \in Done(p) : Reads(p, m, b) =>
           m \in mem[b].readers \/ (w # 0 /\ (m = w \/ Before(p, K, m, w)))
  BY DEF MemIs
<1>9. /\ b \in p.ins[n].srcs \cup {p.ins[n].dst}
      /\ Writes(p, n, b) => b = p.ins[n].dst
  BY DEF Reads, Writes
<1>10. \A m \in Done(p) : m \in DOMAIN p.ins /\ m # n /\ K2[m] = K[m]
  BY <1>3, <1>4 DEF Done
<1>a. Writes(p, Current(a), b) <=> Writes(p, n, b)
  OBVIOUS
<1> HIDE DEF n, w
<1>11. w # 0 => Before(p, K2, w, n)
  BY <1>5, <1>6, <1>8, <1>9, <1>10 DEF w
<1>12. ASSUME NEW m \in Done(p), w # 0, m = w \/ Before(p, K, m, w)
       PROVE  Before(p, K2, m, n)
  <2>1. CASE m = w
    BY <1>11, <1>12, <2>1
  <2>2. CASE Before(p, K, m, w)
    <3>1. w \in Done(p) /\ Before(p, K2, w, n)
      BY <1>8, <1>11, <1>12
    <3>2. AgentOf(p, m) \in DOMAIN p.queue /\ p.place[m] \in Nat
      BY <1>10, QueueOf
    <3>3. \A c \in DOMAIN p.queue : K2[w][c] <= K2[n][c]
      BY <1>7, <3>1 DEF OrderOK
    <3>4. p.place[m] <= K2[w][AgentOf(p, m)]
      BY <1>10, <2>2, <3>1 DEF Before
    <3>5. K2[w][AgentOf(p, m)] \in Nat /\ K2[n][AgentOf(p, m)] \in Nat
      BY <1>3, <1>4, <1>10, <3>1, <3>2 DEF Clocks
    <3>6. K2[w][AgentOf(p, m)] <= K2[n][AgentOf(p, m)]
      BY <3>2, <3>3
    <3> QED
      BY <3>2, <3>4, <3>5, <3>6 DEF Before
  <2> QED
    BY <1>12, <2>1, <2>2
<1>13. \A m \in Done(p) : Writes(p, m, b) => Before(p, K2, m, n)
  BY <1>8, <1>12
<1>14. ASSUME Writes(p, n, b), NEW m \in Done(p), Reads(p, m, b)
       PROVE  Before(p, K2, m, n)
  <2>1. CASE m \in mem[b].readers
    BY <1>5, <1>6, <1>9, <1>10, <1>14, <2>1
  <2>2. CASE w # 0 /\ (m = w \/ Before(p, K, m, w))
    BY <1>12, <2>2
  <2> QED
    BY <1>8, <1>14, <2>1, <2>2
<1> QED
  BY <1>11, <1>13, <1>14, <1>a DEF n, w

(* A buffer keeps telling of its last writer, and of those that have read  *)
(* it since.                                                               *)
LEMMA MemAfter ==
    ASSUME NEW p, WellFormed(p), P = p, NEW K, Base(p, K), MemIs(p, K), NoRace,
           NEW a \in DOMAIN p.queue, Step(a), NEW K2, Recorded(p, K, K2, a)
    PROVE  MemIs(p, K2)'
<1> DEFINE n == Current(a)
           D == Done(p)
<1>1. /\ Ready(a) /\ Busy(a) /\ p.ins[n].op \in {"set", "wait", "do"}
      /\ p.ins[n].op # "do" => mem' = mem
  BY StepIs
<1>2. Types(p)
  BY DEF Base
<1>3. /\ n \in DOMAIN p.ins /\ n \notin D
  BY <1>1, <1>2, AtCurrent
<1>4. \A m \in D : m # n /\ K2[m] = K[m]
  BY <1>3 DEF Recorded, Done
<1>5. p.ins[n].op = "do" => mem' = [b \in DOMAIN mem |->
                     IF b = p.ins[n].dst THEN [writer |-> n, readers |-> {}]
                     ELSE IF b \in p.ins[n].srcs
                     THEN [mem[b] EXCEPT !.readers = @ \cup {n}] ELSE mem[b]]
  BY TransferIs
<1>6. Done(p)' = D \cup {n}
  BY DoneAfter
<1>7. p.ins[n].op = "do" => \A b \in p.buffers : Writes(p, n, b) =>
         \A m \in D : Writes(p, m, b) \/ Reads(p, m, b) => Before(p, K2, m, n)
  BY TouchedBefore
<1>8. 0 \notin DOMAIN p.ins
  BY DEF WellFormed
<1>9. \A b \in p.buffers : mem[b] = [writer |-> mem[b].writer, readers |-> mem[b].readers]
  BY <1>2 DEF Types
<1>10. DOMAIN mem = p.buffers
  BY <1>2 DEF Types
<1> HIDE DEF n, D
<1>11. ASSUME NEW b \in p.buffers
       PROVE  LET w == mem'[b].writer
              IN /\ w # 0 => w \in D \cup {n} /\ Writes(p, w, b)
                 /\ \A r \in mem'[b].readers : r \in D \cup {n} /\ Reads(p, r, b)
                 /\ \A m \in D \cup {n} : Writes(p, m, b) =>
                      w # 0 /\ (m = w \/ Before(p, K2, m, w))
                 /\ \A m \in D \cup {n} : Reads(p, m, b) =>
                      m \in mem'[b].readers \/ (w # 0 /\ (m = w \/ Before(p, K2, m, w)))
  <2> DEFINE v == mem[b].writer
  <2>1. /\ v # 0 => v \in D /\ Writes(p, v, b)
        /\ \A r \in mem[b].readers : r \in D /\ Reads(p, r, b)
        /\ \A m \in D : Writes(p, m, b) => v # 0 /\ (m = v \/ Before(p, K2, m, v))
        /\ \A m \in D : Reads(p, m, b) =>
             m \in mem[b].readers \/ (v # 0 /\ (m = v \/ Before(p, K2, m, v)))
    BY <1>4 DEF MemIs, D, Before
  <2>2. CASE p.ins[n].op # "do"
    <3>1. mem'[b] = mem[b] /\ ~Writes(p, n, b) /\ ~Reads(p, n, b)
      BY <1>1, <2>2 DEF Writes, Reads
    <3> QED
      BY <2>1, <3>1
  <2>3. CASE p.ins[n].op = "do" /\ b = p.ins[n].dst
    <3>1. mem'[b].writer = n /\ mem'[b].readers = {}
      BY <1>5, <1>10, <2>3
    <3>2. Writes(p, n, b) /\ n # 0
      BY <1>3, <1>8, <2>3 DEF Writes
    <3> QED
      BY <1>7, <2>3, <3>1, <3>2
  <2>4. CASE p.ins[n].op = "do" /\ b # p.ins[n].dst /\ b \in p.ins[n].srcs
    <3>1. mem'[b].writer = v /\ mem'[b].readers = mem[b].readers \cup {n}
      BY <1>5, <1>9, <1>10, <2>4
    <3>2. ~Writes(p, n, b) /\ Reads(p, n, b)
      BY <2>4 DEF Writes, Reads
    <3> QED
      BY <2>1, <3>1, <3>2
  <2>5. CASE p.ins[n].op = "do" /\ b # p.ins[n].dst /\ b \notin p.ins[n].srcs
    <3>1. mem'[b] = mem[b]
      BY <1>5, <1>10, <2>5
    <3>2. ~Writes(p, n, b) /\ ~Reads(p, n, b)
      BY <2>5 DEF Writes, Reads
    <3> QED
      BY <2>1, <3>1, <3>2
  <2> QED
    BY <2>2, <2>3, <2>4, <2>5
<1>12. ASSUME NEW b \in p.buffers
       PROVE  LET w == mem'[b].writer
              IN /\ w # 0 => w \in Done(p)' /\ Writes(p, w, b)
                 /\ \A r \in mem'[b].readers : r \in Done(p)' /\ Reads(p, r, b)
                 /\ \A m \in Done(p)' : Writes(p, m, b) =>
                      w # 0 /\ (m = w \/ Before(p, K2, m, w))
                 /\ \A m \in Done(p)' : Reads(p, m, b) =>
                      m \in mem'[b].readers \/ (w # 0 /\ (m = w \/ Before(p, K2, m, w)))
  BY <1>6, <1>11
<1> QED
  BY <1>12 DEF MemIs, Writes, Reads, Before, AgentOf

-----------------------------------------------------------------------------
(* At the start nothing has been executed, and every table tells the truth. *)
LEMMA AtStart ==
    ASSUME NEW p, WellFormed(p), P = p, Init, NEW K \in Clocks(p)
    PROVE  Base(p, K) /\ MemIs(p, K) /\ Done(p) = {}
<1> DEFINE agents == DOMAIN p.queue
<1>1. /\ pos = [a \in agents |-> 0] /\ known = [a \in agents |-> pos]
      /\ handed = [c \in p.cores |-> <<>>] /\ flag = [e \in DOMAIN p.waits |-> <<>>]
      /\ mem = [b \in p.buffers |-> [writer |-> 0, readers |-> {}]]
  BY DEF Init, Agents
<1>2. \A n \in DOMAIN p.ins : ~Ran(p, n)
  <2> SUFFICES ASSUME NEW n \in DOMAIN p.ins
               PROVE  ~Ran(p, n)
    OBVIOUS
  <2>1. AgentOf(p, n) \in agents /\ p.place[n] \in Nat /\ p.place[n] > 0
    BY QueueOf
  <2> QED
    BY <1>1, <2>1 DEF Ran
<1>3. Done(p) = {}
  BY <1>2 DEF Done
<1>4. Types(p)
  <2>1. \A a \in agents : Len(p.queue[a]) \in Nat
    BY QueueOf
  <2>2. <<>> \in Seq([agents -> Nat])
    BY EmptySeq
  <2>3. pos \in [agents -> Nat] /\ \A a \in agents : pos[a] <= Len(p.queue[a])
    BY <1>1, <2>1
  <2>4. known \in [agents -> [agents -> Nat]]
    BY <1>1, <2>3
  <2>5. handed \in [p.cores -> Seq([agents -> Nat])]
    BY <1>1, <2>2
  <2>6. flag \in [DOMAIN p.waits -> Seq([agents -> Nat])]
    BY <1>1, <2>2
  <2>7. mem \in [p.buffers -> [writer : {0} \cup DOMAIN p.ins, readers : SUBSET DOMAIN p.ins]]
    BY <1>1
  <2> QED
    BY <2>3, <2>4, <2>5, <2>6, <2>7 DEF Types
<1>5. KnownIs(p, K)
  BY <1>1 DEF KnownIs
<1>6. HandedIs(p, K)
  <2>1. \A a \in agents : a[1] \in p.cores
    BY DEF WellFormed
  <2>2. \A a \in agents : handed[a[1]] = <<>> /\ pos[a] = 0
    BY <1>1, <2>1
  <2>3. \A a \in agents : Len(handed[a[1]]) = pos[a] /\ \A i \in 1..pos[a] : FALSE
    BY <2>2, EmptySeq
  <2> QED
    BY <2>3 DEF HandedIs
<1>7. FlagsAre(p, K)
  <2> SUFFICES ASSUME NEW e \in DOMAIN p.waits
               PROVE  FlagIs(p, K, e, 0, 0)
    BY DEF FlagsAre
  <2>1. flag[e] = <<>> /\ Len(flag[e]) = 0
    BY <1>1, EmptySeq
  <2>2. /\ Len(p.sets[e]) \in Nat /\ Len(p.waits[e]) \in Nat
        /\ \A i \in 1..Len(p.sets[e]) : p.sets[e][i] \in DOMAIN p.ins
        /\ \A i \in 1..Len(p.waits[e]) : p.waits[e][i] \in DOMAIN p.ins
    BY UsesOf
  <2> QED
    BY <1>2, <2>1, <2>2 DEF FlagIs
<1>8. MemIs(p, K)
  BY <1>1, <1>3 DEF MemIs
<1> QED
  BY <1>3, <1>4, <1>5, <1>6, <1>7, <1>8 DEF Base, Closed, Truthful, ClockOK, OrderOK

-----------------------------------------------------------------------------
(* The clocks show that the instructions in D are in no race, read what    *)
(* they should, and set no event too often.                                *)
Shown(p, K, D) == RaceOK(p, K, D) /\ ReadOK(p, K, D) /\ FlagOK(p, K, D)

(* Every event is waited for as often as it is set. *)
Balanced(p) == \A e \in DOMAIN p.waits : Len(p.sets[e]) = Len(p.waits[e])

(* What one complete run of a stream shows of all of them: the clocks of   *)
(* its instructions are such that conflicting ones are in order, every one *)
(* reads what running the stream in order would have put there, no event   *)
(* is set more often ahead of its waits than it may be, all that is set is *)
(* waited for, and the results are right.                                  *)
Verdict(p, K) ==
    /\ K \in Clocks(p)
    /\ ClockOK(p, K, DOMAIN p.ins) /\ OrderOK(p, K, DOMAIN p.ins)
    /\ Shown(p, K, DOMAIN p.ins) /\ Balanced(p)
    /\ p.stored = p.expected

(* What the run shows about an instruction when it is executed.            *)
LEMMA ShownAfter ==
    ASSUME NEW p, WellFormed(p), P = p, NEW K, Base(p, K), MemIs(p, K), Shown(p, K, Done(p)),
           NoRace, ReadsInOrder, FlagsHold,
           NEW a \in DOMAIN p.queue, Step(a), NEW K2, Recorded(p, K, K2, a)
    PROVE  Shown(p, K2, Done(p) \cup {Current(a)})
<1> DEFINE n == Current(a)
           D == Done(p)
<1>1. /\ Ready(a) /\ Busy(a) /\ Issued(a) /\ Joins(p, K, n, known'[a])
  BY StepIs
<1>2. Types(p) /\ a \in Agents
  BY DEF Base, Agents
<1>3. /\ n \in DOMAIN p.ins /\ n \notin D
  BY <1>1, <1>2, AtCurrent
<1>4. K2[n] = known'[a] /\ \A m \in DOMAIN p.ins \ {n} : K2[m] = K[m]
  BY DEF Recorded
<1>5. OrderOK(p, K2, D \cup {n}) /\ Truthful(p, K2)'
  BY DoneAfter, ClocksAfter
<1>6. p.ins[n].op # "wait" => \A m \in DOMAIN p.ins :
         m # n => (Knows(a, m) <=> Before(p, K2, m, n))
  <2> SUFFICES ASSUME p.ins[n].op # "wait", NEW m \in DOMAIN p.ins, m # n
               PROVE  Knows(a, m) <=> Before(p, K2, m, n)
    OBVIOUS
  <2>1. Knows(a, m) <=> p.place[m] <= known'[a][AgentOf(p, m)]
    BY <1>1, KnowsIs
  <2> QED
    BY <1>4, <2>1 DEF Before
<1>7. p.ins[n].op = "do" => \A b \in p.buffers :
         /\ Reads(p, n, b) \/ Writes(p, n, b) =>
              \A m \in D : Writes(p, m, b) => Before(p, K2, m, n)
         /\ Writes(p, n, b) => \A m \in D : Reads(p, m, b) => Before(p, K2, m, n)
         /\ Reads(p, n, b) => (mem[b].writer # 0 => Before(p, K2, mem[b].writer, n))
  BY TouchedBefore
<1>8. p.ins[n].op = "do" => \A b \in p.ins[n].srcs : mem[b].writer = p.inOrder[n][b]
  BY <1>1, <1>2 DEF ReadsInOrder, Active, Instruction
<1>9. p.ins[n].op = "set" => \A e \in p.ins[n].events :
         LET consumed == p.nth[n][e] - Limit(e)
         IN consumed > 0 => consumed <= Len(p.waits[e]) /\ Knows(a, p.waits[e][consumed])
  BY <1>1, <1>2 DEF FlagsHold, Within, Limit, Instruction
<1>10. \A m \in D : m \in DOMAIN p.ins /\ m # n /\ K2[m] = K[m]
  BY <1>3, <1>4 DEF Done
<1> HIDE DEF n, D
<1>11. RaceOK(p, K, D) /\ ReadOK(p, K, D) /\ FlagOK(p, K, D) /\ MemIs(p, K)
  BY DEF Shown, D
<1>12. RaceOK(p, K2, D \cup {n})
  <2> SUFFICES ASSUME NEW m \in D \cup {n}, NEW l \in D \cup {n}, NEW b \in p.buffers, m # l,
                      Writes(p, m, b), Writes(p, l, b) \/ Reads(p, l, b)
               PROVE  Before(p, K2, m, l) \/ Before(p, K2, l, m)
    BY DEF RaceOK
  <2>1. CASE m \in D /\ l \in D
    BY <1>10, <1>11, <2>1 DEF RaceOK, Before
  <2>2. CASE m = n
    BY <1>7, <2>2 DEF Writes
  <2>3. CASE l = n
    BY <1>7, <2>3 DEF Writes, Reads
  <2> QED
    BY <2>1, <2>2, <2>3
<1>13. ReadOK(p, K2, D \cup {n})
  <2> SUFFICES ASSUME NEW l \in D \cup {n}, NEW b \in p.buffers, Reads(p, l, b)
               PROVE  LET source == p.inOrder[l][b]
                      IN /\ source # 0 => /\ source \in D \cup {n} /\ source # l
                                          /\ Writes(p, source, b) /\ Before(p, K2, source, l)
                         /\ \A m \in D \cup {n} :
                              (Writes(p, m, b) /\ m # l /\ Before(p, K2, m, l)) =>
                                source # 0 /\ (m = source \/ Before(p, K2, m, source))
    BY DEF ReadOK
  <2> DEFINE source == p.inOrder[l][b]
  <2>1. CASE l \in D
    <3>1. /\ source # 0 => /\ source \in D /\ source # l
                           /\ Writes(p, source, b) /\ Before(p, K, source, l)
          /\ \A m \in D : (Writes(p, m, b) /\ m # l /\ Before(p, K, m, l)) =>
               source # 0 /\ (m = source \/ Before(p, K, m, source))
      BY <1>11, <2>1 DEF ReadOK
    <3> HIDE DEF source
    <3>2. ~Before(p, K2, n, l)
      <4>1. Before(p, K2, n, l) => n \in D
        <5>1. /\ AgentOf(p, n) \in DOMAIN p.queue /\ p.place[n] \in Nat
          BY <1>3, QueueOf
        <5>2. K2[l][AgentOf(p, n)] <= pos[AgentOf(p, n)]
          BY <1>10, <2>1, <5>1 DEF Base, Truthful, D
        <5>3. K2[l][AgentOf(p, n)] \in Nat /\ pos[AgentOf(p, n)] \in Nat
          BY <1>2, <1>10, <2>1, <5>1 DEF Recorded, Clocks, Types
        <5> QED
          BY <1>3, <5>1, <5>2, <5>3 DEF Before, D, Done, Ran
      <4> QED
        BY <1>3, <4>1
    <3>3. source # 0 => Before(p, K2, source, l)
      BY <1>10, <2>1, <3>1 DEF Before
    <3>4. ASSUME NEW m \in D, Writes(p, m, b), m # l, Before(p, K2, m, l)
          PROVE  source # 0 /\ (m = source \/ Before(p, K2, m, source))
      <4>1. source # 0 /\ (m = source \/ Before(p, K, m, source))
        BY <1>10, <2>1, <3>1, <3>4 DEF Before
      <4>2. source \in D
        BY <3>1, <4>1
      <4> QED
        BY <1>10, <4>1, <4>2 DEF Before
    <3> QED
      BY <3>1, <3>2, <3>3, <3>4 DEF source
  <2>2. CASE l = n
    <3>1. source = mem[b].writer /\ p.ins[n].op = "do"
      BY <1>8, <2>2 DEF Reads
    <3>2. /\ source # 0 => source \in D /\ Writes(p, source, b)
          /\ \A m \in D : Writes(p, m, b) =>
               source # 0 /\ (m = source \/ Before(p, K, m, source))
      BY <1>11, <3>1 DEF MemIs, D
    <3>3. source # 0 => Before(p, K2, source, n)
      BY <1>7, <2>2, <3>1
    <3> HIDE DEF source
    <3>4. \A m \in D : Writes(p, m, b) => source # 0 /\ (m = source \/ Before(p, K2, m, source))
      BY <1>10, <3>2 DEF Before
    <3> QED
      BY <1>10, <2>2, <3>2, <3>3, <3>4 DEF source
  <2> QED
    BY <2>1, <2>2
<1>14. FlagOK(p, K2, D \cup {n})
  <2> SUFFICES ASSUME NEW l \in D \cup {n}, p.ins[l].op = "set", NEW e \in p.ins[l].events,
                      p.nth[l][e] - Limit(e) > 0
               PROVE  /\ p.nth[l][e] - Limit(e) <= Len(p.waits[e])
                      /\ Before(p, K2, p.waits[e][p.nth[l][e] - Limit(e)], l)
    BY DEF FlagOK
  <2> DEFINE consumed == p.nth[l][e] - Limit(e)
  <2>1. CASE l \in D
    BY <1>10, <1>11, <2>1 DEF FlagOK, Before
  <2>2. CASE l = n
    <3>1. e \in DOMAIN p.waits /\ p.nth[n][e] \in 1..Len(p.sets[e])
      BY <1>3, <2>2, NthOf
    <3>2. Len(p.waits[e]) \in Nat /\ Len(p.sets[e]) \in Nat
      BY <3>1, UsesOf
    <3>3. consumed \in Int
      BY <2>2, <3>1, <3>2, LimitsAssumption DEF Limit
    <3>4. consumed <= Len(p.waits[e]) /\ Knows(a, p.waits[e][consumed])
      BY <1>9, <2>2
    <3> HIDE DEF consumed
    <3>5. consumed \in 1..Len(p.waits[e])
      BY <3>2, <3>3, <3>4 DEF consumed
    <3>6. p.waits[e][consumed] \in DOMAIN p.ins /\ p.ins[p.waits[e][consumed]].op = "wait"
      BY <3>1, <3>5, UsesOf
    <3> QED
      BY <1>6, <2>2, <3>4, <3>6 DEF consumed
  <2> QED
    BY <2>1, <2>2
<1>15. Shown(p, K2, D \cup {n})
  BY <1>12, <1>13, <1>14 DEF Shown
<1> QED
  BY <1>15 DEF n, D

-----------------------------------------------------------------------------
(* The instructions of a stream executed in any order its events allow:    *)
(* what the hardware does, and what a run in one order has to stand for.   *)
AnyOrder == Init /\ [][\E a \in Agents : Step(a)]_vars

(* There are tables that tell the truth, and what has been executed is as  *)
(* it should be.                                                           *)
Sound ==
    \E p, K : P = p /\ WellFormed(p) /\ Base(p, K) /\ MemIs(p, K) /\ Shown(p, K, Done(p))

(* The stream that is run is one that Loaded has put together. *)
LEMMA StreamsFit == Init => WellFormed(P)
  BY ProgramsAssumption DEF Init, P

(* It is so at the start. *)
LEMMA SoundAtStart == Init => Sound
<1> SUFFICES ASSUME Init PROVE Sound
  OBVIOUS
<1>1. PICK p : p = P
  OBVIOUS
<1>2. WellFormed(p)
  BY <1>1, StreamsFit
<1>3. PICK K : K = [n \in DOMAIN p.ins |-> [b \in DOMAIN p.queue |-> 0]]
  OBVIOUS
<1>4. K \in Clocks(p)
  BY <1>3 DEF Clocks
<1>5. Base(p, K) /\ MemIs(p, K) /\ Done(p) = {}
  BY <1>1, <1>2, <1>4, AtStart
<1>6. Shown(p, K, Done(p))
  BY <1>5 DEF Shown, RaceOK, ReadOK, FlagOK
<1> QED
  BY <1>1, <1>2, <1>5, <1>6 DEF Sound

(* It stays so in a run in which the properties hold, whatever agent makes *)
(* the next step.                                                          *)
LEMMA SoundAfter ==
    ASSUME Sound, NoRace, ReadsInOrder, FlagsHold, [\E a \in Agents : Step(a)]_vars
    PROVE  Sound'
<1>1. PICK p, K : P = p /\ WellFormed(p) /\ Base(p, K) /\ MemIs(p, K) /\ Shown(p, K, Done(p))
  BY DEF Sound
<1>2. ASSUME NEW a \in Agents, Step(a)
      PROVE  Sound'
  <2> DEFINE n == Current(a)
  <2>0. a \in DOMAIN p.queue
    BY <1>1, <1>2 DEF Agents
  <2>1. P' = p /\ Joins(p, K, n, known'[a]) /\ Busy(a)
    BY <1>1, <1>2, <2>0, StepIs
  <2>2. n \in DOMAIN p.ins /\ K \in Clocks(p)
    BY <1>1, <2>0, <2>1, AtCurrent DEF Base
  <2>3. PICK k2 : k2 = [K EXCEPT ![n] = known'[a]]
    OBVIOUS
  <2>4. Recorded(p, K, k2, a)
    <3>1. known'[a] \in [DOMAIN p.queue -> Nat]
      BY <2>1 DEF Joins
    <3> HIDE DEF n
    <3>2. k2 \in Clocks(p) /\ k2[n] = known'[a] /\ \A m \in DOMAIN p.ins \ {n} : k2[m] = K[m]
      BY <2>2, <2>3, <3>1 DEF Clocks
    <3> QED
      BY <3>2 DEF Recorded, n
  <2>5. Base(p, k2)'
    BY <1>1, <1>2, <2>0, <2>4, BaseAfter
  <2>6. MemIs(p, k2)'
    BY <1>1, <1>2, <2>0, <2>4, MemAfter
  <2>7. Shown(p, k2, Done(p) \cup {n})
    BY <1>1, <1>2, <2>0, <2>4, ShownAfter
  <2>8. Done(p)' = Done(p) \cup {n}
    BY <1>1, <1>2, <2>0, DoneAfter
  <2>9. Shown(p, k2, Done(p)')
    <3> HIDE DEF n
    <3> QED
      BY <2>7, <2>8
  <2>10. Shown(p, k2, Done(p))'
    BY <2>9 DEF Shown, RaceOK, ReadOK, FlagOK, Before, Writes, Reads, AgentOf, Limit
  <2> QED
    BY <1>1, <2>1, <2>5, <2>6, <2>10 DEF Sound, WellFormed, Uses, Follows, ScalarOf
<1>3. CASE UNCHANGED vars
  <2>1. P' = p
    BY <1>1, <1>3 DEF vars, P
  <2>2. Base(p, K)' /\ MemIs(p, K)' /\ Shown(p, K, Done(p))'
    BY <1>1, <1>3 DEF vars, Base, MemIs, Shown, Types, Closed, KnownIs, HandedIs, FlagsAre,
       FlagIs, Truthful, ClockOK, OrderOK, RaceOK, ReadOK, FlagOK, Done, Ran
  <2> QED
    BY <1>1, <2>1, <2>2 DEF Sound
<1> QED
  BY <1>2, <1>3

(* When all has been executed the tables are complete. *)
LEMMA DoneIsAll ==
    ASSUME NEW p, WellFormed(p), P = p, Types(p), AllDone
    PROVE  Done(p) = DOMAIN p.ins
<1> SUFFICES ASSUME NEW n \in DOMAIN p.ins
             PROVE  Ran(p, n)
  BY DEF Done
<1>1. AgentOf(p, n) \in DOMAIN p.queue /\ p.place[n] \in 1..Len(p.queue[AgentOf(p, n)])
      /\ Len(p.queue[AgentOf(p, n)]) \in Nat
  BY QueueOf
<1>2. pos[AgentOf(p, n)] \in Nat /\ pos[AgentOf(p, n)] >= Len(p.queue[AgentOf(p, n)])
  BY <1>1 DEF AllDone, Busy, Agents, Types
<1> QED
  BY <1>1, <1>2 DEF Ran

(* Then every event has been set, and waited for, as often as it can be.   *)
LEMMA LeftAtEnd ==
    ASSUME NEW p, WellFormed(p), P = p, NEW K, Base(p, K), AllDone, NEW e \in DOMAIN p.waits
    PROVE  Len(flag[e]) = Len(p.sets[e]) - Len(p.waits[e])
<1>1. Types(p) /\ FlagsAre(p, K)
  BY DEF Base
<1>2. PICK w, s \in Nat : FlagIs(p, K, e, w, s)
  BY <1>1 DEF FlagsAre
<1>3. /\ Len(p.sets[e]) \in Nat /\ Len(p.waits[e]) \in Nat
      /\ \A i \in 1..Len(p.sets[e]) : p.sets[e][i] \in DOMAIN p.ins
      /\ \A i \in 1..Len(p.waits[e]) : p.waits[e][i] \in DOMAIN p.ins
  BY UsesOf
<1>4. \A n \in DOMAIN p.ins : Ran(p, n)
  BY <1>1, DoneIsAll DEF Done
<1>5. s = Len(p.sets[e])
  <2>1. s < Len(p.sets[e]) => s + 1 \in 1..Len(p.sets[e])
    BY <1>3
  <2> QED
    BY <1>2, <1>3, <1>4, <2>1 DEF FlagIs
<1>6. w = Len(p.waits[e])
  <2>1. w < Len(p.waits[e]) => w + 1 \in 1..Len(p.waits[e])
    BY <1>3
  <2> QED
    BY <1>2, <1>3, <1>4, <2>1 DEF FlagIs
<1> QED
  BY <1>2, <1>5, <1>6 DEF FlagIs

(* At the end it is so of the whole stream. *)
LEMMA SoundAtEnd ==
    ASSUME Sound, Drained, DeliversResults, AllDone
    PROVE  \E K : Verdict(P, K)
<1>1. PICK p, K : P = p /\ WellFormed(p) /\ Base(p, K) /\ MemIs(p, K) /\ Shown(p, K, Done(p))
  BY DEF Sound
<1>2. Done(p) = DOMAIN p.ins
  BY <1>1, DoneIsAll DEF Base
<1>3. /\ K \in Clocks(p) /\ ClockOK(p, K, DOMAIN p.ins) /\ OrderOK(p, K, DOMAIN p.ins)
      /\ Shown(p, K, DOMAIN p.ins)
  BY <1>1, <1>2 DEF Base
<1>4. Balanced(p)
  <2> SUFFICES ASSUME NEW e \in DOMAIN p.waits
               PROVE  Len(p.sets[e]) = Len(p.waits[e])
    BY DEF Balanced
  <2>1. Len(flag[e]) = Len(p.sets[e]) - Len(p.waits[e])
    BY <1>1, LeftAtEnd
  <2>2. DOMAIN flag = DOMAIN p.waits
    BY <1>1 DEF Base, Types
  <2>3. flag[e] = <<>>
    BY <2>2 DEF Drained
  <2>4. Len(p.sets[e]) \in Nat /\ Len(p.waits[e]) \in Nat
    BY <1>1, UsesOf
  <2> QED
    BY <2>1, <2>3, <2>4, EmptySeq
<1>5. p.stored = p.expected
  BY <1>1 DEF DeliversResults
<1>6. Verdict(p, K)
  BY <1>3, <1>4, <1>5 DEF Verdict
<1> QED
  BY <1>1, <1>6

(* Every step of a run is a step of some agent. *)
LEMMA RunsInSomeOrder == Spec => AnyOrder
<1>1. [Next]_vars => [\E a \in Agents : Step(a)]_vars
  BY DEF Next
<1> QED
  BY <1>1, PTL DEF Spec, AnyOrder

(* One run of a stream to its end, in whatever order, in which no transfer *)
(* is in a race, every one reads what it should, no event is set too often,*)
(* all that is set is waited for and the results are right, shows that of  *)
(* the stream itself: it has clocks with a Verdict.                        *)
THEOREM OneRunDecides ==
    Spec /\ [](NoRace /\ ReadsInOrder /\ FlagsHold /\ Drained /\ DeliversResults)
      => [](AllDone => \E K : Verdict(P, K))
<1> DEFINE Good == NoRace /\ ReadsInOrder /\ FlagsHold /\ Drained /\ DeliversResults
           Some == \E a \in Agents : Step(a)
           Decided == AllDone => \E K : Verdict(P, K)
<1>1. Init => Sound
  BY SoundAtStart
<1>2. Sound /\ Good /\ [Some]_vars => Sound'
  BY SoundAfter
<1>3. Sound /\ Good => Decided
  BY SoundAtEnd
<1>4. Spec => Init /\ [][Some]_vars
  BY RunsInSomeOrder DEF AnyOrder
<1> HIDE DEF Good, Some, Decided
<1>5. Spec /\ []Good => []Decided
  BY <1>1, <1>2, <1>3, <1>4, PTL
<1> QED
  BY <1>5 DEF Good, Decided

-----------------------------------------------------------------------------
(* The other way round: with such clocks every order of execution is as    *)
(* good.                                                                   *)

(* What has not been executed does not happen before what has. *)
LEMMA NotYet ==
    ASSUME NEW p, WellFormed(p), P = p, NEW K, Base(p, K),
           NEW n \in DOMAIN p.ins, n \notin Done(p), NEW m \in Done(p)
    PROVE  ~Before(p, K, n, m)
<1>1. AgentOf(p, n) \in DOMAIN p.queue /\ p.place[n] \in Nat
  BY QueueOf
<1>2. K[m][AgentOf(p, n)] <= pos[AgentOf(p, n)]
  BY <1>1 DEF Base, Truthful
<1>3. K[m][AgentOf(p, n)] \in Nat /\ pos[AgentOf(p, n)] \in Nat
  BY <1>1 DEF Base, Clocks, Types, Done
<1> QED
  BY <1>1, <1>2, <1>3 DEF Before, Done, Ran

(* What happens before the current instruction has been executed, and the  *)
(* agent knows of it.                                                      *)
LEMMA ReadyKnows ==
    ASSUME NEW p, WellFormed(p), P = p, NEW K, Verdict(p, K), Base(p, K),
           NEW a \in DOMAIN p.queue, Ready(a), p.ins[Current(a)].op # "wait",
           NEW m \in DOMAIN p.ins, m # Current(a)
    PROVE  /\ Knows(a, m) <=> Before(p, K, m, Current(a))
           /\ Before(p, K, m, Current(a)) => m \in Done(p)
<1> DEFINE n == Current(a)
<1>1. n \in DOMAIN p.ins
  BY AtCurrent DEF Base, Ready
<1>2. Joins(p, K, n, K[n])
  <2> HIDE DEF n
  <2> QED
    BY <1>1 DEF Verdict, ClockOK
<1>3. Knows(a, m) <=> Before(p, K, m, n)
  BY <1>2, KnowsIs DEF Before
<1>4. ASSUME Knows(a, m)
      PROVE  m \in Done(p)
  <2>1. AgentOf(p, m) \in DOMAIN p.queue /\ p.place[m] \in Nat
    BY QueueOf
  <2>2. /\ Learnt(a, AgentOf(p, m)) \in Nat /\ Learnt(a, AgentOf(p, m)) <= pos[AgentOf(p, m)]
        /\ pos[AgentOf(p, m)] \in Nat
    BY <2>1, LearntHappened
  <2>3. m # 0
    BY DEF WellFormed
  <2>4. Learnt(a, AgentOf(p, m)) >= p.place[m]
    BY <1>4, <2>3 DEF Knows, AgentOf
  <2> QED
    BY <2>1, <2>2, <2>4 DEF Done, Ran
<1> QED
  BY <1>3, <1>4

(* With a Verdict an agent that is at a transfer knows of the last writer  *)
(* and the readers of its buffers: in the table they happen before it, as  *)
(* the transfer, which has not been executed, cannot happen before them.   *)
LEMMA VerdictNoRace ==
    ASSUME NEW p, WellFormed(p), P = p, NEW K, Verdict(p, K), Base(p, K), MemIs(p, K)
    PROVE  NoRace
<1> SUFFICES ASSUME NEW a \in Agents, Active(a)
             PROVE  /\ \A b \in p.ins[Current(a)].srcs \cup {p.ins[Current(a)].dst} :
                         Knows(a, mem[b].writer)
                    /\ \A m \in mem[p.ins[Current(a)].dst].readers : Knows(a, m)
  BY DEF NoRace, Instruction
<1> DEFINE n == Current(a)
<1>1. a \in DOMAIN p.queue /\ Busy(a) /\ Issued(a) /\ p.ins[n].op = "do" /\ Ready(a)
  BY DEF Active, Ready, Instruction, Agents
<1>2. n \in DOMAIN p.ins /\ n \notin Done(p)
  BY <1>1, AtCurrent DEF Base
<1>3. \A m \in DOMAIN p.ins : m # n => (Knows(a, m) <=> Before(p, K, m, n))
  <2> SUFFICES ASSUME NEW m \in DOMAIN p.ins, m # n
               PROVE  Knows(a, m) <=> Before(p, K, m, n)
    OBVIOUS
  <2> QED
    BY <1>1, ReadyKnows
<1> HIDE DEF n
<1>4. \A m \in Done(p) : m \in DOMAIN p.ins /\ m # n /\ ~Before(p, K, n, m)
  BY <1>2, NotYet DEF Done
<1>5. RaceOK(p, K, DOMAIN p.ins)
  BY DEF Verdict, Shown
<1>6. p.ins[n].dst \in p.buffers /\ p.ins[n].srcs \subseteq p.buffers
  BY <1>1, <1>2 DEF WellFormed
<1>7. ASSUME NEW b \in p.ins[n].srcs \cup {p.ins[n].dst}
      PROVE  Knows(a, mem[b].writer)
  <2>1. b \in p.buffers /\ (Writes(p, n, b) \/ Reads(p, n, b))
    BY <1>1, <1>6 DEF Writes, Reads
  <2>2. mem[b].writer # 0 => mem[b].writer \in Done(p) /\ Writes(p, mem[b].writer, b)
    BY <2>1 DEF MemIs
  <2>3. CASE mem[b].writer = 0
    BY <2>3 DEF Knows
  <2>4. CASE mem[b].writer # 0
    BY <1>2, <1>3, <1>4, <1>5, <2>1, <2>2, <2>4 DEF RaceOK
  <2> QED
    BY <2>3, <2>4
<1>8. ASSUME NEW m \in mem[p.ins[n].dst].readers
      PROVE  Knows(a, m)
  <2>1. m \in Done(p) /\ Reads(p, m, p.ins[n].dst)
    BY <1>6, <1>8 DEF MemIs
  <2>2. Writes(p, n, p.ins[n].dst)
    BY <1>1 DEF Writes
  <2> QED
    BY <1>2, <1>3, <1>4, <1>5, <1>6, <2>1, <2>2 DEF RaceOK
<1> QED
  BY <1>7, <1>8 DEF n

(* The last writer of a buffer is the source of its next reader: both have *)
(* been executed, and neither can happen before the other.                 *)
LEMMA VerdictReadsInOrder ==
    ASSUME NEW p, WellFormed(p), P = p, NEW K, Verdict(p, K), Base(p, K), MemIs(p, K)
    PROVE  ReadsInOrder
<1> SUFFICES ASSUME NEW a \in Agents, Active(a), NEW b \in p.ins[Current(a)].srcs
             PROVE  mem[b].writer = p.inOrder[Current(a)][b]
  BY DEF ReadsInOrder, Instruction
<1> DEFINE n == Current(a)
           w == mem[b].writer
           source == p.inOrder[n][b]
<1>1. a \in DOMAIN p.queue /\ Busy(a) /\ Issued(a) /\ p.ins[n].op = "do" /\ Ready(a)
  BY DEF Active, Ready, Instruction, Agents
<1>2. n \in DOMAIN p.ins /\ n \notin Done(p)
  BY <1>1, AtCurrent DEF Base
<1>3. \A m \in DOMAIN p.ins : m # n =>
         /\ Knows(a, m) <=> Before(p, K, m, n)
         /\ Before(p, K, m, n) => m \in Done(p)
  <2> SUFFICES ASSUME NEW m \in DOMAIN p.ins, m # n
               PROVE  /\ Knows(a, m) <=> Before(p, K, m, n)
                      /\ Before(p, K, m, n) => m \in Done(p)
    OBVIOUS
  <2> QED
    BY <1>1, ReadyKnows
<1>4. Knows(a, w)
  BY VerdictNoRace DEF NoRace, Instruction
<1>5. b \in p.ins[n].srcs
  OBVIOUS
<1> HIDE DEF n
<1>6. b \in p.buffers /\ Reads(p, n, b)
  BY <1>1, <1>2, <1>5 DEF WellFormed, Reads
<1>7. /\ w # 0 => w \in Done(p) /\ Writes(p, w, b)
      /\ \A m \in Done(p) : Writes(p, m, b) => w # 0 /\ (m = w \/ Before(p, K, m, w))
  BY <1>6 DEF MemIs
<1>8. /\ source # 0 => /\ source \in DOMAIN p.ins /\ source # n
                       /\ Writes(p, source, b) /\ Before(p, K, source, n)
      /\ \A m \in DOMAIN p.ins : (Writes(p, m, b) /\ m # n /\ Before(p, K, m, n)) =>
           source # 0 /\ (m = source \/ Before(p, K, m, source))
  BY <1>2, <1>6 DEF Verdict, Shown, ReadOK
<1>9. \A m \in Done(p) : m \in DOMAIN p.ins /\ m # n
  BY <1>2 DEF Done
<1> HIDE DEF w, source
<1>10. source # 0 => source \in Done(p)
  BY <1>3, <1>8
<1>11. w # 0 => w \in DOMAIN p.ins /\ w # n /\ Before(p, K, w, n)
  BY <1>3, <1>4, <1>7, <1>9
<1>12. \A m, l \in DOMAIN p.ins : Before(p, K, m, l) /\ m # l => ~Before(p, K, l, m)
  BY DEF Verdict, OrderOK
<1>13. ASSUME w = 0
       PROVE  w = source
  BY <1>7, <1>8, <1>10, <1>13
<1>14. ASSUME w # 0
       PROVE  w = source
  <2>1. source # 0 /\ (w = source \/ Before(p, K, w, source))
    BY <1>7, <1>8, <1>11, <1>14
  <2>2. source = w \/ Before(p, K, source, w)
    BY <1>7, <1>8, <1>10, <2>1
  <2> QED
    BY <1>8, <1>11, <1>12, <1>14, <2>1, <2>2
<1>15. w = source
  BY <1>13, <1>14
<1> QED
  BY <1>15 DEF n, w, source

(* The waits that must have consumed an event happen before its next set.  *)
LEMMA VerdictFlagsHold ==
    ASSUME NEW p, WellFormed(p), P = p, NEW K, Verdict(p, K), Base(p, K)
    PROVE  FlagsHold
<1> SUFFICES ASSUME NEW a \in Agents, Busy(a), Issued(a), p.ins[Current(a)].op = "set",
                    NEW e \in p.ins[Current(a)].events,
                    p.nth[Current(a)][e] - Limit(e) > 0
             PROVE  /\ p.nth[Current(a)][e] - Limit(e) <= Len(p.waits[e])
                    /\ Knows(a, p.waits[e][p.nth[Current(a)][e] - Limit(e)])
  BY DEF FlagsHold, Within, Instruction, Limit
<1> DEFINE n == Current(a)
           consumed == p.nth[n][e] - Limit(e)
<1>1. a \in DOMAIN p.queue /\ Ready(a)
  BY DEF Ready, Instruction, Agents
<1>2. n \in DOMAIN p.ins
  BY <1>1, AtCurrent DEF Base
<1>3. \A m \in DOMAIN p.ins : m # n => (Knows(a, m) <=> Before(p, K, m, n))
  <2> SUFFICES ASSUME NEW m \in DOMAIN p.ins, m # n
               PROVE  Knows(a, m) <=> Before(p, K, m, n)
    OBVIOUS
  <2> QED
    BY <1>1, ReadyKnows
<1>4. p.ins[n].op = "set" /\ e \in p.ins[n].events /\ consumed > 0
  OBVIOUS
<1> HIDE DEF n
<1>5. e \in DOMAIN p.waits /\ p.nth[n][e] \in 1..Len(p.sets[e])
  BY <1>2, <1>4, NthOf
<1>6. Len(p.waits[e]) \in Nat /\ Len(p.sets[e]) \in Nat
  BY <1>5, UsesOf
<1>7. consumed \in Int
  BY <1>5, <1>6, LimitsAssumption DEF Limit
<1>8. consumed <= Len(p.waits[e]) /\ Before(p, K, p.waits[e][consumed], n)
  BY <1>2, <1>4 DEF Verdict, Shown, FlagOK
<1> HIDE DEF consumed
<1>9. consumed \in 1..Len(p.waits[e])
  BY <1>4, <1>6, <1>7, <1>8
<1>10. p.waits[e][consumed] \in DOMAIN p.ins /\ p.ins[p.waits[e][consumed]].op = "wait"
  BY <1>5, <1>9, UsesOf
<1>11. consumed <= Len(p.waits[e]) /\ Knows(a, p.waits[e][consumed])
  BY <1>3, <1>4, <1>8, <1>10
<1> QED
  BY <1>11 DEF n, consumed

(* With as many waits as sets nothing is left at the end. *)
LEMMA VerdictDrained ==
    ASSUME NEW p, WellFormed(p), P = p, NEW K, Verdict(p, K), Base(p, K)
    PROVE  Drained
<1> SUFFICES ASSUME AllDone, NEW e \in DOMAIN flag
             PROVE  flag[e] = <<>>
  BY DEF Drained
<1>1. e \in DOMAIN p.waits /\ flag[e] \in Seq([DOMAIN p.queue -> Nat])
  BY DEF Base, Types
<1>2. Len(flag[e]) = Len(p.sets[e]) - Len(p.waits[e])
  BY <1>1, LeftAtEnd
<1>3. Len(p.sets[e]) = Len(p.waits[e]) /\ Len(p.sets[e]) \in Nat
  BY <1>1, UsesOf DEF Verdict, Balanced
<1> QED
  BY <1>1, <1>2, <1>3, EmptySeq

(* A step of any agent leaves the tables telling the truth that tell it of *)
(* the whole stream.                                                       *)
LEMMA VerdictAfter ==
    ASSUME NEW p, WellFormed(p), P = p, NEW K, Verdict(p, K), Base(p, K), MemIs(p, K),
           NEW a \in DOMAIN p.queue, Step(a)
    PROVE  P' = p /\ Base(p, K)' /\ MemIs(p, K)'
<1> DEFINE n == Current(a)
<1>1. P' = p /\ Joins(p, K, n, known'[a]) /\ Busy(a)
  BY StepIs
<1>2. n \in DOMAIN p.ins /\ K \in Clocks(p)
  BY <1>1, AtCurrent DEF Base
<1> HIDE DEF n
<1>3. Joins(p, K, n, K[n])
  BY <1>2 DEF Verdict, ClockOK
<1>4. K[n] = known'[a]
  BY <1>1, <1>2, <1>3, SameClock
<1>5. Recorded(p, K, K, a)
  BY <1>2, <1>4 DEF Recorded, n
<1>6. NoRace
  BY VerdictNoRace
<1>7. Base(p, K)'
  BY <1>5, BaseAfter
<1>8. MemIs(p, K)'
  BY <1>5, <1>6, MemAfter
<1> QED
  BY <1>1, <1>7, <1>8

(* What an instruction comes right after is another one, and happens       *)
(* before it.                                                              *)
LEMMA RightBeforeIs ==
    ASSUME NEW p, WellFormed(p), NEW K, Verdict(p, K), NEW n \in DOMAIN p.ins,
           NEW m \in DOMAIN p.ins, RightBefore(p, m, n)
    PROVE  m # n /\ Before(p, K, m, n)
<1>1. /\ AgentOf(p, n) \in DOMAIN p.queue
      /\ p.place[n] \in 1..Len(p.queue[AgentOf(p, n)])
      /\ Len(p.queue[AgentOf(p, n)]) \in Nat
      /\ AgentOf(p, m) \in DOMAIN p.queue /\ p.place[m] \in Nat
  BY QueueOf
<1>2. Before(p, K, m, n)
  <2>1. Joins(p, K, n, K[n]) /\ K[m][AgentOf(p, m)] = p.place[m]
    BY DEF Verdict, ClockOK, Joins
  <2>2. K[m][AgentOf(p, m)] <= K[n][AgentOf(p, m)]
    BY <1>1, <2>1 DEF Joins
  <2> QED
    BY <2>1, <2>2 DEF Before
<1>3. CASE p.place[n] > 1 /\ m = p.queue[AgentOf(p, n)][p.place[n] - 1]
  <2>1. p.place[n] - 1 \in 1..Len(p.queue[AgentOf(p, n)])
    BY <1>1, <1>3
  <2>2. p.place[m] = p.place[n] - 1
    BY <1>1, <1>3, <2>1, QueueOf
  <2> QED
    BY <1>1, <1>2, <2>2
<1>4. CASE p.needs[n] > 0 /\ m = p.queue[ScalarOf(AgentOf(p, n))][p.needs[n]]
  <2> DEFINE scalar == ScalarOf(AgentOf(p, n))
  <2>1. /\ scalar \in DOMAIN p.queue /\ p.needs[n] \in 1..Len(p.queue[scalar])
        /\ AgentOf(p, n) = scalar => p.needs[n] = p.place[n] - 1
    BY <1>4, NeedsOf
  <2>0. p.needs[n] > 0 /\ m = p.queue[scalar][p.needs[n]]
    BY <1>4
  <2> HIDE DEF scalar
  <2>2. AgentOf(p, m) = scalar /\ p.place[m] = p.needs[n]
    BY <2>0, <2>1, QueueOf
  <2>3. m # n
    BY <1>1, <2>1, <2>2
  <2> QED
    BY <1>2, <2>3
<1>5. CASE /\ p.ins[n].op = "wait"
           /\ \E e \in p.ins[n].events :
                p.nth[n][e] \in DOMAIN p.sets[e] /\ m = p.sets[e][p.nth[n][e]]
  <2>1. PICK e \in p.ins[n].events :
           p.nth[n][e] \in DOMAIN p.sets[e] /\ m = p.sets[e][p.nth[n][e]]
    BY <1>5
  <2>2. e \in DOMAIN p.waits
    BY <1>5, NthOf
  <2>3. DOMAIN p.sets[e] = 1..Len(p.sets[e])
    BY <2>2, InTurn
  <2>4. p.ins[m].op = "set"
    <3>1. \A i \in 1..Len(p.sets[e]) : p.ins[p.sets[e][i]].op = "set"
      BY <2>2, UsesOf
    <3> QED
      BY <2>1, <2>3, <3>1
  <2> QED
    BY <1>2, <1>5, <2>4
<1> QED
  BY <1>3, <1>4, <1>5 DEF RightBefore

(* Of the instructions that are left one comes right after executed ones   *)
(* only: one whose past has no other past as a part.                       *)
LEMMA FirstLeft ==
    ASSUME NEW p, WellFormed(p), P = p, NEW K, Verdict(p, K), Types(p), ~AllDone
    PROVE  \E n \in DOMAIN p.ins \ Done(p) :
             \A m \in DOMAIN p.ins : RightBefore(p, m, n) => m \in Done(p)
<1> DEFINE ins == DOMAIN p.ins
           Past(n) == {m \in ins : Before(p, K, m, n)}
           F == {Past(n) : n \in ins \ Done(p)}
           R == StrictSubsetOrdering(ins)
<1>1. F # {}
  <2>1. PICK a \in DOMAIN p.queue : Busy(a)
    BY DEF AllDone, Agents
  <2>2. Current(a) \in ins \ Done(p)
    BY <2>1, AtCurrent
  <2> QED
    BY <2>2
<1>2. F \subseteq FiniteSubsetsOf(ins)
  <2>1. IsFiniteSet(ins)
    BY DEF WellFormed
  <2>2. \A n \in ins : Past(n) \subseteq ins
    OBVIOUS
  <2> HIDE DEF ins, Past
  <2>3. \A n \in ins : IsFiniteSet(Past(n))
    BY <2>1, <2>2, FS_Subset
  <2> QED
    BY <2>2, <2>3 DEF FiniteSubsetsOf
<1>3. PICK x \in F : \A y \in F : <<y, x>> \notin R
  <2>1. IsWellFoundedOn(R, FiniteSubsetsOf(ins))
    BY FS_StrictSubsetOrderingWellFounded
  <2> HIDE DEF F, R
  <2> QED
    BY <1>1, <1>2, <2>1, WFMin
<1>4. PICK n \in ins \ Done(p) : x = Past(n)
  BY <1>3
<1>5. ASSUME NEW m \in ins, RightBefore(p, m, n), m \notin Done(p)
      PROVE  FALSE
  <2>1. m # n /\ Before(p, K, m, n)
    BY <1>5, RightBeforeIs
  <2>2. OrderOK(p, K, ins) /\ K \in Clocks(p) /\ ClockOK(p, K, ins)
    BY DEF Verdict
  <2>3. ~Before(p, K, n, m) /\ \A b \in DOMAIN p.queue : K[m][b] <= K[n][b]
    BY <2>1, <2>2 DEF OrderOK
  <2>4. Past(m) \subseteq Past(n)
    <3> SUFFICES ASSUME NEW l \in ins, Before(p, K, l, m)
                 PROVE  Before(p, K, l, n)
      OBVIOUS
    <3>1. AgentOf(p, l) \in DOMAIN p.queue /\ p.place[l] \in Nat
      BY QueueOf
    <3>2. K[m][AgentOf(p, l)] \in Nat /\ K[n][AgentOf(p, l)] \in Nat
      BY <2>2, <3>1 DEF Clocks
    <3>3. K[m][AgentOf(p, l)] <= K[n][AgentOf(p, l)]
      BY <2>3, <3>1
    <3> QED
      BY <3>1, <3>2, <3>3 DEF Before
  <2>5. n \in Past(n)
    <3>1. AgentOf(p, n) \in DOMAIN p.queue /\ p.place[n] \in Nat
      BY QueueOf
    <3>2. K[n][AgentOf(p, n)] = p.place[n]
      BY <2>2 DEF ClockOK, Joins
    <3> QED
      BY <3>1, <3>2 DEF Before
  <2>6. n \notin Past(m)
    BY <2>3
  <2>7. Past(m) \in F /\ Past(m) \subseteq ins /\ Past(n) \subseteq ins
    BY <1>5
  <2> HIDE DEF Past, F
  <2>8. <<Past(m), Past(n)>> \in R
    BY <2>4, <2>5, <2>6, <2>7 DEF StrictSubsetOrdering
  <2> QED
    BY <1>3, <1>4, <2>7, <2>8
<1> QED
  BY <1>4, <1>5

(* Its agent is at it, and nothing holds it up. *)
LEMMA SomeoneReady ==
    ASSUME NEW p, WellFormed(p), P = p, NEW K, Verdict(p, K), Base(p, K), ~AllDone
    PROVE  \E a \in Agents : Ready(a)
<1>1. Types(p) /\ FlagsAre(p, K)
  BY DEF Base
<1>2. PICK n \in DOMAIN p.ins \ Done(p) :
             \A m \in DOMAIN p.ins : RightBefore(p, m, n) => m \in Done(p)
  BY <1>1, FirstLeft
<1> DEFINE a == AgentOf(p, n)
<1>3. /\ a \in DOMAIN p.queue /\ p.place[n] \in 1..Len(p.queue[a]) /\ Len(p.queue[a]) \in Nat
      /\ p.queue[a][p.place[n]] = n
  BY QueueOf
<1>4. pos[a] \in Nat /\ pos[a] < p.place[n]
  BY <1>1, <1>2, <1>3 DEF Types, Done, Ran
<1>5. pos[a] >= p.place[n] - 1
  <2>1. CASE p.place[n] = 1
    BY <1>4, <2>1
  <2>2. CASE p.place[n] > 1
    <3> DEFINE m == p.queue[a][p.place[n] - 1]
    <3>1. p.place[n] - 1 \in 1..Len(p.queue[a])
      BY <1>3, <2>2
    <3>2. m \in DOMAIN p.ins /\ AgentOf(p, m) = a /\ p.place[m] = p.place[n] - 1
      BY <1>3, <3>1, QueueOf
    <3>3. RightBefore(p, m, n)
      BY <2>2 DEF RightBefore
    <3> QED
      BY <1>2, <3>2, <3>3 DEF Done, Ran
  <2> QED
    BY <1>3, <2>1, <2>2
<1>6. Busy(a) /\ Current(a) = n
  <2>1. pos[a] + 1 = p.place[n] /\ pos[a] < Len(p.queue[a])
    BY <1>3, <1>4, <1>5
  <2> QED
    BY <1>3, <2>1 DEF Busy, Current
<1>7. Issued(a)
  <2> SUFFICES ASSUME p.needs[n] > 0
               PROVE  pos[ScalarOf(a)] >= p.needs[n]
    BY <1>6 DEF Issued
  <2> DEFINE scalar == ScalarOf(a)
             m == p.queue[scalar][p.needs[n]]
  <2>1. scalar \in DOMAIN p.queue /\ p.needs[n] \in 1..Len(p.queue[scalar])
    BY NeedsOf
  <2>2. RightBefore(p, m, n)
    BY DEF RightBefore
  <2> HIDE DEF scalar
  <2>3. m \in DOMAIN p.ins /\ AgentOf(p, m) = scalar /\ p.place[m] = p.needs[n]
    BY <2>1, QueueOf
  <2>4. m \in Done(p)
    BY <1>2, <2>2, <2>3
  <2>5. p.needs[n] <= pos[scalar]
    BY <2>3, <2>4 DEF Done, Ran
  <2>6. pos[scalar] \in Nat /\ p.needs[n] \in Nat
    BY <1>1, <2>1 DEF Types
  <2> QED
    BY <2>5, <2>6 DEF scalar
<1>8. ASSUME p.ins[n].op = "wait", NEW e \in p.ins[n].events
      PROVE  flag[e] # <<>>
  <2> DEFINE i == p.nth[n][e]
             m == p.sets[e][i]
  <2>1. e \in DOMAIN p.waits /\ i \in 1..Len(p.waits[e]) /\ p.waits[e][i] = n
    BY <1>8, NthOf
  <2>2. /\ Len(p.sets[e]) = Len(p.waits[e]) /\ DOMAIN p.sets[e] = 1..Len(p.sets[e])
        /\ \A j \in 1..Len(p.sets[e]) : p.sets[e][j] \in DOMAIN p.ins
    BY <2>1, InTurn, UsesOf DEF Verdict, Balanced
  <2>3. i \in 1..Len(p.sets[e]) /\ m \in DOMAIN p.ins /\ RightBefore(p, m, n)
    BY <1>8, <2>1, <2>2 DEF RightBefore
  <2>4. Ran(p, m) /\ ~Ran(p, n)
    BY <1>2, <2>3 DEF Done
  <2>5. PICK w, s \in Nat : FlagIs(p, K, e, w, s)
    BY <1>1, <2>1 DEF FlagsAre
  <2> HIDE DEF i
  <2>6. i <= s /\ ~(i <= w) /\ Len(flag[e]) = s - w
    BY <2>1, <2>3, <2>4, <2>5 DEF FlagIs
  <2>7. Len(flag[e]) # 0
    BY <2>1, <2>5, <2>6
  <2> QED
    BY <2>7, EmptySeq
<1>9. Ready(a)
  <2> HIDE DEF a
  <2> QED
    BY <1>6, <1>7, <1>8 DEF Ready, Instruction
<1> QED
  BY <1>3, <1>9 DEF Agents

(* The table tells the truth of this run too. *)
Certified(p, K) == P = p /\ Base(p, K) /\ MemIs(p, K)

(* And goes on to do so, whatever agent makes the next step. *)
LEMMA CertifiedAfter ==
    ASSUME NEW p, WellFormed(p), NEW K, Verdict(p, K), Certified(p, K),
           [\E a \in Agents : Step(a)]_vars
    PROVE  Certified(p, K)'
<1>1. ASSUME NEW a \in Agents, Step(a)
      PROVE  Certified(p, K)'
  <2>1. a \in DOMAIN p.queue /\ P = p /\ Base(p, K) /\ MemIs(p, K)
    BY DEF Certified, Agents
  <2>2. P' = p /\ Base(p, K)' /\ MemIs(p, K)'
    BY <1>1, <2>1, VerdictAfter
  <2> QED
    BY <2>2 DEF Certified
<1>2. CASE UNCHANGED vars
  BY <1>2 DEF vars, P, Certified, Base, MemIs, Types, Closed, KnownIs, HandedIs, FlagsAre,
     FlagIs, Truthful, ClockOK, OrderOK, Done, Ran
<1> QED
  BY <1>1, <1>2

(* A stream that has clocks with a Verdict is executed in any order that   *)
(* its events allow without a race: every order of its instructions is as  *)
(* good as the one that was run.                                           *)
LEMMA EveryOrder ==
    ASSUME NEW name \in DOMAIN Programs, NEW K, Verdict(Programs[name], K)
    PROVE  AnyOrder /\ program = name =>
             [](/\ NoRace /\ ReadsInOrder /\ FlagsHold /\ Drained /\ DeliversResults
                /\ AllDone \/ \E a \in Agents : Ready(a))
<1> DEFINE Good == /\ NoRace /\ ReadsInOrder /\ FlagsHold /\ Drained /\ DeliversResults
                   /\ AllDone \/ \E a \in Agents : Ready(a)
           Some == \E a \in Agents : Step(a)
<1>1. PICK p : p = Programs[name]
  OBVIOUS
<1>2. WellFormed(p) /\ Verdict(p, K)
  BY <1>1, ProgramsAssumption
<1>3. program = name => P = p
  BY <1>1 DEF P
<1>4. Init /\ P = p => Certified(p, K)
  BY <1>2, AtStart DEF Verdict, Certified
<1>6. Certified(p, K) /\ [Some]_vars => Certified(p, K)'
  BY <1>2, CertifiedAfter
<1>5. Certified(p, K) => Good
  <2> SUFFICES ASSUME P = p, Base(p, K), MemIs(p, K)
               PROVE  Good
    BY DEF Certified
  <2>1. NoRace
    BY <1>2, VerdictNoRace
  <2>2. ReadsInOrder
    BY <1>2, VerdictReadsInOrder
  <2>3. FlagsHold
    BY <1>2, VerdictFlagsHold
  <2>4. Drained
    BY <1>2, VerdictDrained
  <2>5. DeliversResults
    BY <1>2 DEF Verdict, DeliversResults
  <2>6. AllDone \/ \E a \in Agents : Ready(a)
    BY <1>2, SomeoneReady
  <2> QED
    BY <2>1, <2>2, <2>3, <2>4, <2>5, <2>6
<1> HIDE DEF Good, Some
<1>7. Init /\ [][Some]_vars /\ program = name => []Good
  BY <1>3, <1>4, <1>5, <1>6, PTL
<1> QED
  BY <1>7 DEF Good, Some, AnyOrder

(* If one run has shown a stream to be right, then in every order that its *)
(* events allow no agent touches a buffer that another one may be writing, *)
(* or writes one that another one may be reading.                          *)
THEOREM EveryOrderNoRace ==
    ASSUME NEW name \in DOMAIN Programs, NEW K, Verdict(Programs[name], K)
    PROVE  AnyOrder /\ program = name => []NoRace
  BY EveryOrder, PTL

(* Then every transfer and calculation reads, in every order, what running *)
(* the stream strictly in order would have put there.                      *)
THEOREM EveryOrderReadsInOrder ==
    ASSUME NEW name \in DOMAIN Programs, NEW K, Verdict(Programs[name], K)
    PROVE  AnyOrder /\ program = name => []ReadsInOrder
  BY EveryOrder, PTL

(* Then no event is set, in any order, more often ahead of its waits than  *)
(* it can hold.                                                            *)
THEOREM EveryOrderFlagsHold ==
    ASSUME NEW name \in DOMAIN Programs, NEW K, Verdict(Programs[name], K)
    PROVE  AnyOrder /\ program = name => []FlagsHold
  BY EveryOrder, PTL

(* Then no event is left set at the end, whatever the order was.           *)
THEOREM EveryOrderDrained ==
    ASSUME NEW name \in DOMAIN Programs, NEW K, Verdict(Programs[name], K)
    PROVE  AnyOrder /\ program = name => []Drained
  BY EveryOrder, PTL

(* Then the agents never wait for each other for good: as long as          *)
(* instructions are left some agent can execute one.                       *)
THEOREM EveryOrderGoesOn ==
    ASSUME NEW name \in DOMAIN Programs, NEW K, Verdict(Programs[name], K)
    PROVE  AnyOrder /\ program = name => [](AllDone \/ \E a \in Agents : Ready(a))
  BY EveryOrder, PTL
==============================================================================
