-------------------------- MODULE PipeInstructions ---------------------------
(***************************************************************************)
(* The instructions that the templates hand to the pipes of their cores,   *)
(* and the operators their streams are put together with.  See PipeMachine.*)
(***************************************************************************)
EXTENDS Alignment, Sequences, SequencesExt, FiniteSetsExt, Bags

(* Instructions of one core.  An event is <<setting pipe, waiting pipe, id>>. *)

SetFlag(from, to, id) == [op |-> "set", pipe |-> from, events |-> {<<from, to, id>>}]

WaitFlag(from, to, id) == [op |-> "wait", pipe |-> to, events |-> {<<from, to, id>>}]

(* Pipe p reads the buffers srcs and writes dst; what says what it writes, *)
(* see Effect.                                                             *)
Do(p, dst, srcs, what) ==
    [op |-> "do", pipe |-> p, dst |-> dst, srcs |-> srcs, what |-> what]

Load(p, dst, name) == Do(p, dst, {}, name)

Copy(p, dst, src) == Do(p, dst, {src}, <<"copy">>)

Add(p, dst, srcs) == Do(p, dst, srcs, <<"add">>)

(* The vector unit calculates f of what is in the buffers srcs. *)
Vec(dst, srcs, f) == Do("V", dst, srcs, <<"apply", f>>)

(* Pipe "to" waits until "from" has executed what it was handed before. *)
Sync(from, to, id) == << SetFlag(from, to, id), WaitFlag(from, to, id) >>

-----------------------------------------------------------------------------
(* The streams of body(from), ..., body(to), one after the other. *)
For(from, to, body(_)) == FlattenSeq([j \in 1..(to - from + 1) |-> body(from + j - 1)])

When(condition, stream) == IF condition THEN stream ELSE <<>>

(* PipeBarrier<PIPE_ALL>: the scalar unit waits for all pipes. *)
BarrierAll(pipes) == For(1, Len(pipes), LAMBDA i : Sync(pipes[i], "S", -1))

-----------------------------------------------------------------------------
(* Several cores.  Each has its own pipes, events and on-chip buffers; all *)
(* other buffers are in memory and the same for every core.  A stream may  *)
(* have instructions about other cores in it, which know their core.       *)

OnChip == {"L1", "L1A", "L1B", "L0A", "L0B", "L0C", "BT", "FB", "UB"}

At(core, b) == IF b[1] \in OnChip THEN <<b[1], core>> \o Tail(b) ELSE b

On(core, stream) ==
    [n \in DOMAIN stream |->
       LET ins == stream[n] IN
       IF "agent" \in DOMAIN ins THEN ins
       ELSE IF ins.op = "do"
       THEN [op |-> "do", agent |-> <<core, ins.pipe>>, dst |-> At(core, ins.dst),
             srcs |-> {At(core, b) : b \in ins.srcs}, plain |-> ins]
       ELSE [op |-> ins.op, agent |-> <<core, ins.pipe>>,
             events |-> {<<core>> \o e : e \in ins.events}]]

(* CrossCoreSetFlag by a pipe of a core, and CrossCoreWaitFlag, which its  *)
(* scalar unit executes: one event for each pair of cores.                 *)
CrossCoreSetFlag(core, pipe, id, cores) ==
    << [op |-> "set", agent |-> <<core, pipe>>, events |-> {<<core, c, id>> : c \in cores}] >>

CrossCoreWaitFlag(core, id, cores) ==
    << [op |-> "wait", agent |-> <<core, "S">>, events |-> {<<c, core, id>> : c \in cores}] >>

-----------------------------------------------------------------------------
(* What an instruction leaves in its destination if found[b] is what was   *)
(* in its source b, as the bag of the things it is the sum of: "add" (and  *)
(* "copy", with one source) leaves the sum of the sources, "mmad" adds the *)
(* product of what is in L0A and in L0B to the other sources, <<"part", p>> *)
(* takes part p, <<"apply", f>> is any other function of the sources, and  *)
(* anything else is the name of data that comes in.                        *)
Effect(ins, found) ==
    LET In(name) == found[CHOOSE b \in ins.srcs : b[1] = name]
        Sum(bufs) == FoldSet(LAMBDA b, sum : found[b] (+) sum, EmptyBag, bufs)
    IN CASE ins.what[1] \in {"copy", "add"} -> Sum(ins.srcs)
         [] ins.what[1] = "mmad" ->
              Sum({b \in ins.srcs : b[1] \notin {"L0A", "L0B"}})
              (+) SetToBag({<<"mmad", In("L0A"), In("L0B")>>})
         [] ins.what[1] = "part" -> SetToBag({<<"part", ins.what[2], Sum(ins.srcs)>>})
         [] ins.what[1] = "apply" -> SetToBag({<<"apply", ins.what[2], {found[b] : b \in ins.srcs}>>})
         [] OTHER -> SetToBag({ins.what})

(* What a name stands for, and what Vec leaves for these contents. *)
NameOf(label) == SetToBag({label})

Applied(f, contents) == SetToBag({<<"apply", f, contents>>})

-----------------------------------------------------------------------------
(* A stream as PipeMachine runs it.  Of every instruction                  *)
(*   place   how many instructions its agent has executed when it is done, *)
(*   needs   how far the scalar unit of its core must have come before it  *)
(*           is handed out: through all before it,                         *)
(*   inOrder the instruction whose result is in each source buffer when    *)
(*           the stream is run strictly in order, 0 if there is none,      *)
(*   nth     for each event it sets or waits for, the how manieth set of   *)
(*           it, or wait for it, it is;                                    *)
(* and of every event the instructions that set it and those that wait for *)
(* it, in order.  stored is what running it strictly in order leaves in    *)
(* the buffers of expected, which is to be what expected says.  A buffer   *)
(* that has not been written holds itself, and one that is never written   *)
(* is left out of the machine.                                             *)
(* anyOrder says whether PipeMachine takes the stream through all of its   *)
(* interleavings or through one of them.                                   *)

Table(f) == f @@ <<>>

Loaded(stream, expected, anyOrder) ==
    LET all == DOMAIN stream
        dos == {n \in all : stream[n].op = "do"}
        written == {stream[n].dst : n \in dos}
        agents == {stream[n].agent : n \in all}
        evs == UNION {stream[n].events : n \in all \ dos}
        writes == Table([b \in written |-> {n \in dos : stream[n].dst = b}])
        Those(op, e) == SelectSeq([n \in all |-> n], LAMBDA n : stream[n].op = op /\ e \in stream[n].events)
        sets == Table([e \in evs |-> Those("set", e)])
        waits == Table([e \in evs |-> Those("wait", e)])
        steps == Table([a \in agents |-> {n \in all : stream[n].agent = a}])
        Upto(a, n) == IF a \in agents THEN Cardinality({m \in steps[a] : m <= n}) ELSE 0
        LastWrite(b, n) == IF b \in written THEN Max({0} \cup {m \in writes[b] : m < n}) ELSE 0
        Nth(e, n) ==
          LET seq == IF stream[n].op = "set" THEN sets[e] ELSE waits[e]
          IN CHOOSE i \in DOMAIN seq : seq[i] = n
        content[n \in 0..Len(stream)] ==
          IF n \notin dos THEN EmptyBag
          ELSE LET core == stream[n].agent[1]
                   ins == stream[n].plain
                   Before(b) == LastWrite(At(core, b), n)
               IN Effect(ins, [b \in ins.srcs |->
                                 IF Before(b) = 0 THEN SetToBag({b}) ELSE content[Before(b)]])
    IN [ins      |-> <<>> \o [n \in all |-> IF n \in dos THEN [stream[n] EXCEPT !.srcs = @ \cap written]
                                         ELSE stream[n]],
        place    |-> <<>> \o [n \in all |-> Upto(stream[n].agent, n)],
        needs    |-> <<>> \o [n \in all |-> Upto(<<stream[n].agent[1], "S">>, n - 1)],
        inOrder  |-> <<>> \o [n \in all |->
                       IF n \in dos THEN Table([b \in stream[n].srcs \cap written |-> LastWrite(b, n)]) ELSE <<>>],
        nth      |-> <<>> \o [n \in all |->
                       IF n \in dos THEN <<>> ELSE Table([e \in stream[n].events |-> Nth(e, n)])],
        sets     |-> sets,
        waits    |-> waits,
        queue    |-> Table([a \in agents |->
                       SelectSeq([n \in all |-> n], LAMBDA n : stream[n].agent = a)]),
        cores    |-> {a[1] : a \in agents},
        buffers  |-> written,
        stored   |-> Table([b \in DOMAIN expected |-> content[LastWrite(b, Len(stream) + 1)]]),
        expected |-> Table(expected),
        anyOrder |-> anyOrder]
==============================================================================
