----------------------------- MODULE BlockMmadAiv ------------------------------
(***************************************************************************)
(* Products of a column A and a row B on the vector unit                   *)
(* (include/catlass/gemm/block/block_mmad_dynamic_aiv.hpp): row i of C is  *)
(* B times the scalar A[i], which the scalar unit reads and hands to the   *)
(* instruction.  Three blocks: staged, simple, and by columns with a       *)
(* transposition.                                                          *)
(***************************************************************************)
EXTENDS PipeInstructions

CONSTANTS
    STAGES,     \* of the staged block
    MTiles      \* MTiles[c]: mTiles of the c-th call

ParametersOK == STAGES \in Nat \ {0} /\ \A c \in DOMAIN MTiles : MTiles[c] \in Nat \ {0}

Before(c) == FoldLeft(LAMBDA sum, m : sum + m, 0, SubSeq(MTiles, 1, c - 1))

(* What the instructions of call c carry with them. *)
Scalars(c) == <<"UB", "scalars", c>>

StagedConstructor ==
    For(0, STAGES - 1, LAMBDA i : << SetFlag("V", "MTE2", i), SetFlag("MTE3", "V", i) >>)

StagedDestructor ==
    For(0, STAGES - 1, LAMBDA i : << WaitFlag("V", "MTE2", i), WaitFlag("MTE3", "V", i) >>)

(* A tile of rows of C. *)
StagedTile(c, i) ==
    LET a == (c - 1) % STAGES
        o == (Before(c) + i) % STAGES
    IN << WaitFlag("MTE3", "V", o),
          Vec(<<"UB", "C", o>>, {<<"UB", "B", a>>, Scalars(c)}, <<"muls", i>>) >>
       \o Sync("V", "MTE3", o)
       \o << Copy("MTE3", <<"C", c, i>>, <<"UB", "C", o>>), SetFlag("MTE3", "V", o) >>

StagedCall(c) ==
    LET a == (c - 1) % STAGES
    IN << WaitFlag("V", "MTE2", a),
          Load("MTE2", <<"UB", "B", a>>, <<"B", c>>), SetFlag("MTE2", "V", a),
          Load("MTE2", <<"UB", "A", a>>, <<"A", c>>) >>
       \o Sync("MTE2", "S", a)
       \o << Copy("S", Scalars(c), <<"UB", "A", a>>) >>
       \o Sync("S", "V", a)
       \o << WaitFlag("MTE2", "V", a) >>
       \o For(0, MTiles[c] - 1, LAMBDA i : StagedTile(c, i))
       \o << SetFlag("V", "MTE2", a) >>

StagedStream == StagedConstructor \o For(1, Len(MTiles), StagedCall) \o StagedDestructor

StagedExpected ==
    [b \in UNION {{<<"C", c, i>> : i \in 0..(MTiles[c] - 1)} : c \in DOMAIN MTiles} |->
       Applied(<<"muls", b[3]>>, {NameOf(<<"A", b[2]>>), NameOf(<<"B", b[2]>>)})]

-----------------------------------------------------------------------------
(* MmadAtlasA2DynamicAivSimple: one set of buffers, one tile to a call. *)
SimpleConstructor == << SetFlag("V", "MTE2", 0), SetFlag("V", "MTE2", 1), SetFlag("MTE3", "V", 0) >>

SimpleDestructor == << WaitFlag("V", "MTE2", 0), WaitFlag("V", "MTE2", 1), WaitFlag("MTE3", "V", 0) >>

(* scalar is the operand that the scalar unit reads, x the other one. *)
LoadBoth(c, x, scalar) ==
    << Load("MTE2", <<"UB", x>>, <<x, c>>), SetFlag("MTE2", "V", 1),
       Load("MTE2", <<"UB", scalar>>, <<scalar, c>>), SetFlag("MTE2", "V", 0) >>
    \o Sync("MTE2", "S", 0)
    \o << Copy("S", Scalars(c), <<"UB", scalar>>), WaitFlag("MTE2", "V", 0), WaitFlag("MTE2", "V", 1) >>
    \o Sync("S", "V", 0)

SimpleCall(c) ==
    << WaitFlag("V", "MTE2", 0), WaitFlag("V", "MTE2", 1), WaitFlag("MTE3", "V", 0) >>
    \o LoadBoth(c, "B", "A")
    \o << Vec(<<"UB", "C">>, {<<"UB", "B">>, Scalars(c)}, "muls"),
          SetFlag("V", "MTE2", 0), SetFlag("V", "MTE2", 1) >>
    \o Sync("V", "MTE3", 0)
    \o << Copy("MTE3", <<"C", c>>, <<"UB", "C">>), SetFlag("MTE3", "V", 0) >>

SimpleStream == SimpleConstructor \o For(1, Len(MTiles), SimpleCall) \o SimpleDestructor

SimpleExpected ==
    [b \in {<<"C", c>> : c \in DOMAIN MTiles} |-> Applied("muls", {NameOf(<<"A", b[2]>>), NameOf(<<"B", b[2]>>)})]

-----------------------------------------------------------------------------
(* MmadAtlasA2DynamicAivTrans: A times the scalars of B gives the columns  *)
(* of C, which are transposed.  Only the transposed C is handed over.      *)
TransConstructor == << SetFlag("V", "MTE2", 0), SetFlag("V", "MTE2", 1), SetFlag("MTE3", "V", 2) >>

TransDestructor == << WaitFlag("MTE3", "V", 2), WaitFlag("V", "MTE2", 1), WaitFlag("V", "MTE2", 0) >>

TransCall(c) ==
    << WaitFlag("V", "MTE2", 0), WaitFlag("V", "MTE2", 1) >>
    \o LoadBoth(c, "A", "B")
    \o << Vec(<<"UB", "C">>, {<<"UB", "A">>, Scalars(c)}, "muls"),
          SetFlag("V", "MTE2", 0), SetFlag("V", "MTE2", 1),
          WaitFlag("MTE3", "V", 2), Vec(<<"UB", "transposed">>, {<<"UB", "C">>}, "transpose") >>
    \o Sync("V", "MTE3", 0)
    \o << Copy("MTE3", <<"C", c>>, <<"UB", "transposed">>), SetFlag("MTE3", "V", 2) >>

TransStream == TransConstructor \o For(1, Len(MTiles), TransCall) \o TransDestructor

TransExpected == [b \in DOMAIN SimpleExpected |-> Applied("transpose", {SimpleExpected[b]})]
================================================================================
