---------------------------- MODULE CrossCoreFlag ----------------------------
(***************************************************************************)
(* CrossCoreFlagWithReverse (include/catlass/arch/cross_core_sync.hpp).    *)
(*                                                                         *)
(* The cores of one group set a hardware flag, the cores of another group  *)
(* wait for it.  The flag is a counter per (setter, waiter) pair: a set of *)
(* mode 2 by the cube core reaches both of its vector cores, a wait of the *)
(* cube core consumes one set of each vector core.  The counter is only a  *)
(* few bits wide; a set that would take it past FlagLimit freezes the      *)
(* device.  So each side counts its own operations and every ReverseDepth  *)
(* rounds the waiters answer on a reverse flag that the setters wait for.  *)
(* The two counters are private to their cores and are never compared.     *)
(***************************************************************************)
EXTENDS Integers

CONSTANTS
    Setters,        \* cores calling CrossCoreSetFlagWithReverse
    Waiters,        \* cores calling CrossCoreWaitFlagWithReverse
    ReverseDepth,   \* template parameter REVERSE_DEPTH
    FlagLimit,      \* sets a hardware flag can hold
    Rounds          \* bound: calls each core makes in one kernel

ASSUME DepthAssumption == ReverseDepth \in Nat \ {0}
ASSUME LimitAssumption == FlagLimit \in Nat /\ ReverseDepth <= FlagLimit
ASSUME RoundsAssumption == Rounds \in Nat
ASSUME GroupAssumption == Setters # {} /\ Waiters # {}

VARIABLES
    flag,       \* flag[s][w]: sets of flag.id by s that w has not consumed
    reverse,    \* reverse[w][s]: sets of flag.reverseId by w not consumed by s
    setCount,   \* setCount[s]: flag.count in the setter's object
    waitCount,  \* waitCount[w]: flag.count in the waiter's object
    sets,       \* sets[s]: rounds set so far, the setter's loop index
    waits       \* waits[w]: rounds waited for so far, the waiter's loop index

vars == <<flag, reverse, setCount, waitCount, sets, waits>>

Init ==
    /\ flag = [s \in Setters |-> [w \in Waiters |-> 0]]
    /\ reverse = [w \in Waiters |-> [s \in Setters |-> 0]]
    /\ setCount = [s \in Setters |-> 0]
    /\ waitCount = [w \in Waiters |-> 0]
    /\ sets = [s \in Setters |-> 0]
    /\ waits = [w \in Waiters |-> 0]

-----------------------------------------------------------------------------
(* The hardware operations on a bank f of flags, f[by][at]. *)

Raise(f, core) == [f EXCEPT ![core] = [other \in DOMAIN @ |-> @[other] + 1]]

Raised(f, core) == \A other \in DOMAIN f : f[other][core] > 0

Lower(f, core) == [other \in DOMAIN f |-> [f[other] EXCEPT ![core] = @ - 1]]

-----------------------------------------------------------------------------
(* CrossCoreSetFlagWithReverse.  ++count is on a private counter, so it    *)
(* belongs to the set; a setter whose count has reached the depth is in    *)
(* the wait for the reverse flag.                                          *)

(* Mutant: > for >=, the setter goes one round too far. *)
AwaitsTooLate(s) == setCount[s] > ReverseDepth

AwaitsReverse(s) == setCount[s] >= ReverseDepth

SetFlag(s) ==
    /\ ~AwaitsReverse(s)
    /\ sets[s] < Rounds
    /\ flag' = Raise(flag, s)
    /\ setCount' = [setCount EXCEPT ![s] = @ + 1]
    /\ sets' = [sets EXCEPT ![s] = @ + 1]
    /\ UNCHANGED <<reverse, waitCount, waits>>

WaitReverse(s) ==
    /\ AwaitsReverse(s)
    /\ Raised(reverse, s)
    /\ reverse' = Lower(reverse, s)
    /\ setCount' = [setCount EXCEPT ![s] = 0]
    /\ UNCHANGED <<flag, waitCount, sets, waits>>

(* CrossCoreWaitFlagWithReverse *)

(* Mutants: the waiter answers one round too late, or one too early. *)
OwesTooLate(w) == waitCount[w] > ReverseDepth

OwesTooEarly(w) == waitCount[w] >= ReverseDepth - 1

OwesReverse(w) == waitCount[w] >= ReverseDepth

WaitFlag(w) ==
    /\ ~OwesReverse(w)
    /\ waits[w] < Rounds
    /\ Raised(flag, w)
    /\ flag' = Lower(flag, w)
    /\ waitCount' = [waitCount EXCEPT ![w] = @ + 1]
    /\ waits' = [waits EXCEPT ![w] = @ + 1]
    /\ UNCHANGED <<reverse, setCount, sets>>

SetReverse(w) ==
    /\ OwesReverse(w)
    /\ reverse' = Raise(reverse, w)
    /\ waitCount' = [waitCount EXCEPT ![w] = 0]
    /\ UNCHANGED <<flag, setCount, sets, waits>>

Setter(s) == SetFlag(s) \/ WaitReverse(s)

Waiter(w) == WaitFlag(w) \/ SetReverse(w)

Next == (\E s \in Setters : Setter(s)) \/ (\E w \in Waiters : Waiter(w))

(* Each core runs its instruction stream whenever it is not blocked. *)
Fairness ==
    /\ \A s \in Setters : WF_vars(Setter(s))
    /\ \A w \in Waiters : WF_vars(Waiter(w))

Spec == Init /\ [][Next]_vars

FairSpec == Spec /\ Fairness

-----------------------------------------------------------------------------
TypeOK ==
    /\ flag \in [Setters -> [Waiters -> Nat]]
    /\ reverse \in [Waiters -> [Setters -> 0..1]]
    /\ setCount \in [Setters -> 0..ReverseDepth]
    /\ waitCount \in [Waiters -> 0..ReverseDepth]
    /\ sets \in [Setters -> 0..Rounds]
    /\ waits \in [Waiters -> 0..Rounds]

(* A flag never holds more sets than the hardware can count, however fast  *)
(* the setters and however slow the waiters are: cross_core_sync.hpp:19-23 *)
(* gives this as the reason the reverse flag exists.                       *)
NoFreeze ==
    /\ \A s \in Setters, w \in Waiters : flag[s][w] <= FlagLimit
    /\ \A s \in Setters, w \in Waiters : reverse[w][s] <= FlagLimit

(* When the cores of a kernel have all gone through the same number of     *)
(* rounds and none of them owes or awaits an answer, both flags are zero:  *)
(* a flag register outlives the kernel, and a set left in it would release *)
(* the first wait of the next kernel that uses the id.                     *)
DrainedAtEnd ==
    (/\ \A s \in Setters : sets[s] = Rounds /\ ~AwaitsReverse(s)
     /\ \A w \in Waiters : waits[w] = Rounds /\ ~OwesReverse(w))
    => /\ \A s \in Setters, w \in Waiters : flag[s][w] = 0
       /\ \A s \in Setters, w \in Waiters : reverse[w][s] = 0

(* Every core gets through all of its rounds and past the last answer: the *)
(* setters and the waiters never block each other for good.                *)
Completion ==
    <>[](/\ \A s \in Setters : sets[s] = Rounds /\ ~AwaitsReverse(s)
         /\ \A w \in Waiters : waits[w] = Rounds /\ ~OwesReverse(w))

(* Seen through the two loop indices, the flags implement the handshake.   *)
Promise == INSTANCE Handshake WITH Depth <- ReverseDepth

ImplementsHandshake == Promise!Spec

-----------------------------------------------------------------------------
(* The inductive invariant behind NoFreeze.  For every pair, what the      *)
(* setter has counted since its last answer is in the flag, or counted by  *)
(* the waiter since its last answer, or is one full depth that the waiter  *)
(* has answered for already.                                               *)
CountsMatch ==
    \A s \in Setters, w \in Waiters :
        setCount[s] = flag[s][w] + waitCount[w]
                        + (IF reverse[w][s] = 0 THEN 0 ELSE ReverseDepth)

(* The loop indices differ by exactly what the flags still hold. *)
SetsAccountedFor ==
    \A s \in Setters, w \in Waiters : sets[s] = waits[w] + flag[s][w]

IInv == TypeOK /\ CountsMatch /\ SetsAccountedFor
==============================================================================
