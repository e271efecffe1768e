------------------------------ MODULE Handshake ------------------------------
(***************************************************************************)
(* What a cross core flag with reverse synchronisation promises to the     *)
(* kernels that use it.  A group of setters publishes rounds 1, 2, 3, ...  *)
(* and a group of waiters consumes them: a waiter returns from its n-th    *)
(* wait only after every setter has finished its n-th set, and no setter   *)
(* is ever more than Depth rounds ahead of any waiter.                     *)
(***************************************************************************)
EXTENDS Integers

CONSTANTS
    Setters,    \* cores that set the flag
    Waiters,    \* cores that wait for it
    Depth,      \* how far a setter may run ahead
    Rounds      \* how many times the kernel goes round its loop

VARIABLES
    sets,       \* sets[s]: sets finished by s
    waits       \* waits[w]: waits finished by w

vars == <<sets, waits>>

Init ==
    /\ sets = [s \in Setters |-> 0]
    /\ waits = [w \in Waiters |-> 0]

Set(s) ==
    /\ sets[s] < Rounds
    /\ \A w \in Waiters : sets[s] - waits[w] < Depth
    /\ sets' = [sets EXCEPT ![s] = @ + 1]
    /\ UNCHANGED waits

Wait(w) ==
    /\ waits[w] < Rounds
    /\ \A s \in Setters : waits[w] < sets[s]
    /\ waits' = [waits EXCEPT ![w] = @ + 1]
    /\ UNCHANGED sets

Next == (\E s \in Setters : Set(s)) \/ (\E w \in Waiters : Wait(w))

Spec == Init /\ [][Next]_vars
==============================================================================
