------------------------------ MODULE AllReduce ------------------------------
(***************************************************************************)
(* What the all-reduce promises to its caller: every rank contributes its  *)
(* share of every tile once, and whatever a rank delivers for a tile is    *)
(* the sum in which every rank's share appears exactly once.               *)
(***************************************************************************)
CONSTANTS Ranks, Tiles

VARIABLES
    contributed,    \* ranks whose shares are complete
    out             \* out[r][t]: what rank r delivered for t, a count of each rank's shares

vars == <<contributed, out>>

Nothing == [s \in Ranks |-> 0]

Total == [s \in Ranks |-> 1]

Init ==
    /\ contributed = {}
    /\ out = [r \in Ranks |-> [t \in Tiles |-> Nothing]]

Contribute(r) ==
    /\ r \notin contributed
    /\ contributed' = contributed \cup {r}
    /\ UNCHANGED out

Deliver(r, t) ==
    /\ contributed = Ranks
    /\ out[r][t] = Nothing
    /\ out' = [out EXCEPT ![r][t] = Total]
    /\ UNCHANGED contributed

Next == \E r \in Ranks : Contribute(r) \/ \E t \in Tiles : Deliver(r, t)

Spec == Init /\ [][Next]_vars
==============================================================================
