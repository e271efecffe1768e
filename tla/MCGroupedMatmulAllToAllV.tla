----------------------- MODULE MCGroupedMatmulAllToAllV -----------------------
(* Two ranks of two cube cores.  The first rank's second and third expert   *)
(* begin where the expert before has stopped, and one of its cores has      *)
(* enough blocks to wait for an answer; the second rank has experts without *)
(* tokens and a core without a block.                                       *)
EXTENDS GroupedMatmulAllToAllV, TLC

BusyAndIdle == (0 :> <<1, 1, 1>>) @@ (1 :> <<0, 1, 0>>)
==============================================================================
