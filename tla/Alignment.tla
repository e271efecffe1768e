------------------------------ MODULE Alignment -------------------------------
(* include/catlass/detail/alignment.hpp, and how the loops of kernels deal out tasks. *)
EXTENDS Integers

CeilDiv(a, b) == (a + b - 1) \div b

RoundUp(a, b) == CeilDiv(a, b) * b

(* The tasks first, first + step, ... below loops. *)
TasksOf(first, loops, step) ==
    [j \in 1..(IF loops > first THEN CeilDiv(loops - first, step) ELSE 0) |-> first + (j - 1) * step]

(* Rows shared out among vector cores, each getting rows that follow each  *)
(* other, the first ones one more.                                         *)
PaddedRows(rows, aivNum, aivId) ==
    LET tilesPerAiv == rows \div aivNum + (IF aivId < rows % aivNum THEN 1 ELSE 0)
        mIdx == aivId * tilesPerAiv + (IF aivId >= rows % aivNum THEN rows % aivNum ELSE 0)
    IN [i \in 1..tilesPerAiv |-> mIdx + i - 1]
===============================================================================
