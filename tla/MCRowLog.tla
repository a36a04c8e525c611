------------------------------ MODULE MCRowLog ------------------------------
(* A small instance of RowLog for TLC. *)
EXTENDS RowLog, TLC

MCSize == [filename |-> 1, lineno |-> 1, string |-> 2, int |-> 1]
MCOptions == {"FILELINE", "THREADID", "CLOCK"}
Symmetry == Permutations(Thread)
=============================================================================
