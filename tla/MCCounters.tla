----------------------------- MODULE MCCounters -----------------------------
(* A small instance of Counters for TLC. *)
EXTENDS Counters, TLC

C(n, r, v) == [counters |-> n, rows |-> r, vars |-> v]
MCUserConfig == {C(0, 1, 1), C(2, 2, 0)}
MCAmount == {-2}
Symmetry == Permutations(Process) \cup Permutations(Text)
=============================================================================
