------------------------------ MODULE MCApply ------------------------------
(* Instances of Apply for TLC.                                             *)
EXTENDS Apply, TLC

CONSTANTS n1, n2, c1, c2, port1

SymmetryOfBoth == Permutations(Pids) \cup Permutations(Commands)
=============================================================================
