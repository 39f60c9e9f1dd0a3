------------------------------ MODULE MCDaemon ------------------------------
(* Instances of Daemon for TLC.                                            *)
EXTENDS Daemon, TLC

CONSTANTS n1, n2, n3, c1, c2, port1, port2

Symmetry == Permutations(Pids)

SymmetryOfBoth == Permutations(Pids) \cup Permutations(Commands)
=============================================================================
