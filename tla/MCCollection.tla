---------------------------- MODULE MCCollection ----------------------------
(* Two runs over two seconds, and a send of a file of either name.         *)
EXTENDS Collection, TLC

CONSTANTS r1, r2

MCRuns == {r1, r2}
Symmetry == Permutations(MCRuns)
=============================================================================
