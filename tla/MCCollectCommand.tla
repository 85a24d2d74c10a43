-------------------------- MODULE MCCollectCommand --------------------------
(* Three runs over two seconds: two of them share a name, or all three do. *)
EXTENDS CollectCommand, TLC

CONSTANTS r1, r2, r3

MCRuns == {r1, r2, r3}
Symmetry == Permutations(MCRuns)
=============================================================================
