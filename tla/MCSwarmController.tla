------------------------- MODULE MCSwarmController -------------------------
(* Instances of SwarmController: the runners are interchangeable.  *)
EXTENDS SwarmController, TLC

CONSTANTS r1, r2, b1, nobranch

Symmetry == Permutations(Runners)
=============================================================================
