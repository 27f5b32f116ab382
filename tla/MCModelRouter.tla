--------------------------- MODULE MCModelRouter ---------------------------
(* Instances of ModelRouter for TLC: handler threads are interchangeable.  *)
EXTENDS ModelRouter, TLC

HandlerSymmetry == Permutations(Handlers)
=============================================================================
