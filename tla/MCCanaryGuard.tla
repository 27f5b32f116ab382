--------------------------- MODULE MCCanaryGuard ---------------------------
(* Instances of CanaryGuard: a primitive canary on one card and a Qwen     *)
(* canary on both.                                                         *)
EXTENDS CanaryGuard

CONSTANTS primitive, qwen, gpu0, gpu1

GuardTargets == [g \in Guards |-> IF g = primitive THEN {gpu0} ELSE {gpu0, gpu1}]
=============================================================================
