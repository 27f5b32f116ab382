----------------------------- MODULE MCMarathon -----------------------------
(* Instances of Marathon: Wiphand enqueues, the service runs what is due,  *)
(* the operator runs the other commands by hand.                           *)
EXTENDS Marathon

CONSTANTS wiphand, service, operator, first, last, noproc, notask

MCCommands == [p \in Procs |-> CASE p = wiphand  -> {"enqueue"}
                                 [] p = service  -> {"host-run"}
                                 [] p = operator -> {"prepare", "status", "host-run"}]

MCTaskOrder == <<first, last>>
=============================================================================
