---------------------------- MODULE ModelLeases ----------------------------
(***************************************************************************)
(* What the model router promises its clients, with no lock, no threads    *)
(* and no preflight: who may be granted a lease, and when a loaded model   *)
(* may leave the GPUs.  ModelRouter implements it as long as models do not *)
(* disappear by themselves and the helper and the unload request work.     *)
(***************************************************************************)
CONSTANTS Clients, Ollama, Qwen, NoModel

Models == Ollama \cup {Qwen}

VARIABLES held,   \* the model each client holds a lease on
          idle,   \* how long each model has been without a lease
          loaded  \* the models on the GPUs

leaseVars == <<held, idle, loaded>>

Init ==
    /\ held = [c \in Clients |-> NoModel]
    /\ idle = [a \in Models |-> "never"]
    /\ loaded = {}

Unheld(a) == \A c \in Clients : held[c] # a

\* Qwen is leased only when loaded, an Ollama model only when Qwen is not
Grant(c, a) ==
    /\ held[c] = NoModel
    /\ (a = Qwen) <=> (Qwen \in loaded)
    /\ held' = [held EXCEPT ![c] = a]
    /\ UNCHANGED <<idle, loaded>>

Return(c) ==
    /\ held[c] # NoModel
    /\ idle' = [idle EXCEPT ![held[c]] = "recent"]
    /\ held' = [held EXCEPT ![c] = NoModel]
    /\ UNCHANGED loaded

\* Ollama loads a model for the client that holds it, the router loads Qwen
Load(a) ==
    /\ a \in Ollama => ~Unheld(a)
    /\ loaded' = loaded \cup {a}
    /\ UNCHANGED <<held, idle>>

Age(a) ==
    /\ idle[a] = "recent"
    /\ idle' = [idle EXCEPT ![a] = "expired"]
    /\ UNCHANGED <<held, loaded>>

\* a model is unloaded only when idle for its time, and then forgotten
Release(a) ==
    /\ Unheld(a)
    /\ idle[a] = "expired"
    /\ idle' = [idle EXCEPT ![a] = "never"]
    /\ loaded' = loaded \ {a}
    /\ UNCHANGED held

Next ==
    \/ \E c \in Clients : Return(c) \/ \E a \in Models : Grant(c, a)
    \/ \E a \in Models : Load(a) \/ Age(a) \/ Release(a)

Spec == Init /\ [][Next]_leaseVars
=============================================================================
