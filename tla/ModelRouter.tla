---------------------------- MODULE ModelRouter ----------------------------
(***************************************************************************)
(* The local model router (model_router/router.py): one LeaseManager whose *)
(* re-entrant lock serialises `begin`, `end` and `reap_once`, the handler  *)
(* threads of ThreadingHTTPServer, the reaper thread, and the two things   *)
(* outside the process that they act on: the systemd service that runs     *)
(* Qwen and the set of models resident in Ollama.                          *)
(*                                                                         *)
(* Every call that leaves the process (the sudo helper, nvidia-smi, an     *)
(* HTTP request) is a step of its own, so that the service, Ollama and the *)
(* other threads may move between two of them.  Time is abstract: a lease  *)
(* that ended is "recent" until idle_seconds have passed, then "expired".  *)
(***************************************************************************)
EXTENDS Naturals, FiniteSets

CONSTANTS Handlers,   \* handler threads of the HTTP server
          Ollama,     \* aliases of kind "ollama"
          Qwen,       \* the one alias of kind "colibri_qwen"
          Reaper,     \* the reaper thread
          NoThread,   \* the lock is free
          NoModel,    \* the handler serves no request
          Faults      \* what may go wrong in this instance, see FaultKinds

(***************************************************************************)
(* "slow"     Qwen may not become healthy within 180 seconds               *)
(* "exit"     the Qwen service may exit with status 0 (a thermal stop)     *)
(* "crash"    it may exit with another status: systemd restarts it         *)
(* "router"   the router process may die; systemd restarts it              *)
(* "helper"   the sudo helper may fail or time out                         *)
(* "ps"       /api/ps may be unreachable, or answer another status than 200 *)
(* "unload"   the unload request may fail, or be refused with a status     *)
(* "protocol" it may raise http.client.HTTPException, which no one catches *)
(* "expire"   Ollama may unload a model by itself                          *)
(***************************************************************************)
FaultKinds == {"slow", "exit", "crash", "router", "helper", "ps", "unload",
               "protocol", "expire"}

Models == Ollama \cup {Qwen}

ASSUME HandlersAssumption == IsFiniteSet(Handlers)
ASSUME ModelsAssumption   == Qwen \notin Ollama /\ NoModel \notin Models
ASSUME ThreadsAssumption  ==
    /\ Reaper \notin Handlers
    /\ NoThread \notin Handlers
    /\ NoThread # Reaper
ASSUME FaultsAssumption   == Faults \subseteq FaultKinds

VARIABLES lock,      \* LeaseManager._lock: the thread that holds it
          active,    \* LeaseManager._active
          lastUsed,  \* LeaseManager._last_used; "never" is 0.0
          pc,        \* where each handler thread is in do_POST
          req,       \* the alias its request names
          unasked,   \* Ollama specs the preflight has still to ask
          rpc,       \* where the reaper thread is
          stale,     \* aliases whose last use is idle_seconds before its `now`
          unvisited, \* aliases reap_once has still to visit
          svc,       \* the systemd unit colibri-qwen36.service
          resident   \* models loaded in Ollama

routerVars == <<lock, active, lastUsed, pc, req, unasked, rpc, stale, unvisited>>
vars == <<lock, active, lastUsed, pc, req, unasked, rpc, stale, unvisited,
          svc, resident>>

Begun   == {"qActive", "oActive", "ps", "start", "health"}
Leased  == {"proxy", "stream", "end"}
Stages  == {"idle", "begin"} \cup Begun \cup Leased

LeaseHolders(a) == {h \in Handlers : pc[h] \in Leased /\ req[h] = a}

\* systemctl is-active succeeds; a unit waiting for its restart is "activating"
SvcActive == svc \in {"loading", "healthy"}

\* qwen_is_active: any non-zero status of the helper reads as "not active"
IsActiveAnswers ==
    {SvcActive} \cup (IF "helper" \in Faults THEN {FALSE} ELSE {})

Init ==
    /\ lock = NoThread
    /\ active = [a \in Models |-> 0]
    /\ lastUsed = [a \in Models |-> "never"]
    /\ pc = [h \in Handlers |-> "idle"]
    /\ req = [h \in Handlers |-> NoModel]
    /\ unasked = {}
    /\ rpc = "wait"
    /\ stale = {}
    /\ unvisited = {}
    /\ svc = "inactive"
    /\ resident = {}

-----------------------------------------------------------------------------
(* A handler thread: do_POST, begin, _proxy, end.                          *)

\* do_POST up to begin: the request passed authorisation and the allow-list
Receive(h, a) ==
    /\ pc[h] = "idle"
    /\ pc' = [pc EXCEPT ![h] = "begin"]
    /\ req' = [req EXCEPT ![h] = a]
    /\ UNCHANGED <<lock, active, lastUsed, unasked, rpc, stale, unvisited,
                   svc, resident>>

\* begin: enter the lock, and choose the preparation by kind
Begin(h) ==
    /\ pc[h] = "begin"
    /\ lock = NoThread
    /\ lock' = h
    /\ pc' = [pc EXCEPT ![h] = IF req[h] = Qwen THEN "qActive" ELSE "oActive"]
    /\ UNCHANGED <<active, lastUsed, req, unasked, rpc, stale, unvisited,
                   svc, resident>>

\* begin returns: the lease is counted and the lock released
Granted(h) ==
    /\ active' = [active EXCEPT ![req[h]] = @ + 1]
    /\ lock' = NoThread
    /\ pc' = [pc EXCEPT ![h] = "proxy"]
    /\ unasked' = {}
    /\ UNCHANGED <<lastUsed, req, rpc, stale, unvisited>>

\* faulty variant: the lease is counted before the preparation that may fail
RefusedButCounted(h) ==
    /\ active' = [active EXCEPT ![req[h]] = @ + 1]
    /\ lock' = NoThread
    /\ pc' = [pc EXCEPT ![h] = "idle"]
    /\ req' = [req EXCEPT ![h] = NoModel]
    /\ unasked' = {}
    /\ UNCHANGED <<lastUsed, rpc, stale, unvisited>>

\* begin raises: the lock is released, nothing is counted, the client gets 409
\* (an exception do_POST does not catch ends the thread with the same effect)
Refused(h) ==
    /\ lock' = NoThread
    /\ pc' = [pc EXCEPT ![h] = "idle"]
    /\ req' = [req EXCEPT ![h] = NoModel]
    /\ unasked' = {}
    /\ UNCHANGED <<active, lastUsed, rpc, stale, unvisited>>

Goto(h, stage) ==
    /\ pc' = [pc EXCEPT ![h] = stage]
    /\ UNCHANGED <<lock, active, lastUsed, req, rpc, stale, unvisited>>

\* _prepare_ollama
PrepareOllama(h) ==
    /\ pc[h] = "oActive"
    /\ \E isActive \in IsActiveAnswers : IF isActive THEN Refused(h) ELSE Granted(h)
    /\ UNCHANGED <<svc, resident>>

\* faulty variant: an active service is taken for a healthy one
QwenIsActiveSoReady(h) ==
    /\ pc[h] = "qActive"
    /\ \E isActive \in IsActiveAnswers :
          \/ isActive /\ Granted(h)
          \/ ~isActive /\ Goto(h, "ps") /\ unasked' = Ollama
    /\ UNCHANGED <<svc, resident>>

\* _prepare_qwen: a running service is only waited for, another one preflighted
QwenIsActive(h) ==
    /\ pc[h] = "qActive"
    /\ \E isActive \in IsActiveAnswers :
          \/ isActive /\ Goto(h, "health") /\ UNCHANGED unasked
          \/ ~isActive /\ Goto(h, "ps") /\ unasked' = Ollama
    /\ UNCHANGED <<svc, resident>>

\* GET /api/ps of one Ollama spec: it lists every model resident in Ollama
AskResident(h) ==
    /\ pc[h] = "ps"
    /\ \E o \in unasked :
          \/ /\ resident # {} \/ "ps" \in Faults
             /\ Refused(h)
          \/ /\ resident = {} \/ "ps" \in Faults
             /\ unasked' = unasked \ {o}
             /\ Goto(h, "ps")
    /\ UNCHANGED <<svc, resident>>

\* _gpu_state: both cards cool, and neither holds more than 256 MiB
GpuCheck(h) ==
    /\ pc[h] = "ps"
    /\ unasked = {}
    /\ \/ Refused(h)            \* hot, used by something else, or unreadable
       \/ resident = {} /\ svc # "healthy" /\ Goto(h, "start") /\ UNCHANGED unasked
    /\ UNCHANGED <<svc, resident>>

\* qwen_start: systemctl start also ends the wait of a unit to be restarted
QwenStart(h) ==
    /\ pc[h] = "start"
    /\ \/ Goto(h, "health") /\ UNCHANGED unasked
       \/ "helper" \in Faults /\ Refused(h)
    /\ svc' = IF SvcActive THEN svc ELSE "loading"
    /\ UNCHANGED resident

\* the helper raises (a timeout, a failed start) and had no effect
HelperRaises(h) ==
    /\ "helper" \in Faults
    /\ pc[h] \in {"oActive", "qActive", "start"}
    /\ Refused(h)
    /\ UNCHANGED <<svc, resident>>

\* _wait_for_qwen_health: /health answered 200
HealthOk(h) ==
    /\ pc[h] = "health"
    /\ svc = "healthy"
    /\ Granted(h)
    /\ UNCHANGED <<svc, resident>>

\* faulty variant: a start that took too long is begun again, not refused
HealthDeadlineRetries(h) ==
    /\ pc[h] = "health"
    /\ svc # "healthy"
    /\ SvcActive => Faults \cap {"slow", "crash"} # {}
    /\ Goto(h, "qActive")
    /\ UNCHANGED <<unasked, svc, resident>>

\* _wait_for_qwen_health: the deadline passed (the lock was held all along)
HealthDeadline(h) ==
    /\ pc[h] = "health"
    /\ svc # "healthy"
    /\ SvcActive => Faults \cap {"slow", "crash"} # {}
    /\ Refused(h)
    /\ UNCHANGED <<svc, resident>>

\* _proxy outside the lock: Ollama loads the model when the request reaches it
OllamaLoads(h) ==
    /\ pc[h] = "proxy"
    /\ req[h] \in Ollama
    /\ resident' = resident \cup {req[h]}
    /\ pc' = [pc EXCEPT ![h] = "stream"]
    /\ UNCHANGED <<lock, active, lastUsed, req, unasked, rpc, stale, unvisited, svc>>

\* _proxy returns: the response ended, the backend failed or the client left
ProxyReturns(h) ==
    /\ pc[h] \in {"proxy", "stream"}
    /\ Goto(h, "end")
    /\ UNCHANGED <<unasked, svc, resident>>

\* faulty variant: an old reading of the clock still counts for the new lease
EndLeaseStale(h) ==
    /\ pc[h] = "end"
    /\ lock = NoThread
    /\ active' = [active EXCEPT ![req[h]] = IF @ = 0 THEN 0 ELSE @ - 1]
    /\ lastUsed' = [lastUsed EXCEPT ![req[h]] = "recent"]
    /\ pc' = [pc EXCEPT ![h] = "idle"]
    /\ req' = [req EXCEPT ![h] = NoModel]
    /\ UNCHANGED <<lock, unasked, rpc, stale, unvisited, svc, resident>>

\* end, in the finally of do_POST
EndLease(h) ==
    /\ pc[h] = "end"
    /\ lock = NoThread
    /\ active' = [active EXCEPT ![req[h]] = IF @ = 0 THEN 0 ELSE @ - 1]
    /\ lastUsed' = [lastUsed EXCEPT ![req[h]] = "recent"]
    /\ stale' = stale \ {req[h]}
    /\ pc' = [pc EXCEPT ![h] = "idle"]
    /\ req' = [req EXCEPT ![h] = NoModel]
    /\ UNCHANGED <<lock, unasked, rpc, unvisited, svc, resident>>

-----------------------------------------------------------------------------
(* The reaper thread: _reaper and reap_once.                               *)

\* the clock is read before the lock is taken
ReaperWake ==
    /\ rpc = "wait"
    /\ rpc' = "lock"
    /\ stale' = {a \in Models : lastUsed[a] = "expired"}
    /\ UNCHANGED <<lock, active, lastUsed, pc, req, unasked, unvisited, svc, resident>>

ReaperLock ==
    /\ rpc = "lock"
    /\ lock = NoThread
    /\ lock' = Reaper
    /\ rpc' = "visit"
    /\ unvisited' = Models
    /\ UNCHANGED <<active, lastUsed, pc, req, unasked, stale, svc, resident>>

\* faulty variant: _active is not looked at
ReapableWhileLeased(a) == lastUsed[a] # "never" /\ a \in stale

Reapable(a) == active[a] = 0 /\ lastUsed[a] # "never" /\ a \in stale

\* the visit of a is over; released says whether its last use is forgotten
Visited(a, released) ==
    /\ unvisited' = unvisited \ {a}
    /\ lastUsed' = IF released THEN [lastUsed EXCEPT ![a] = "never"] ELSE lastUsed
    /\ rpc' = "visit"
    /\ UNCHANGED <<lock, active, pc, req, unasked, stale>>

ReaperSkips(a) ==
    /\ rpc = "visit"
    /\ a \in unvisited
    /\ ~Reapable(a)
    /\ Visited(a, FALSE)
    /\ UNCHANGED <<svc, resident>>

\* faulty variant: only a service that this pass stops counts as released
ReaperKeepsStoppedQwen ==
    /\ rpc = "visit"
    /\ Qwen \in unvisited
    /\ Reapable(Qwen)
    /\ \E isActive \in IsActiveAnswers :
          \/ /\ isActive
             /\ rpc' = "stop"
             /\ UNCHANGED <<lock, active, lastUsed, pc, req, unasked, stale, unvisited>>
          \/ ~isActive /\ Visited(Qwen, FALSE)
    /\ UNCHANGED <<svc, resident>>

\* qwen_is_active, before the stop
ReaperAsksQwen ==
    /\ rpc = "visit"
    /\ Qwen \in unvisited
    /\ Reapable(Qwen)
    /\ \E isActive \in IsActiveAnswers :
          \/ /\ isActive
             /\ rpc' = "stop"
             /\ UNCHANGED <<lock, active, lastUsed, pc, req, unasked, stale, unvisited>>
          \/ ~isActive /\ Visited(Qwen, TRUE)
    /\ UNCHANGED <<svc, resident>>

\* qwen_stop; a helper that timed out may have stopped the service
ReaperStopsQwen ==
    /\ rpc = "stop"
    /\ svc' = "inactive"
    /\ \/ Visited(Qwen, TRUE)
       \/ "helper" \in Faults /\ Visited(Qwen, FALSE)
    /\ UNCHANGED resident

\* the helper fails: the model is tried again on the next pass
ReaperHelperRaises ==
    /\ "helper" \in Faults
    /\ \/ rpc = "stop"
       \/ rpc = "visit" /\ Qwen \in unvisited /\ Reapable(Qwen)
    /\ Visited(Qwen, FALSE)
    /\ UNCHANGED <<svc, resident>>

\* POST /api/generate with keep_alive 0; the status of the answer is not read,
\* and a request that failed or timed out may have been obeyed
ReaperUnloads(o) ==
    /\ rpc = "visit"
    /\ o \in unvisited \cap Ollama
    /\ Reapable(o)
    /\ \/ resident' = resident \ {o} /\ Visited(o, TRUE)
       \/ "unload" \in Faults /\ Visited(o, TRUE) /\ UNCHANGED resident
       \/ /\ "unload" \in Faults
          /\ resident' \in {resident, resident \ {o}}
          /\ Visited(o, FALSE)
    /\ UNCHANGED svc

\* an http.client.HTTPException escapes reap_once and ends the thread
ReaperDies ==
    /\ "protocol" \in Faults
    /\ rpc = "visit"
    /\ \E o \in unvisited \cap Ollama :
          Reapable(o) /\ resident' \in {resident, resident \ {o}}
    /\ lock' = NoThread
    /\ rpc' = "dead"
    /\ unvisited' = {}
    /\ UNCHANGED <<active, lastUsed, pc, req, unasked, stale, svc>>

ReaperDone ==
    /\ rpc = "visit"
    /\ unvisited = {}
    /\ lock' = NoThread
    /\ rpc' = "wait"
    /\ UNCHANGED <<active, lastUsed, pc, req, unasked, stale, unvisited, svc, resident>>

-----------------------------------------------------------------------------
(* The clock, the router process, systemd and Ollama.                      *)

\* idle_seconds passed since a was last used
Tick(a) ==
    /\ lastUsed[a] = "recent"
    /\ lastUsed' = [lastUsed EXCEPT ![a] = "expired"]
    /\ UNCHANGED <<lock, active, pc, req, unasked, rpc, stale, unvisited, svc, resident>>

\* the process dies and systemd starts it again with empty tables
RouterRestart ==
    /\ "router" \in Faults
    /\ lock' = NoThread
    /\ active' = [a \in Models |-> 0]
    /\ lastUsed' = [a \in Models |-> "never"]
    /\ pc' = [h \in Handlers |-> "idle"]
    /\ req' = [h \in Handlers |-> NoModel]
    /\ unasked' = {}
    /\ rpc' = "wait"
    /\ stale' = {}
    /\ unvisited' = {}
    /\ UNCHANGED <<svc, resident>>

QwenHealthy == svc = "loading" /\ svc' = "healthy" /\ UNCHANGED <<routerVars, resident>>

\* Restart=on-failure: status 0 leaves the unit down, any other restarts it
QwenExits ==
    /\ SvcActive
    /\ \/ "exit" \in Faults /\ svc' = "inactive"
       \/ "crash" \in Faults /\ svc' = "restarting"
    /\ UNCHANGED <<routerVars, resident>>

\* RestartSec passed
SystemdRestarts ==
    /\ svc = "restarting"
    /\ svc' = "loading"
    /\ UNCHANGED <<routerVars, resident>>

\* Ollama's own keep-alive: never while it serves a request for the model
OllamaExpires(o) ==
    /\ "expire" \in Faults
    /\ o \in resident
    /\ \A h \in Handlers : ~(pc[h] = "stream" /\ req[h] = o)
    /\ resident' = resident \ {o}
    /\ UNCHANGED <<routerVars, svc>>

-----------------------------------------------------------------------------
\* the steps of a handler under the lock: their calls have timeouts
HandlerStep(h) ==
    \/ PrepareOllama(h)
    \/ QwenIsActive(h)
    \/ AskResident(h)
    \/ GpuCheck(h)
    \/ QwenStart(h)
    \/ HelperRaises(h)
    \/ HealthOk(h)
    \/ HealthDeadline(h)

\* a visit after which a counts as released
ReaperReleases(a) ==
    /\ lastUsed[a] # "never"
    /\ ReaperAsksQwen \/ ReaperStopsQwen \/ \E o \in Ollama : ReaperUnloads(o)
    /\ lastUsed'[a] = "never"

ReaperStep ==
    \/ ReaperWake
    \/ \E a \in Models : ReaperSkips(a)
    \/ ReaperAsksQwen
    \/ ReaperStopsQwen
    \/ ReaperHelperRaises
    \/ \E o \in Ollama : ReaperUnloads(o)
    \/ ReaperDies
    \/ ReaperDone

EnvironmentStep ==
    \/ \E a \in Models : Tick(a)
    \/ RouterRestart
    \/ QwenHealthy
    \/ QwenExits
    \/ SystemdRestarts
    \/ \E o \in Ollama : OllamaExpires(o)

Next ==
    \/ \E h \in Handlers :
          \/ \E a \in Models : Receive(h, a)
          \/ Begin(h)
          \/ HandlerStep(h)
          \/ OllamaLoads(h)
          \/ ProxyReturns(h)
          \/ EndLease(h)
    \/ ReaperStep
    \/ ReaperLock
    \/ EnvironmentStep

(***************************************************************************)
(* A thread that can run does run, and its calls to the helper, nvidia-smi *)
(* and the local services under the lock come back or time out; a blocked  *)
(* thread gets the lock if it keeps being released; the clock goes on; a   *)
(* service that is loading or waiting for its restart gets there; the      *)
(* reaper's stop, tried again on every pass, does not fail for ever.       *)
(* Nothing is assumed of the proxied request: a client that does not read  *)
(* keeps its thread in wfile.write, which has no timeout, and its lease.   *)
(***************************************************************************)
Fairness ==
    /\ \A h \in Handlers :
          /\ WF_vars(HandlerStep(h))
          /\ SF_vars(Begin(h))
          /\ SF_vars(EndLease(h))
    /\ WF_vars(ReaperStep)
    /\ SF_vars(ReaperLock)
    /\ \A a \in Models : SF_vars(ReaperReleases(a))
    /\ \A a \in Models : WF_vars(Tick(a))
    /\ ("slow" \notin Faults) => WF_vars(QwenHealthy)
    /\ WF_vars(SystemdRestarts)

Spec == Init /\ [][Next]_vars
FairSpec == Spec /\ Fairness

-----------------------------------------------------------------------------
TypeOK ==
    /\ lock \in Handlers \cup {Reaper, NoThread}
    /\ active \in [Models -> Nat]
    /\ lastUsed \in [Models -> {"never", "recent", "expired"}]
    /\ pc \in [Handlers -> Stages]
    /\ req \in [Handlers -> Models \cup {NoModel}]
    /\ unasked \subseteq Ollama
    /\ rpc \in {"wait", "lock", "visit", "stop", "dead"}
    /\ stale \subseteq Models
    /\ unvisited \subseteq Models
    /\ svc \in {"inactive", "loading", "healthy", "restarting"}
    /\ resident \subseteq Ollama

(* _active counts exactly the requests between begin and end: no lease is  *)
(* lost or counted twice on any path through do_POST, so that the reaper's *)
(* test of it and max(0, ...) in end mean what they say.                   *)
ActiveCountsLeases == \A a \in Models : active[a] = Cardinality(LeaseHolders(a))

(* While the reaper is about to stop Qwen no request holds a Qwen lease,   *)
(* and none is being prepared: between reap_once's test of _active and its *)
(* qwen_stop nobody is let in.                                             *)
StopHasNoLease ==
    rpc = "stop" =>
        /\ LeaseHolders(Qwen) = {}
        /\ \A h \in Handlers : pc[h] \notin Begun

(* A step of the reaper takes a model away from the GPUs only when nobody  *)
(* holds a lease on it and its idle time is over (reap_once).              *)
SparesLeases ==
    unvisited' # unvisited =>
       \A a \in Models :
          \/ a = Qwen /\ svc # "inactive" /\ svc' = "inactive"
          \/ a \in resident \ resident'
          => LeaseHolders(a) = {} /\ lastUsed[a] = "expired"

ReaperSparesLeases == [][SparesLeases]_vars

(* A request that holds a Qwen lease is served by a healthy service: as    *)
(* long as the service does not exit by itself, begin's health wait and    *)
(* the reaper's test of _active leave no lease on a stopped or loading     *)
(* Qwen, however begin, end and reap_once interleave.                      *)
LeasedQwenIsHealthy == LeaseHolders(Qwen) # {} => svc = "healthy"

(* deployment/README.md: the router "prevents Qwen/Ollama co-residency";   *)
(* docs/LOCAL_MODEL_RUNBOOK.md: it "never runs Qwen and an Ollama model    *)
(* together".  It fails as soon as a Qwen request overlaps an Ollama       *)
(* lease, without any fault.                                               *)
NoCoResidency == ~(SvcActive /\ resident # {})

(* begin and end come back, begin with a lease or with a refusal: the lock *)
(* is held for as long as Qwen takes to start, or a stop or an unload      *)
(* takes to fail, but it blocks no handler for ever.  Neither does a       *)
(* client that never takes its answer: it has its lease outside the lock.  *)
BeginAndEndReturn ==
    \A h \in Handlers :
       /\ pc[h] = "begin" ~> pc[h] \in {"idle"} \cup Leased
       /\ pc[h] = "end" ~> pc[h] = "idle"

(* A model whose last lease ended is released by the reaper unless it is   *)
(* leased again: a stop or an unload that failed, before or after it had   *)
(* its effect, is repeated on a later pass, which then finds it done.      *)
IdleRecordReleased ==
    \A a \in Models :
       (lastUsed[a] # "never" /\ active[a] = 0) ~>
          (lastUsed[a] = "never" \/ active[a] > 0)

(* The promise of ModelLeases: Qwen is leased only when it runs and Ollama *)
(* only when it does not, and a loaded model goes away only after its idle *)
(* time, with no lease on it and its record cleared in the same step.      *)
HeldModels == [h \in Handlers |-> IF pc[h] \in Leased THEN req[h] ELSE NoModel]
LoadedModels == resident \cup (IF svc = "inactive" THEN {} ELSE {Qwen})

Leases == INSTANCE ModelLeases WITH
    Clients <- Handlers,
    held    <- HeldModels,
    idle    <- lastUsed,
    loaded  <- LoadedModels

ImplementsLeases == Leases!Spec
=============================================================================
