------------------------- MODULE ModelRouterProofs -------------------------
(***************************************************************************)
(* Proofs about ModelRouter for every set of handlers, every set of Ollama *)
(* models and every set of faults.  RouterInv, the inductive invariant,    *)
(* adds to the properties what the lock protects: whoever is inside begin  *)
(* or reap_once is the thread that holds it.                               *)
(***************************************************************************)
EXTENDS ModelRouter, FiniteSetTheorems, TLAPS

\* the threads inside the lock are exactly its holder
LockInv ==
    /\ \A h \in Handlers : lock = h <=> pc[h] \in Begun
    /\ lock = Reaper <=> rpc \in {"visit", "stop"}

\* a handler that is not idle serves a request, of the kind its stage is for
RequestInv ==
    \A h \in Handlers :
       /\ pc[h] # "idle" => req[h] \in Models
       /\ pc[h] \in {"qActive", "ps", "start", "health"} => req[h] = Qwen
       /\ pc[h] = "oActive" => req[h] \in Ollama

\* what the reaper decided about Qwen still holds when it stops it
StopInv == rpc = "stop" => Qwen \in unvisited /\ Reapable(Qwen)

\* a model idle at the reaper's reading of the clock is idle or forgotten
StaleInv == \A a \in stale : lastUsed[a] \in {"expired", "never"}

RouterInv ==
    /\ TypeOK
    /\ LockInv
    /\ RequestInv
    /\ ActiveCountsLeases
    /\ StopInv
    /\ StaleInv

-----------------------------------------------------------------------------
\* Replacing one value of a function by a value of its range keeps its type.
LEMMA ExceptInType ==
    ASSUME NEW S, NEW T, NEW f \in [S -> T], NEW x, NEW v, x \in S => v \in T
    PROVE  [f EXCEPT ![x] = v] \in [S -> T]
OBVIOUS

\* No step leaves the types of the variables.
LEMMA TypeStep == TypeOK /\ [Next]_vars => TypeOK'
<1> SUFFICES ASSUME TypeOK, [Next]_vars PROVE TypeOK'
  OBVIOUS
<1> USE DEF TypeOK, Stages, Begun, Leased, Models
<1>1. ASSUME NEW h \in Handlers, NEW a \in Models, Receive(h, a) PROVE TypeOK'
  BY <1>1 DEF Receive
<1>2. ASSUME NEW h \in Handlers, Begin(h) PROVE TypeOK'
  BY <1>2 DEF Begin
<1>3. ASSUME NEW h \in Handlers, Granted(h), UNCHANGED <<svc, resident>>
      PROVE TypeOK'
  <2>1. req[h] \in Models => active[req[h]] + 1 \in Nat
    OBVIOUS
  <2>2. active' \in [Models -> Nat]
    BY <1>3, <2>1, ExceptInType DEF Granted
  <2> QED
    BY <1>3, <2>2 DEF Granted
<1>4. ASSUME NEW h \in Handlers, Refused(h), svc' \in {svc, "loading"},
             UNCHANGED resident
      PROVE TypeOK'
  BY <1>4 DEF Refused
<1>5. ASSUME NEW h \in Handlers, NEW s \in Stages, Goto(h, s),
             unasked' \subseteq Ollama, svc' \in {svc, "loading"},
             UNCHANGED resident
      PROVE TypeOK'
  BY <1>5 DEF Goto
<1>6. ASSUME NEW h \in Handlers, HandlerStep(h) \/ ProxyReturns(h) PROVE TypeOK'
  <2>1. CASE PrepareOllama(h)
    BY <2>1, <1>3, <1>4 DEF PrepareOllama
  <2>2. CASE QwenIsActive(h)
    BY <2>2, <1>5 DEF QwenIsActive
  <2>3. CASE AskResident(h)
    BY <2>3, <1>4, <1>5 DEF AskResident
  <2>4. CASE GpuCheck(h)
    BY <2>4, <1>4, <1>5 DEF GpuCheck
  <2>5. CASE QwenStart(h)
    BY <2>5, <1>4, <1>5 DEF QwenStart
  <2>6. CASE HelperRaises(h)
    BY <2>6, <1>4 DEF HelperRaises
  <2>7. CASE HealthOk(h)
    BY <2>7, <1>3 DEF HealthOk
  <2>8. CASE HealthDeadline(h)
    BY <2>8, <1>4 DEF HealthDeadline
  <2>9. CASE ProxyReturns(h)
    BY <2>9, <1>5 DEF ProxyReturns
  <2> QED
    BY <1>6, <2>1, <2>2, <2>3, <2>4, <2>5, <2>6, <2>7, <2>8, <2>9 DEF HandlerStep
<1>7. ASSUME NEW h \in Handlers, OllamaLoads(h) PROVE TypeOK'
  BY <1>7 DEF OllamaLoads
<1>8. ASSUME NEW h \in Handlers, EndLease(h) PROVE TypeOK'
  <2> DEFINE n == IF active[req[h]] = 0 THEN 0 ELSE active[req[h]] - 1
  <2>1. req[h] \in Models => n \in Nat
    OBVIOUS
  <2>2. active' = [active EXCEPT ![req[h]] = n]
    BY <1>8 DEF EndLease
  <2> HIDE DEF n
  <2>3. active' \in [Models -> Nat]
    BY <2>1, <2>2, ExceptInType
  <2> QED
    BY <1>8, <2>3 DEF EndLease
<1>9. CASE ReaperLock
  BY <1>9 DEF ReaperLock
<1>10. ASSUME NEW a \in Models, NEW released \in BOOLEAN, Visited(a, released),
              svc' \in {svc, "inactive"}, resident' \subseteq resident
       PROVE TypeOK'
  BY <1>10 DEF Visited
<1>11. CASE ReaperStep
  <2>1. CASE ReaperWake
    BY <2>1 DEF ReaperWake
  <2>2. ASSUME NEW a \in Models, ReaperSkips(a) PROVE TypeOK'
    BY <2>2, <1>10 DEF ReaperSkips
  <2>3. CASE ReaperAsksQwen
    BY <2>3, <1>10 DEF ReaperAsksQwen
  <2>4. CASE ReaperStopsQwen
    BY <2>4, <1>10 DEF ReaperStopsQwen
  <2>5. CASE ReaperHelperRaises
    BY <2>5, <1>10 DEF ReaperHelperRaises
  <2>6. ASSUME NEW o \in Ollama, ReaperUnloads(o) PROVE TypeOK'
    BY <2>6, <1>10 DEF ReaperUnloads
  <2>7. CASE ReaperDies
    BY <2>7 DEF ReaperDies
  <2>8. CASE ReaperDone
    BY <2>8 DEF ReaperDone
  <2> QED
    BY <1>11, <2>1, <2>2, <2>3, <2>4, <2>5, <2>6, <2>7, <2>8 DEF ReaperStep
<1>12. CASE EnvironmentStep
  BY <1>12 DEF EnvironmentStep, Tick, RouterRestart, QwenHealthy, QwenExits,
               SystemdRestarts, OllamaExpires, routerVars
<1>13. CASE UNCHANGED vars
  BY <1>13 DEF vars
<1> QED
  BY <1>1, <1>2, <1>6, <1>7, <1>8, <1>9, <1>11, <1>12, <1>13 DEF Next

(* The variables keep their types: in particular _active stays a natural   *)
(* number on every path through do_POST.                                   *)
THEOREM TypeCorrect == Spec => []TypeOK
<1>1. Init => TypeOK
  BY DEF Init, TypeOK, Models, Stages
<1> QED
  BY <1>1, TypeStep, PTL DEF Spec

-----------------------------------------------------------------------------
\* A step inside the lock by its holder: it stays inside and keeps the lock,
\* or leaves and releases it.
LEMMA LockStep == TypeOK /\ LockInv /\ RequestInv /\ [Next]_vars => LockInv'
<1> SUFFICES ASSUME TypeOK, LockInv, RequestInv, [Next]_vars PROVE LockInv'
  OBVIOUS
<1> USE ThreadsAssumption DEF TypeOK, LockInv, Stages, Begun, Leased
<1>1. ASSUME NEW h \in Handlers, NEW a \in Models, Receive(h, a) PROVE LockInv'
  BY <1>1 DEF Receive
<1>2. ASSUME NEW h \in Handlers, Begin(h) PROVE LockInv'
  BY <1>2 DEF Begin
<1>3. ASSUME NEW h \in Handlers, pc[h] \in Begun, Granted(h) PROVE LockInv'
  BY <1>3 DEF Granted
<1>4. ASSUME NEW h \in Handlers, pc[h] \in Begun, Refused(h) PROVE LockInv'
  BY <1>4 DEF Refused
<1>5. ASSUME NEW h \in Handlers, NEW s \in Stages, pc[h] \in Begun <=> s \in Begun,
             Goto(h, s)
      PROVE LockInv'
  BY <1>5 DEF Goto
<1>6. ASSUME NEW h \in Handlers, HandlerStep(h) \/ ProxyReturns(h) PROVE LockInv'
  BY <1>3, <1>4, <1>5, <1>6
     DEF HandlerStep, PrepareOllama, QwenIsActive, AskResident, GpuCheck, QwenStart,
         HelperRaises, HealthOk, HealthDeadline, ProxyReturns
<1>7. ASSUME NEW h \in Handlers, OllamaLoads(h) PROVE LockInv'
  BY <1>7 DEF OllamaLoads
<1>8. ASSUME NEW h \in Handlers, EndLease(h) PROVE LockInv'
  BY <1>8 DEF EndLease
<1>9. CASE ReaperLock
  BY <1>9 DEF ReaperLock
<1>10. ASSUME NEW a, NEW released \in BOOLEAN, rpc \in {"visit", "stop"}, Visited(a, released)
       PROVE LockInv'
  BY <1>10 DEF Visited
<1>11. CASE ReaperStep
  <2>1. CASE ReaperWake \/ ReaperDies \/ ReaperDone
    BY <2>1 DEF ReaperWake, ReaperDies, ReaperDone
  <2>2. CASE ReaperAsksQwen \/ ReaperStopsQwen \/ ReaperHelperRaises
    BY <1>10, <2>2 DEF ReaperAsksQwen, ReaperStopsQwen, ReaperHelperRaises
  <2>3. CASE \/ \E a \in Models : ReaperSkips(a)
             \/ \E o \in Ollama : ReaperUnloads(o)
    BY <1>10, <2>3 DEF ReaperSkips, ReaperUnloads
  <2> QED
    BY <1>11, <2>1, <2>2, <2>3 DEF ReaperStep
<1>12. CASE EnvironmentStep
  BY <1>12 DEF EnvironmentStep, Tick, RouterRestart, QwenHealthy, QwenExits,
               SystemdRestarts, OllamaExpires, routerVars
<1>13. CASE UNCHANGED vars
  BY <1>13 DEF vars
<1> QED
  BY <1>1, <1>2, <1>6, <1>7, <1>8, <1>9, <1>11, <1>12, <1>13 DEF Next

\* A handler keeps its request from begin to the end of do_POST.
LEMMA RequestStep == TypeOK /\ RequestInv /\ [Next]_vars => RequestInv'
<1> SUFFICES ASSUME TypeOK, RequestInv, [Next]_vars PROVE RequestInv'
  OBVIOUS
<1> USE DEF TypeOK, RequestInv, Stages, Begun, Leased, Models
<1>1. ASSUME NEW h \in Handlers, NEW a \in Models, Receive(h, a) PROVE RequestInv'
  BY <1>1 DEF Receive
<1>2. ASSUME NEW h \in Handlers, Begin(h) PROVE RequestInv'
  BY <1>2 DEF Begin
<1>3. ASSUME NEW h \in Handlers, pc[h] \in Begun, Granted(h) PROVE RequestInv'
  BY <1>3 DEF Granted
<1>4. ASSUME NEW h \in Handlers, Refused(h) PROVE RequestInv'
  BY <1>4 DEF Refused
<1>5. ASSUME NEW h \in Handlers, NEW s \in Stages, pc[h] # "idle", Goto(h, s),
             s = "end" \/ (req[h] = Qwen /\ s # "oActive")
      PROVE RequestInv'
  BY <1>5 DEF Goto
<1>6. ASSUME NEW h \in Handlers, HandlerStep(h) \/ ProxyReturns(h) PROVE RequestInv'
  <2>1. CASE PrepareOllama(h) \/ HelperRaises(h) \/ HealthOk(h) \/ HealthDeadline(h)
    BY <1>3, <1>4, <2>1 DEF PrepareOllama, HelperRaises, HealthOk, HealthDeadline
  <2>2. CASE QwenIsActive(h) \/ AskResident(h) \/ GpuCheck(h) \/ QwenStart(h)
    BY <1>4, <1>5, <2>2 DEF QwenIsActive, AskResident, GpuCheck, QwenStart
  <2>3. CASE ProxyReturns(h)
    BY <1>5, <2>3 DEF ProxyReturns
  <2> QED
    BY <1>6, <2>1, <2>2, <2>3 DEF HandlerStep
<1>7. ASSUME NEW h \in Handlers, OllamaLoads(h) PROVE RequestInv'
  BY <1>7 DEF OllamaLoads
<1>8. ASSUME NEW h \in Handlers, EndLease(h) PROVE RequestInv'
  BY <1>8 DEF EndLease
<1>9. CASE ReaperLock \/ ReaperStep
  BY <1>9
     DEF ReaperLock, ReaperStep, ReaperWake, ReaperSkips, ReaperAsksQwen, Visited,
         ReaperStopsQwen, ReaperHelperRaises, ReaperUnloads, ReaperDies, ReaperDone
<1>10. CASE EnvironmentStep
  BY <1>10 DEF EnvironmentStep, Tick, RouterRestart, QwenHealthy, QwenExits,
               SystemdRestarts, OllamaExpires, routerVars
<1>11. CASE UNCHANGED vars
  BY <1>11 DEF vars
<1> QED
  BY <1>1, <1>2, <1>6, <1>7, <1>8, <1>9, <1>10, <1>11 DEF Next

-----------------------------------------------------------------------------
\* The holders of a lease are some of the finitely many handlers.
LEMMA HoldersFinite == \A a : IsFiniteSet(LeaseHolders(a))
  BY HandlersAssumption, FS_Subset DEF LeaseHolders

\* The lease counts do not change when every handler that holds a lease after
\* the step held one on the same model before it, and the other way round.
LEMMA HoldersKept ==
    ASSUME ActiveCountsLeases,
           active' = active,
           \A h \in Handlers :
              /\ pc'[h] \in Leased <=> pc[h] \in Leased
              /\ pc[h] \in Leased => req'[h] = req[h]
    PROVE  ActiveCountsLeases'
<1>1. \A a \in Models : LeaseHolders(a)' = LeaseHolders(a)
  BY DEF LeaseHolders
<1> QED
  BY <1>1 DEF ActiveCountsLeases

\* A grant adds one holder, and one to the count.
LEMMA GrantCounts ==
    ASSUME TypeOK, RequestInv, ActiveCountsLeases,
           NEW h \in Handlers, pc[h] \in Begun, Granted(h)
    PROVE  ActiveCountsLeases'
<1> SUFFICES ASSUME NEW a \in Models
             PROVE  active'[a] = Cardinality(LeaseHolders(a)')
  BY DEF ActiveCountsLeases
<1> USE DEF TypeOK, RequestInv, Stages, Begun, Leased
<1>1. active[a] = Cardinality(LeaseHolders(a)) /\ active[a] \in Nat
  BY DEF ActiveCountsLeases
<1>2. CASE a = req[h]
  <2>1. LeaseHolders(a)' = LeaseHolders(a) \cup {h} /\ h \notin LeaseHolders(a)
    BY <1>2 DEF LeaseHolders, Granted
  <2>2. Cardinality(LeaseHolders(a) \cup {h}) = Cardinality(LeaseHolders(a)) + 1
    BY <2>1, HoldersFinite, FS_AddElement
  <2>3. active'[a] = active[a] + 1
    BY <1>2 DEF Granted
  <2> QED
    BY <1>1, <2>1, <2>2, <2>3
<1>3. CASE a # req[h]
  <2>1. LeaseHolders(a)' = LeaseHolders(a)
    BY <1>3 DEF LeaseHolders, Granted
  <2>2. active'[a] = active[a]
    BY <1>3 DEF Granted
  <2> QED
    BY <1>1, <2>1, <2>2
<1> QED
  BY <1>2, <1>3

\* The end of a lease removes one holder, and one from a count above zero.
LEMMA EndCounts ==
    ASSUME TypeOK, RequestInv, ActiveCountsLeases, NEW h \in Handlers, EndLease(h)
    PROVE  ActiveCountsLeases'
<1> SUFFICES ASSUME NEW a \in Models
             PROVE  active'[a] = Cardinality(LeaseHolders(a)')
  BY DEF ActiveCountsLeases
<1> USE DEF TypeOK, RequestInv, Stages, Begun, Leased
<1>1. active[a] = Cardinality(LeaseHolders(a)) /\ active[a] \in Nat
  BY DEF ActiveCountsLeases
<1>2. CASE a = req[h]
  <2>1. LeaseHolders(a)' = LeaseHolders(a) \ {h} /\ h \in LeaseHolders(a)
    BY <1>2, ModelsAssumption DEF LeaseHolders, EndLease
  <2>2. Cardinality(LeaseHolders(a) \ {h}) = Cardinality(LeaseHolders(a)) - 1
    BY <2>1, HoldersFinite, FS_RemoveElement
  <2>3. Cardinality(LeaseHolders(a)) # 0
    BY <2>1, HoldersFinite, FS_EmptySet
  <2>4. active'[a] = active[a] - 1
    BY <1>1, <1>2, <2>3 DEF EndLease
  <2> QED
    BY <1>1, <2>1, <2>2, <2>4
<1>3. CASE a # req[h]
  <2>1. LeaseHolders(a)' = LeaseHolders(a)
    BY <1>3, ModelsAssumption DEF LeaseHolders, EndLease
  <2>2. active'[a] = active[a]
    BY <1>3 DEF EndLease
  <2> QED
    BY <1>1, <2>1, <2>2
<1> QED
  BY <1>2, <1>3

\* A restarted router has no lease and counts none.
LEMMA RestartCounts ==
    ASSUME RouterRestart PROVE ActiveCountsLeases'
<1>1. \A a \in Models : LeaseHolders(a)' = {}
  BY DEF RouterRestart, LeaseHolders, Leased
<1> QED
  BY <1>1, FS_EmptySet DEF RouterRestart, ActiveCountsLeases

\* Only a grant, the end of a lease and a restart change the counts.
LEMMA CountStep ==
    TypeOK /\ RequestInv /\ ActiveCountsLeases /\ [Next]_vars => ActiveCountsLeases'
<1> SUFFICES ASSUME TypeOK, RequestInv, ActiveCountsLeases, [Next]_vars
             PROVE  ActiveCountsLeases'
  OBVIOUS
<1> USE DEF TypeOK, Stages, Begun, Leased
<1>1. ASSUME NEW h \in Handlers, NEW a \in Models, Receive(h, a)
      PROVE ActiveCountsLeases'
  BY <1>1, HoldersKept DEF Receive
<1>2. ASSUME NEW h \in Handlers, Begin(h) PROVE ActiveCountsLeases'
  BY <1>2, HoldersKept DEF Begin
<1>3. ASSUME NEW h \in Handlers, pc[h] \in Begun, Refused(h) PROVE ActiveCountsLeases'
  BY <1>3, HoldersKept DEF Refused
<1>4. ASSUME NEW h \in Handlers, NEW s \in Stages, pc[h] \in Leased <=> s \in Leased,
             Goto(h, s)
      PROVE ActiveCountsLeases'
  BY <1>4, HoldersKept DEF Goto
<1>5. ASSUME NEW h \in Handlers, HandlerStep(h) \/ ProxyReturns(h) PROVE ActiveCountsLeases'
  BY <1>3, <1>4, <1>5, GrantCounts
     DEF HandlerStep, PrepareOllama, QwenIsActive, AskResident, GpuCheck, QwenStart,
         HelperRaises, HealthOk, HealthDeadline, ProxyReturns
<1>6. ASSUME NEW h \in Handlers, OllamaLoads(h) PROVE ActiveCountsLeases'
  BY <1>6, HoldersKept DEF OllamaLoads
<1>7. ASSUME NEW h \in Handlers, EndLease(h) PROVE ActiveCountsLeases'
  BY <1>7, EndCounts
<1>8. CASE UNCHANGED <<active, pc, req>>
  BY <1>8, HoldersKept
<1>9. CASE ReaperLock \/ ReaperStep
  BY <1>8, <1>9
     DEF ReaperLock, ReaperStep, ReaperWake, ReaperSkips, ReaperAsksQwen, Visited,
         ReaperStopsQwen, ReaperHelperRaises, ReaperUnloads, ReaperDies, ReaperDone
<1>10. CASE EnvironmentStep
  BY <1>8, <1>10, RestartCounts
     DEF EnvironmentStep, Tick, QwenHealthy, QwenExits, SystemdRestarts,
         OllamaExpires, routerVars
<1> QED
  BY <1>1, <1>2, <1>5, <1>6, <1>7, <1>8, <1>9, <1>10 DEF Next, vars

-----------------------------------------------------------------------------
\* Nothing the reaper decided about Qwen changes while it holds the lock.
LEMMA StopStep == TypeOK /\ LockInv /\ StopInv /\ [Next]_vars => StopInv'
<1> SUFFICES ASSUME TypeOK, LockInv, StopInv, [Next]_vars, rpc' = "stop"
             PROVE  Qwen \in unvisited' /\ Reapable(Qwen)'
  BY DEF StopInv
<1> USE ThreadsAssumption DEF TypeOK, LockInv, StopInv, Reapable, Begun, Models
<1>1. ASSUME NEW h \in Handlers, lock = h, pc[h] \in Begun
      PROVE  rpc # "stop"
  BY <1>1
<1>2. ASSUME rpc = "stop", UNCHANGED <<active, lastUsed, stale, unvisited>>
      PROVE  Qwen \in unvisited' /\ Reapable(Qwen)'
  BY <1>2
<1>3. ASSUME NEW h \in Handlers, NEW a \in Models, Receive(h, a) \/ Begin(h)
      PROVE  Qwen \in unvisited' /\ Reapable(Qwen)'
  BY <1>2, <1>3 DEF Receive, Begin
<1>4. ASSUME NEW h \in Handlers, HandlerStep(h)
      PROVE  FALSE
  BY <1>1, <1>4
     DEF HandlerStep, PrepareOllama, QwenIsActive, AskResident, GpuCheck, QwenStart,
         HelperRaises, HealthOk, HealthDeadline, Granted, Refused, Goto
<1>5. ASSUME NEW h \in Handlers, ProxyReturns(h) \/ OllamaLoads(h) \/ EndLease(h)
      PROVE  Qwen \in unvisited' /\ Reapable(Qwen)'
  BY <1>2, <1>5 DEF ProxyReturns, OllamaLoads, EndLease, Goto
<1>6. CASE ReaperLock \/ ReaperStep
  BY <1>6
     DEF ReaperLock, ReaperStep, ReaperWake, ReaperSkips, ReaperAsksQwen, Visited,
         ReaperStopsQwen, ReaperHelperRaises, ReaperUnloads, ReaperDies, ReaperDone
<1>7. CASE EnvironmentStep
  BY <1>7
     DEF EnvironmentStep, Tick, RouterRestart, QwenHealthy, QwenExits,
         SystemdRestarts, OllamaExpires, routerVars
<1> QED
  BY <1>2, <1>3, <1>4, <1>5, <1>6, <1>7 DEF Next, vars

\* A use after the reaper's reading of the clock takes the model out of stale.
LEMMA StaleStep == TypeOK /\ StaleInv /\ [Next]_vars => StaleInv'
<1> SUFFICES ASSUME TypeOK, StaleInv, [Next]_vars PROVE StaleInv'
  OBVIOUS
<1> USE DEF TypeOK, StaleInv
<1>1. ASSUME UNCHANGED <<stale, lastUsed>> PROVE StaleInv'
  BY <1>1
<1>2. ASSUME NEW h \in Handlers, NEW a \in Models,
             \/ Receive(h, a)
             \/ Begin(h)
             \/ HandlerStep(h)
             \/ ProxyReturns(h)
             \/ OllamaLoads(h)
      PROVE  StaleInv'
  BY <1>1, <1>2
     DEF Receive, Begin, OllamaLoads, HandlerStep, PrepareOllama, QwenIsActive,
         AskResident, GpuCheck, QwenStart, HelperRaises, HealthOk, HealthDeadline,
         ProxyReturns, Granted, Refused, Goto
<1>3. ASSUME NEW h \in Handlers, EndLease(h) PROVE StaleInv'
  BY <1>3 DEF EndLease
<1>4. CASE ReaperLock \/ ReaperStep
  BY <1>4
     DEF ReaperLock, ReaperStep, ReaperWake, ReaperSkips, ReaperAsksQwen, Visited,
         ReaperStopsQwen, ReaperHelperRaises, ReaperUnloads, ReaperDies, ReaperDone
<1>5. CASE EnvironmentStep
  BY <1>5
     DEF EnvironmentStep, Tick, RouterRestart, QwenHealthy, QwenExits,
         SystemdRestarts, OllamaExpires, routerVars
<1> QED
  BY <1>1, <1>2, <1>3, <1>4, <1>5 DEF Next, vars, Models

\* Initially nothing is leased, locked or stale.
LEMMA InvInit == Init => RouterInv
<1> SUFFICES ASSUME Init PROVE RouterInv
  OBVIOUS
<1>1. TypeOK
  BY DEF Init, TypeOK, Models, Stages
<1>2. LockInv /\ RequestInv /\ StopInv /\ StaleInv
  BY ThreadsAssumption DEF Init, LockInv, RequestInv, StopInv, StaleInv, Begun
<1>3. ActiveCountsLeases
  <2>1. \A a \in Models : LeaseHolders(a) = {}
    BY DEF Init, LeaseHolders, Leased
  <2> QED
    BY <2>1, FS_EmptySet DEF Init, ActiveCountsLeases
<1> QED
  BY <1>1, <1>2, <1>3 DEF RouterInv

\* RouterInv is an inductive invariant.
LEMMA InvHolds == Spec => []RouterInv
<1>1. RouterInv /\ [Next]_vars => RouterInv'
  BY TypeStep, LockStep, RequestStep, CountStep, StopStep, StaleStep DEF RouterInv
<1> QED
  BY <1>1, InvInit, PTL DEF Spec

(* _active always counts exactly the requests between begin and end.       *)
THEOREM CountsCorrect == Spec => []ActiveCountsLeases
<1>1. RouterInv => ActiveCountsLeases
  BY DEF RouterInv
<1> QED
  BY <1>1, InvHolds, PTL

\* Where the count is zero nobody holds a lease.
LEMMA ZeroMeansUnheld ==
    ASSUME ActiveCountsLeases, NEW a \in Models, active[a] = 0
    PROVE  LeaseHolders(a) = {}
  BY HoldersFinite, FS_EmptySet DEF ActiveCountsLeases

(* When the reaper stops Qwen no request holds it, and none is preparing.  *)
THEOREM StopIsSafe == Spec => []StopHasNoLease
<1>1. RouterInv => StopHasNoLease
  <2> SUFFICES ASSUME RouterInv, rpc = "stop"
               PROVE  LeaseHolders(Qwen) = {} /\ \A h \in Handlers : pc[h] \notin Begun
    BY DEF StopHasNoLease
  <2>1. LeaseHolders(Qwen) = {}
    BY ZeroMeansUnheld DEF RouterInv, StopInv, Reapable, Models
  <2>2. \A h \in Handlers : pc[h] \notin Begun
    BY ThreadsAssumption DEF RouterInv, LockInv
  <2> QED
    BY <2>1, <2>2
<1> QED
  BY <1>1, InvHolds, PTL

-----------------------------------------------------------------------------
\* What the reaper may release is unused, and idle for its time.
LEMMA ReapableIsIdle ==
    ASSUME RouterInv, NEW a \in Models, Reapable(a)
    PROVE  LeaseHolders(a) = {} /\ lastUsed[a] = "expired"
<1>1. LeaseHolders(a) = {}
  BY ZeroMeansUnheld DEF RouterInv, Reapable
<1>2. lastUsed[a] = "expired"
  BY DEF RouterInv, StaleInv, Reapable
<1> QED
  BY <1>1, <1>2

(* No step of the reaper takes away a model that someone has leased, or    *)
(* one whose idle time is not over.                                        *)
THEOREM ReaperIsSafe == Spec => ReaperSparesLeases
<1>1. RouterInv /\ [Next]_vars => [SparesLeases]_vars
  <2> SUFFICES ASSUME RouterInv, Next, unvisited' # unvisited,
                      NEW a \in Models,
                      \/ a = Qwen /\ svc # "inactive" /\ svc' = "inactive"
                      \/ a \in resident \ resident'
               PROVE  LeaseHolders(a) = {} /\ lastUsed[a] = "expired"
    BY DEF SparesLeases
  <2> USE ModelsAssumption DEF Models
  <2>1. CASE \E h \in Handlers : \/ \E b \in Models : Receive(h, b)
                                 \/ Begin(h)
                                 \/ HandlerStep(h)
                                 \/ ProxyReturns(h)
                                 \/ OllamaLoads(h)
                                 \/ EndLease(h)
    BY <2>1
       DEF Receive, Begin, OllamaLoads, EndLease, HandlerStep, PrepareOllama,
           QwenIsActive, AskResident, GpuCheck, QwenStart, HelperRaises, HealthOk,
           HealthDeadline, ProxyReturns, Granted, Refused, Goto
  <2>2. CASE EnvironmentStep \/ ReaperLock
    BY <2>2
       DEF EnvironmentStep, Tick, RouterRestart, QwenHealthy, QwenExits,
           SystemdRestarts, OllamaExpires, routerVars, ReaperLock
  <2>3. CASE ReaperStopsQwen
    <3>1. a = Qwen /\ Reapable(Qwen)
      BY <2>3 DEF ReaperStopsQwen, RouterInv, StopInv
    <3> QED
      BY <3>1, ReapableIsIdle
  <2>4. ASSUME (\E o \in Ollama : ReaperUnloads(o)) \/ ReaperDies
        PROVE  LeaseHolders(a) = {} /\ lastUsed[a] = "expired"
    <3>1. a \in Ollama /\ Reapable(a)
      BY <2>4 DEF ReaperUnloads, ReaperDies
    <3> QED
      BY <3>1, ReapableIsIdle
  <2>5. CASE \/ ReaperWake
             \/ \E b \in Models : ReaperSkips(b)
             \/ ReaperAsksQwen
             \/ ReaperHelperRaises
             \/ ReaperDone
    BY <2>5
       DEF ReaperWake, ReaperSkips, ReaperAsksQwen, ReaperHelperRaises, ReaperDone
  <2> QED
    BY <2>1, <2>2, <2>3, <2>4, <2>5 DEF Next, ReaperStep
<1> QED
  BY <1>1, InvHolds, PTL DEF Spec, ReaperSparesLeases

-----------------------------------------------------------------------------
\* Without the faults that end it, the service is healthy while it is leased,
\* and never waits for a restart.
ServiceInv == LeasedQwenIsHealthy /\ svc # "restarting"

LEMMA ServiceStep ==
    ASSUME Faults \cap {"exit", "crash"} = {},
           RouterInv, ServiceInv, [Next]_vars
    PROVE  ServiceInv'
<1> USE ModelsAssumption
        DEF ServiceInv, LeasedQwenIsHealthy, LeaseHolders, Leased, Begun, Models
<1> DEFINE Held(h) == pc[h] \in Leased /\ req[h] = Qwen
<1>1. ASSUME svc' = svc, \A h \in Handlers : Held(h)' => Held(h)
      PROVE  ServiceInv'
  BY <1>1
<1>2. TypeOK /\ RequestInv
  BY DEF RouterInv
<1> USE <1>2 DEF TypeOK, RequestInv, Stages
<1>3. ASSUME NEW h \in Handlers, NEW a \in Models, Receive(h, a) PROVE ServiceInv'
  BY <1>1, <1>3 DEF Receive
<1>4. ASSUME NEW h \in Handlers, Begin(h) PROVE ServiceInv'
  BY <1>1, <1>4 DEF Begin
<1>5. ASSUME NEW h \in Handlers, Refused(h), svc' = svc PROVE ServiceInv'
  BY <1>1, <1>5 DEF Refused
<1>6. ASSUME NEW h \in Handlers, NEW s \in Stages, Goto(h, s), svc' = svc,
             s \in Leased => pc[h] \in Leased
      PROVE  ServiceInv'
  BY <1>1, <1>6 DEF Goto
<1>7. ASSUME NEW h \in Handlers, HandlerStep(h) \/ ProxyReturns(h) PROVE ServiceInv'
  <2>1. CASE PrepareOllama(h)
    <3>1. req[h] # Qwen /\ svc' = svc
      BY <2>1 DEF PrepareOllama
    <3>2. CASE Granted(h)
      BY <1>1, <3>1, <3>2 DEF Granted
    <3> QED
      BY <1>5, <2>1, <3>1, <3>2 DEF PrepareOllama
  <2>2. CASE QwenIsActive(h) \/ AskResident(h) \/ GpuCheck(h)
    BY <1>5, <1>6, <2>2 DEF QwenIsActive, AskResident, GpuCheck
  <2>3. CASE QwenStart(h)
    <3>1. \A g \in Handlers : Held(g)' => Held(g)
      BY <2>3 DEF QwenStart, Goto, Refused
    <3>2. svc = "healthy" => svc' = "healthy"
      BY <2>3 DEF QwenStart, SvcActive
    <3>3. svc' # "restarting"
      BY <2>3 DEF QwenStart
    <3> QED
      BY <3>1, <3>2, <3>3
  <2>4. CASE HelperRaises(h) \/ HealthDeadline(h)
    BY <1>5, <2>4 DEF HelperRaises, HealthDeadline
  <2>5. CASE HealthOk(h)
    BY <2>5 DEF HealthOk
  <2>6. CASE ProxyReturns(h)
    BY <1>6, <2>6 DEF ProxyReturns
  <2> QED
    BY <1>7, <2>1, <2>2, <2>3, <2>4, <2>5, <2>6 DEF HandlerStep
<1>8. ASSUME NEW h \in Handlers, OllamaLoads(h) PROVE ServiceInv'
  BY <1>1, <1>8 DEF OllamaLoads
<1>9. ASSUME NEW h \in Handlers, EndLease(h) PROVE ServiceInv'
  BY <1>1, <1>9 DEF EndLease
<1>10. CASE UNCHANGED <<svc, pc, req>>
  BY <1>1, <1>10
<1>11. CASE ReaperStopsQwen
  <2>1. LeaseHolders(Qwen) = {}
    BY <1>11, ReapableIsIdle DEF ReaperStopsQwen, RouterInv, StopInv
  <2>2. LeaseHolders(Qwen)' = {} /\ svc' = "inactive"
    BY <1>11, <2>1 DEF ReaperStopsQwen, Visited
  <2> QED
    BY <2>2
<1>12. CASE ReaperLock \/ (ReaperStep /\ ~ReaperStopsQwen)
  BY <1>10, <1>12
     DEF ReaperLock, ReaperStep, ReaperWake, ReaperSkips, ReaperAsksQwen, Visited,
         ReaperHelperRaises, ReaperUnloads, ReaperDies, ReaperDone
<1>13. CASE RouterRestart
  BY <1>13 DEF RouterRestart
<1>14. CASE EnvironmentStep /\ ~RouterRestart
  BY <1>10, <1>14
     DEF EnvironmentStep, Tick, QwenHealthy, QwenExits, SystemdRestarts,
         OllamaExpires, routerVars
<1> QED
  BY <1>3, <1>4, <1>7, <1>8, <1>9, <1>10, <1>11, <1>12, <1>13, <1>14 DEF Next, vars

(* As long as the service does not exit by itself, a request that holds a  *)
(* Qwen lease is served by a healthy service.                              *)
THEOREM LeasedQwenServed ==
    ASSUME Faults \cap {"exit", "crash"} = {}
    PROVE  Spec => []LeasedQwenIsHealthy
<1>1. Init => ServiceInv
  BY DEF Init, ServiceInv, LeasedQwenIsHealthy, LeaseHolders, Leased
<1>2. RouterInv /\ ServiceInv /\ [Next]_vars => ServiceInv'
  BY ServiceStep
<1>3. ServiceInv => LeasedQwenIsHealthy
  BY DEF ServiceInv
<1> QED
  BY <1>1, <1>2, <1>3, InvHolds, PTL DEF Spec

-----------------------------------------------------------------------------
\* What is said of held does not change with the stages outside a lease.
LEMMA HeldKept ==
    ASSUME \A h \in Handlers :
              /\ pc'[h] \in Leased <=> pc[h] \in Leased
              /\ pc[h] \in Leased => req'[h] = req[h]
    PROVE  HeldModels' = HeldModels
  BY DEF HeldModels

LEMMA RefinementStep ==
    ASSUME Faults \subseteq {"slow", "ps"},
           RouterInv, ServiceInv, [Next]_vars
    PROVE  [Leases!Next]_(Leases!leaseVars)
<1> DEFINE Abstract == [Leases!Next]_(Leases!leaseVars)
<1> SUFFICES Abstract
  OBVIOUS
<1>1. ASSUME UNCHANGED <<HeldModels, lastUsed, LoadedModels>> PROVE Abstract
  BY <1>1 DEF Leases!leaseVars
<1>2. ASSUME NEW a \in Models, Leases!Load(a) \/ Leases!Age(a) \/ Leases!Release(a)
      PROVE  Abstract
  BY <1>2 DEF Leases!Next, Leases!Models, Models
<1>3. ASSUME NEW h \in Handlers, NEW a \in Models, Leases!Grant(h, a) \/ Leases!Return(h)
      PROVE  Abstract
  BY <1>3 DEF Leases!Next, Leases!Models, Models
<1> HIDE DEF Abstract
<1> USE ModelsAssumption DEF TypeOK, RequestInv, Stages, Begun, Leased, Models
<1>4. TypeOK /\ RequestInv
  BY DEF RouterInv
<1>5. ASSUME UNCHANGED <<HeldModels, lastUsed, svc, resident>> PROVE Abstract
  BY <1>1, <1>5 DEF LoadedModels
<1>6. ASSUME NEW h \in Handlers, NEW a \in Models, Receive(h, a) PROVE Abstract
  BY <1>4, <1>5, <1>6, HeldKept DEF Receive
<1>7. ASSUME NEW h \in Handlers, Begin(h) PROVE Abstract
  BY <1>4, <1>5, <1>7, HeldKept DEF Begin
<1>8. ASSUME NEW h \in Handlers, pc[h] \in Begun, Refused(h), UNCHANGED <<svc, resident>>
      PROVE  Abstract
  BY <1>4, <1>5, <1>8, HeldKept DEF Refused
<1>9. ASSUME NEW h \in Handlers, NEW s \in Stages, Goto(h, s),
             pc[h] \in Leased <=> s \in Leased
      PROVE  UNCHANGED <<HeldModels, lastUsed>>
  BY <1>4, <1>9, HeldKept DEF Goto
<1>10. ASSUME NEW h \in Handlers, pc[h] \in Begun, Granted(h), UNCHANGED <<svc, resident>>,
              req[h] = Qwen <=> svc # "inactive"
       PROVE  Abstract
  <2>1. req[h] \in Models
    BY <1>4, <1>10 DEF RouterInv
  <2>2. HeldModels[h] = NoModel /\ HeldModels' = [HeldModels EXCEPT ![h] = req[h]]
    BY <1>4, <1>10 DEF HeldModels, Granted
  <2>3. (req[h] = Qwen <=> Qwen \in LoadedModels) /\ LoadedModels' = LoadedModels
    BY <1>4, <1>10 DEF LoadedModels
  <2>4. Leases!Grant(h, req[h])
    BY <1>10, <2>2, <2>3 DEF Leases!Grant, Granted
  <2> QED
    BY <1>3, <2>1, <2>4
<1>11. ASSUME NEW h \in Handlers, HandlerStep(h) \/ ProxyReturns(h) PROVE Abstract
  <2>1. CASE PrepareOllama(h)
    <3>1. Granted(h) => svc = "inactive"
      BY <1>4, <2>1
         DEF PrepareOllama, IsActiveAnswers, SvcActive, ServiceInv, Granted, Refused
    <3>2. req[h] # Qwen
      BY <1>4, <2>1 DEF PrepareOllama
    <3> QED
      BY <1>8, <1>10, <2>1, <3>1, <3>2 DEF PrepareOllama
  <2>2. CASE QwenIsActive(h) \/ AskResident(h) \/ GpuCheck(h)
    BY <1>5, <1>8, <1>9, <2>2 DEF QwenIsActive, AskResident, GpuCheck
  <2>3. CASE QwenStart(h)
    <3>1. UNCHANGED <<HeldModels, lastUsed>>
      BY <1>9, <2>3 DEF QwenStart
    <3>2. LoadedModels' = LoadedModels \cup {Qwen}
      BY <2>3 DEF QwenStart, LoadedModels, SvcActive
    <3>3. Leases!Load(Qwen)
      BY <3>1, <3>2 DEF Leases!Load
    <3> QED
      BY <1>2, <3>3
  <2>4. CASE HelperRaises(h) \/ HealthDeadline(h)
    BY <1>8, <2>4 DEF HelperRaises, HealthDeadline
  <2>5. CASE HealthOk(h)
    BY <1>4, <1>10, <2>5 DEF HealthOk
  <2>6. CASE ProxyReturns(h)
    BY <1>5, <1>9, <2>6 DEF ProxyReturns
  <2> QED
    BY <1>11, <2>1, <2>2, <2>3, <2>4, <2>5, <2>6 DEF HandlerStep
<1>12. ASSUME NEW h \in Handlers, OllamaLoads(h) PROVE Abstract
  <2>1. UNCHANGED <<HeldModels, lastUsed>>
    BY <1>4, <1>12, HeldKept DEF OllamaLoads
  <2>2. LoadedModels' = LoadedModels \cup {req[h]}
    BY <1>12 DEF OllamaLoads, LoadedModels
  <2>3. HeldModels[h] = req[h] /\ req[h] \in Ollama
    BY <1>12 DEF OllamaLoads, HeldModels
  <2>4. Leases!Load(req[h])
    BY <2>1, <2>2, <2>3 DEF Leases!Load, Leases!Unheld
  <2> QED
    BY <1>2, <2>3, <2>4
<1>13. ASSUME NEW h \in Handlers, EndLease(h) PROVE Abstract
  <2>1. HeldModels[h] = req[h] /\ req[h] \in Models
    BY <1>4, <1>13 DEF EndLease, HeldModels
  <2>2. HeldModels' = [HeldModels EXCEPT ![h] = NoModel]
    BY <1>4, <1>13 DEF EndLease, HeldModels
  <2>3. LoadedModels' = LoadedModels
    BY <1>13 DEF EndLease, LoadedModels
  <2>4. Leases!Return(h)
    BY <1>13, <2>1, <2>2, <2>3 DEF Leases!Return, EndLease
  <2> QED
    BY <1>3, <2>1, <2>4
<1>14. ASSUME NEW a \in Models, Reapable(a), Visited(a, TRUE),
              LoadedModels' = LoadedModels \ {a}
       PROVE  Abstract
  <2>1. LeaseHolders(a) = {} /\ lastUsed[a] = "expired"
    BY <1>14, ReapableIsIdle
  <2>2. HeldModels' = HeldModels /\ lastUsed' = [lastUsed EXCEPT ![a] = "never"]
    BY <1>14 DEF Visited, HeldModels
  <2>3. Leases!Unheld(a)
    BY <2>1 DEF Leases!Unheld, LeaseHolders, HeldModels
  <2>4. Leases!Release(a)
    BY <1>14, <2>1, <2>2, <2>3 DEF Leases!Release
  <2> QED
    BY <1>2, <2>4
<1>15. ASSUME UNCHANGED <<pc, req, lastUsed, svc, resident>> PROVE Abstract
  BY <1>5, <1>15, HeldKept
<1>16. CASE ReaperStep \/ ReaperLock
  <2>1. CASE ReaperAsksQwen
    <3>1. CASE rpc' = "stop"
      BY <1>15, <2>1, <3>1 DEF ReaperAsksQwen, Visited
    <3>2. CASE rpc' # "stop"
      <4>1. ~SvcActive /\ Visited(Qwen, TRUE)
        BY <2>1, <3>2 DEF ReaperAsksQwen, IsActiveAnswers
      <4>2. LoadedModels' = LoadedModels \ {Qwen}
        BY <1>4, <2>1, <4>1 DEF ReaperAsksQwen, LoadedModels, SvcActive, ServiceInv
      <4> QED
        BY <1>14, <2>1, <4>1, <4>2 DEF ReaperAsksQwen
    <3> QED
      BY <3>1, <3>2
  <2>2. CASE ReaperStopsQwen
    <3>1. Reapable(Qwen) /\ Visited(Qwen, TRUE)
      BY <2>2 DEF ReaperStopsQwen, RouterInv, StopInv
    <3>2. LoadedModels' = LoadedModels \ {Qwen}
      BY <1>4, <2>2 DEF ReaperStopsQwen, LoadedModels
    <3> QED
      BY <1>14, <3>1, <3>2
  <2>3. ASSUME NEW o \in Ollama, ReaperUnloads(o) PROVE Abstract
    <3>1. Reapable(o) /\ Visited(o, TRUE) /\ resident' = resident \ {o} /\ svc' = svc
      BY <2>3 DEF ReaperUnloads
    <3>2. LoadedModels' = LoadedModels \ {o}
      BY <1>4, <3>1 DEF LoadedModels
    <3> QED
      BY <1>14, <3>1, <3>2
  <2>4. CASE \/ ReaperLock
             \/ ReaperWake
             \/ \E a \in Models : ReaperSkips(a)
             \/ ReaperHelperRaises
             \/ ReaperDies
             \/ ReaperDone
    BY <1>15, <2>4
       DEF ReaperLock, ReaperWake, ReaperSkips, Visited, ReaperHelperRaises,
           ReaperDies, ReaperDone
  <2> QED
    BY <1>16, <2>1, <2>2, <2>3, <2>4 DEF ReaperStep
<1>17. ASSUME NEW a \in Models, Tick(a) PROVE Abstract
  <2>1. UNCHANGED <<HeldModels, LoadedModels>>
    BY <1>17 DEF Tick, HeldModels, LoadedModels
  <2>2. Leases!Age(a)
    BY <1>17, <2>1 DEF Tick, Leases!Age
  <2> QED
    BY <1>2, <2>2
<1>18. CASE EnvironmentStep
  <2>1. CASE QwenHealthy
    <3>1. UNCHANGED <<HeldModels, lastUsed, LoadedModels>>
      BY <2>1 DEF QwenHealthy, routerVars, HeldModels, LoadedModels
    <3> QED
      BY <1>1, <3>1
  <2>2. ~(\/ RouterRestart
          \/ QwenExits
          \/ SystemdRestarts
          \/ \E o \in Ollama : OllamaExpires(o))
    BY DEF RouterRestart, QwenExits, SystemdRestarts, OllamaExpires, ServiceInv
  <2> QED
    BY <1>17, <1>18, <2>1, <2>2 DEF EnvironmentStep
<1>19. CASE UNCHANGED vars
  BY <1>15, <1>19 DEF vars
<1> QED
  BY <1>6, <1>7, <1>11, <1>12, <1>13, <1>16, <1>18, <1>19 DEF Next

(* The router implements ModelLeases when models do not disappear by       *)
(* themselves, the router lives and the helper and the unload work.        *)
THEOREM RouterImplementsLeases ==
    ASSUME Faults \subseteq {"slow", "ps"}
    PROVE  Spec => ImplementsLeases
<1>1. Init => ServiceInv
  BY DEF Init, ServiceInv, LeasedQwenIsHealthy, LeaseHolders, Leased
<1>2. Init => Leases!Init
  BY DEF Init, Leases!Init, Leases!Models, Models, HeldModels, LoadedModels, Leased
<1>3. RouterInv /\ ServiceInv /\ [Next]_vars => ServiceInv'
  BY ServiceStep
<1>4. RouterInv /\ ServiceInv /\ [Next]_vars => [Leases!Next]_(Leases!leaseVars)
  BY RefinementStep
<1> QED
  BY <1>1, <1>2, <1>3, <1>4, InvHolds, PTL DEF Spec, ImplementsLeases, Leases!Spec
=============================================================================
