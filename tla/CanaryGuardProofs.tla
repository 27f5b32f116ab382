------------------------- MODULE CanaryGuardProofs -------------------------
(***************************************************************************)
(* Proofs about CanaryGuard for every set of guards and cards, whichever   *)
(* cards each guard runs on and whatever fails.  PathInv follows one guard *)
(* through run(); as long as no guard is started beside another one,       *)
(* SingleInv makes the power limits its own, and the three invariants      *)
(* after it follow the limits from the cap to their restoration.           *)
(***************************************************************************)
EXTENDS CanaryGuard, TLAPS

AtWork(g) == stage[g] \notin Inactive
Active(g) == AtWork(g) \/ JobAlive(g)

\* what the local variables of a guard are at each stage
PathInv(g) ==
    /\ stage[g] \in {"idle", "check"} =>
          saved[g] = [x \in Gpus |-> "none"] /\ todo[g] = {} /\ job[g] = "none"
    /\ stage[g] = "cap" => todo[g] \subseteq Target[g] /\ job[g] = "none"
    /\ stage[g] = "run" => job[g] # "none"
    /\ stage[g] \in {"cap", "run", "term", "abort", "cool", "restore"} =>
          \A x \in Gpus : saved[g][x] # "none" <=> x \in Target[g]
    /\ stage[g] \in {"restore", "unwind"} =>
          \A x \in todo[g] : saved[g][x] # "none"
    /\ stage[g] \in {"term", "abort"} => failed[g]
    /\ stage[g] \in {"cool", "restore", "persist"} /\ ~failed[g] =>
          /\ job[g] = "ended"
          /\ \A x \in Target[g] : saved[g][x] # "none"

\* no guard was started beside another one
SingleInv ==
    NoneMet({"overlap"}) =>
        \A g, o \in Guards : Active(g) /\ Active(o) => g = o

\* the workload does not outlive run(), except when the guard is killed
JobInv ==
    NoneMet({"parse", "stuck"}) =>
        \A g \in Guards :
           /\ stage[g] # "unwind"
           /\ JobAlive(g) => stage[g] \in {"run", "term", "abort", "lost"}

\* cards are capped one by one before the workload, and stay so
CapInv ==
    NoneMet({"parse", "stuck", "overlap"}) =>
        \A g \in Guards :
           /\ stage[g] = "cap" =>
                 \A x \in Target[g] \ todo[g] : limit[x] = "cap"
           /\ JobAlive(g) => \A x \in Target[g] : limit[x] = "cap"

\* the guard still has to give the card its limit back
Owes(g, x) ==
    /\ saved[g][x] = "full"
    /\ \/ stage[g] \in {"cap", "run", "term", "abort", "cool"}
       \/ stage[g] \in {"restore", "unwind"} /\ x \in todo[g]

\* a card that is not at its full limit is owed it by the guard at work
DebtInv ==
    NoneMet({"kill", "overlap"}) /\ (\A g \in Guards : ~unreset[g]) =>
        /\ \A x \in Gpus : limit[x] = "full" \/ \E g \in Guards : Owes(g, x)
        /\ \A g \in Guards, x \in Gpus : AtWork(g) => saved[g][x] # "cap"

\* what the finally clause has restored is restored
ReturnInv ==
    NoneMet({"overlap"}) =>
        \A g \in Guards : \A x \in Target[g] :
           /\ saved[g][x] # "none" /\ ~unreset[g]
           /\ stage[g] = "persist" \/ (stage[g] = "restore" /\ x \notin todo[g])
           => limit[x] = saved[g][x]

CanaryInv ==
    /\ TypeOK
    /\ \A g \in Guards : PathInv(g)
    /\ SingleInv
    /\ JobInv
    /\ CapInv
    /\ DebtInv
    /\ ReturnInv

-----------------------------------------------------------------------------
LEMMA InitCanary == Init => CanaryInv
<1> SUFFICES ASSUME Init PROVE CanaryInv
  OBVIOUS
<1>1. TypeOK
  BY DEF Init, TypeOK, Stages
<1>2. ASSUME NEW g \in Guards
      PROVE  stage[g] = "idle" /\ job[g] = "none" /\ PathInv(g)
  BY DEF Init, PathInv
<1>3. \A x \in Gpus : limit[x] = "full"
  BY DEF Init
<1>4. \A x \in Gpus, g \in Guards : saved[g][x] = "none"
  BY DEF Init
<1> QED
  BY <1>1, <1>2, <1>3, <1>4, TargetAssumption
     DEF CanaryInv, SingleInv, JobInv, CapInv, DebtInv, ReturnInv, Active,
         AtWork, Inactive, JobAlive

\* A step of guard g leaves all of another guard alone but the limits.
GuardAction(g) ==
    Begin(g) \/ GuardStep(g) \/ Raises(g) \/ Killed(g) \/ JobStep(g)

Others(g) ==
    \A o \in Guards \ {g} :
       /\ stage'[o] = stage[o] /\ todo'[o] = todo[o] /\ saved'[o] = saved[o]
       /\ job'[o] = job[o] /\ failed'[o] = failed[o]
       /\ unreset'[o] = unreset[o] /\ mishaps'[o] = mishaps[o]

LEMMA MeetsType ==
    ASSUME TypeOK, NEW g \in Guards, NEW f, Meets(g, f)
    PROVE  /\ mishaps' \in [Guards -> SUBSET Faults]
           /\ \A o \in Guards \ {g} : mishaps'[o] = mishaps[o]
           /\ mishaps[g] \subseteq mishaps'[g] /\ f \in mishaps'[g]
BY DEF TypeOK, Meets

LEMMA FinallyType ==
    ASSUME TypeOK, NEW g \in Guards, NEW s \in Stages, Finally(g, s)
    PROVE  /\ stage' \in [Guards -> Stages] /\ stage'[g] = s
           /\ todo' \in [Guards -> SUBSET Gpus]
           /\ todo'[g] = {x \in Gpus : saved[g][x] # "none"}
           /\ \A o \in Guards \ {g} : stage'[o] = stage[o] /\ todo'[o] = todo[o]
BY DEF TypeOK, Finally, Goto

\* No step leaves the types of the variables or another guard's variables.
LEMMA TypeStep ==
    ASSUME CanaryInv, NEW g \in Guards, GuardAction(g)
    PROVE  TypeOK' /\ Others(g) /\ mishaps[g] \subseteq mishaps'[g]
<1> TypeOK /\ PathInv(g)
  BY DEF CanaryInv
<1> USE DEF TypeOK, Stages, Others, Goto, Fails, Meets, Finally
<1>1. CASE Begin(g)
  <2>1. CASE UNCHANGED mishaps
    BY <1>1, <2>1 DEF Begin
  <2>2. CASE Meets(g, "overlap")
    BY <1>1, <2>2 DEF Begin, FaultKinds
  <2> QED
    BY <1>1, <2>1, <2>2 DEF Begin
<1>2. CASE Refuse(g)
  BY <1>2 DEF Refuse
<1>3. CASE CheckIdle(g)
  BY <1>3, TargetAssumption DEF CheckIdle
<1>4. CASE Cap(g)
  BY <1>4 DEF Cap
<1>5. CASE Launch(g)
  BY <1>5 DEF Launch
<1>6. CASE PollUnsafe(g) \/ PollRaises(g)
  BY <1>6 DEF PollUnsafe, PollRaises
<1>7. CASE JobObserved(g)
  BY <1>7 DEF JobObserved
<1>8. CASE Terminate(g)
  <2>1. /\ job' \in [Guards -> {"none", "loading", "running", "ended", "failed"}]
        /\ \A o \in Guards \ {g} : job'[o] = job[o]
    BY <1>8 DEF Terminate
  <2>2. CASE Goto(g, "cool") /\ UNCHANGED todo
    BY <1>8, <2>1, <2>2 DEF Terminate
  <2>3. CASE Finally(g, "restore")
    BY <1>8, <2>1, <2>3, FinallyType DEF Terminate
  <2> QED
    BY <1>8, <2>2, <2>3 DEF Terminate
<1>9. CASE CoolDown(g)
  BY <1>9 DEF CoolDown
<1>10. CASE Restore(g)
  <2>1. PICK x \in todo[g] :
           /\ todo' = [todo EXCEPT ![g] = @ \ {x}]
           /\ \/ /\ limit' = [limit EXCEPT ![x] = saved[g][x]]
                 /\ UNCHANGED <<unreset, mishaps>>
              \/ /\ Meets(g, "power")
                 /\ unreset' = [unreset EXCEPT ![g] = TRUE]
                 /\ UNCHANGED limit
    BY <1>10 DEF Restore
  <2>2. UNCHANGED <<stage, saved, job, failed, record>>
    BY <1>10 DEF Restore
  <2>3. saved[g][x] \in {"cap", "full"}
    BY <1>10 DEF Restore, PathInv
  <2>4. CASE /\ limit' = [limit EXCEPT ![x] = saved[g][x]]
             /\ UNCHANGED <<unreset, mishaps>>
    BY <2>1, <2>2, <2>3, <2>4
  <2>5. CASE /\ Meets(g, "power")
             /\ unreset' = [unreset EXCEPT ![g] = TRUE]
             /\ UNCHANGED limit
    <3> HIDE DEF Meets
    <3> QED
      BY <2>1, <2>2, <2>5, MeetsType
  <2> QED
    BY <2>1, <2>4, <2>5
<1>11. CASE RunEnds(g)
  BY <1>11 DEF RunEnds
<1>12. CASE Persist(g)
  <2>1. record' \in [Guards -> {"none", "pass", "fail"}]
    BY <1>12 DEF Persist
  <2>2. stage' \in [Guards -> Stages] /\ \A o \in Guards \ {g} : stage'[o] = stage[o]
    BY <1>12 DEF Persist
  <2> HIDE DEF Meets
  <2> QED
    BY <1>12, <2>1, <2>2, MeetsType DEF Persist
<1>13. CASE CapFails(g)
  <2>1. /\ failed' \in [Guards -> BOOLEAN]
        /\ \A o \in Guards \ {g} : failed'[o] = failed[o]
    BY <1>13 DEF CapFails
  <2> HIDE DEF Meets, Finally
  <2> QED
    BY <1>13, <2>1, MeetsType, FinallyType DEF CapFails
<1>14. CASE ParseRaises(g)
  BY <1>14 DEF ParseRaises
<1>15. CASE TerminateStuck(g)
  <2>1. CASE Goto(g, "abort") /\ UNCHANGED todo
    <3> HIDE DEF Meets
    <3> QED
      BY <1>15, <2>1, MeetsType DEF TerminateStuck
  <2>2. CASE Finally(g, "unwind")
    <3> HIDE DEF Meets, Finally
    <3> QED
      BY <1>15, <2>2, MeetsType, FinallyType DEF TerminateStuck
  <2> QED
    BY <1>15, <2>1, <2>2 DEF TerminateStuck
<1>16. CASE Killed(g)
  BY <1>16 DEF Killed
<1>17. CASE JobStep(g)
  BY <1>17 DEF JobStep
<1> QED
  BY <1>1, <1>2, <1>3, <1>4, <1>5, <1>6, <1>7, <1>8, <1>9, <1>10, <1>11,
     <1>12, <1>13, <1>14, <1>15, <1>16, <1>17
     DEF GuardAction, GuardStep, Raises

-----------------------------------------------------------------------------
LEMMA OwnPath ==
    ASSUME CanaryInv, NEW g \in Guards, GuardAction(g)
    PROVE  PathInv(g)'
<1> TypeOK /\ PathInv(g)
  BY DEF CanaryInv
<1> USE DEF TypeOK, PathInv, Goto, Fails
<1>1. CASE Begin(g)
  BY <1>1 DEF Begin
<1>2. CASE Refuse(g)
  BY <1>2 DEF Refuse
<1>3. CASE CheckIdle(g)
  BY <1>3, TargetAssumption DEF CheckIdle
<1>4. CASE Cap(g)
  BY <1>4 DEF Cap
<1>5. CASE Launch(g)
  BY <1>5 DEF Launch
<1>6. CASE PollUnsafe(g) \/ PollRaises(g)
  BY <1>6 DEF PollUnsafe, PollRaises
<1>7. CASE JobObserved(g)
  <2>1. ~failed'[g] => job[g] = "ended"
    BY <1>7 DEF JobObserved, JobAlive
  <2>2. \A x \in Target[g] : saved[g][x] # "none"
    BY <1>7, TargetAssumption DEF JobObserved
  <2> QED
    BY <1>7, <2>1, <2>2 DEF JobObserved
<1>8. CASE Terminate(g)
  BY <1>8, FinallyType DEF Terminate, Stages
<1>9. CASE CoolDown(g)
  BY <1>9, FinallyType DEF CoolDown, Stages
<1>10. CASE Restore(g)
  BY <1>10 DEF Restore
<1>11. CASE RunEnds(g)
  BY <1>11 DEF RunEnds
<1>12. CASE Persist(g)
  BY <1>12 DEF Persist
<1>13. CASE CapFails(g)
  BY <1>13, FinallyType DEF CapFails, Stages
<1>14. CASE ParseRaises(g)
  BY <1>14, FinallyType DEF ParseRaises, Stages
<1>15. CASE TerminateStuck(g)
  BY <1>15, FinallyType DEF TerminateStuck, Stages
<1>16. CASE Killed(g)
  BY <1>16 DEF Killed
<1>17. CASE JobStep(g)
  BY <1>17 DEF JobStep, JobAlive
<1> QED
  BY <1>1, <1>2, <1>3, <1>4, <1>5, <1>6, <1>7, <1>8, <1>9, <1>10, <1>11,
     <1>12, <1>13, <1>14, <1>15, <1>16, <1>17
     DEF GuardAction, GuardStep, Raises

-----------------------------------------------------------------------------
\* What happened before a step stays happened.
LEMMA NoneMetBefore ==
    ASSUME CanaryInv, NEW g \in Guards, GuardAction(g), NEW F, NoneMet(F)'
    PROVE  NoneMet(F)
BY TypeStep DEF NoneMet, Others

\* Only Begin makes a guard active, and a Begin beside an active guard is noted.
LEMMA BeginsAlone ==
    ASSUME CanaryInv, NEW g \in Guards, GuardAction(g),
           NoneMet({"overlap"})', ~Active(g)
    PROVE  Active(g)' => \A o \in Guards : ~Active(o)
<1> TypeOK /\ PathInv(g)
  BY DEF CanaryInv
<1> USE DEF TypeOK, Active, AtWork, Inactive
<1>1. CASE Begin(g)
  <2>1. ~Meets(g, "overlap")
    BY MeetsType DEF NoneMet
  <2> QED
    BY <1>1, <2>1 DEF Begin
<1>2. CASE Killed(g) \/ Raises(g)
  BY <1>2 DEF Killed, Raises, CapFails, PollRaises, ParseRaises,
              TerminateStuck
<1>3. CASE GuardStep(g)
  BY <1>3 DEF GuardStep, Refuse, CheckIdle, Cap, Launch, PollUnsafe,
              JobObserved, Terminate, CoolDown, Restore, RunEnds, Persist
<1>4. CASE JobStep(g)
  BY <1>4 DEF JobStep, JobAlive
<1> QED
  BY <1>1, <1>2, <1>3, <1>4 DEF GuardAction

LEMMA SingleStep ==
    ASSUME CanaryInv, NEW g \in Guards, GuardAction(g)
    PROVE  SingleInv'
<1> SUFFICES ASSUME NoneMet({"overlap"})', NEW o \in Guards, NEW q \in Guards,
                    Active(o)', Active(q)'
             PROVE  o = q
  BY DEF SingleInv
<1>1. NoneMet({"overlap"})
  BY NoneMetBefore
<1>2. \A r \in Guards \ {g} : Active(r)' <=> Active(r)
  BY TypeStep DEF Others, Active, AtWork, JobAlive
<1>3. CASE Active(g)
  BY <1>1, <1>2, <1>3 DEF CanaryInv, SingleInv
<1>4. CASE ~Active(g)
  BY <1>1, <1>2, <1>4, BeginsAlone DEF CanaryInv, SingleInv
<1> QED
  BY <1>3, <1>4

\* The workload of a guard that met neither fault dies before run() goes on.
LEMMA OwnJob ==
    ASSUME CanaryInv, NEW g \in Guards, GuardAction(g),
           NoneMet({"parse", "stuck"})'
    PROVE  /\ stage'[g] # "unwind"
           /\ JobAlive(g)' => stage'[g] \in {"run", "term", "abort", "lost"}
<1> TypeOK /\ PathInv(g)
  BY DEF CanaryInv
<1> /\ stage[g] # "unwind"
    /\ JobAlive(g) => stage[g] \in {"run", "term", "abort", "lost"}
  BY NoneMetBefore DEF CanaryInv, JobInv
<1> USE DEF TypeOK, Goto, JobAlive
<1>1. CASE Begin(g)
  BY <1>1 DEF Begin
<1>2. CASE ParseRaises(g) \/ TerminateStuck(g)
  <2>1. ~Meets(g, "parse") /\ ~Meets(g, "stuck")
    BY MeetsType DEF NoneMet
  <2> QED
    BY <1>2, <2>1 DEF ParseRaises, TerminateStuck
<1>3. CASE Killed(g)
  BY <1>3 DEF Killed
<1>4. CASE CapFails(g)
  BY <1>4, FinallyType DEF CapFails, PathInv, Stages
<1>5. CASE Terminate(g)
  BY <1>5, FinallyType DEF Terminate, Stages
<1>6. CASE CoolDown(g)
  BY <1>6, FinallyType DEF CoolDown, Stages
<1>7. CASE Refuse(g) \/ CheckIdle(g) \/ Cap(g) \/ Launch(g) \/ PollUnsafe(g)
           \/ PollRaises(g)
  BY <1>7 DEF Refuse, CheckIdle, Cap, Launch, PollUnsafe, PollRaises, PathInv
<1>8. CASE JobObserved(g) \/ Restore(g) \/ RunEnds(g) \/ Persist(g)
  BY <1>8 DEF JobObserved, Restore, RunEnds, Persist
<1>9. CASE JobStep(g)
  BY <1>9 DEF JobStep
<1> QED
  BY <1>1, <1>2, <1>3, <1>4, <1>5, <1>6, <1>7, <1>8, <1>9
     DEF GuardAction, GuardStep, Raises

LEMMA JobStepKept ==
    ASSUME CanaryInv, NEW g \in Guards, GuardAction(g)
    PROVE  JobInv'
<1> SUFFICES ASSUME NoneMet({"parse", "stuck"})', NEW o \in Guards
             PROVE  /\ stage'[o] # "unwind"
                    /\ JobAlive(o)' => stage'[o] \in {"run", "term", "abort", "lost"}
  BY DEF JobInv
<1>1. CASE o = g
  BY <1>1, OwnJob
<1>2. CASE o # g
  BY <1>2, TypeStep, NoneMetBefore DEF Others, CanaryInv, JobInv, JobAlive
<1> QED
  BY <1>1, <1>2

-----------------------------------------------------------------------------
\* The limits change in Cap and Restore only.
LEMMA LimitChanges ==
    ASSUME NEW g \in Guards, GuardAction(g), ~Cap(g), ~Restore(g)
    PROVE  limit' = limit
BY DEF GuardAction, GuardStep, Raises, Begin, Refuse, CheckIdle, Launch,
       PollUnsafe, PollRaises, JobObserved, Terminate, CoolDown, RunEnds,
       Persist, CapFails, ParseRaises, TerminateStuck, Killed, JobStep

\* A workload starts, and its cards become the ones to cap, where it is said.
LEMMA CapStart ==
    ASSUME CanaryInv, NEW g \in Guards, GuardAction(g), ~Cap(g)
    PROVE  /\ stage'[g] = "cap" =>
                 todo'[g] = Target[g] \/ (stage[g] = "cap" /\ todo'[g] = todo[g])
           /\ JobAlive(g)' => JobAlive(g) \/ (stage[g] = "cap" /\ todo[g] = {})
<1> TypeOK
  BY DEF CanaryInv
<1>1. stage'[g] = "cap" => CheckIdle(g) \/ UNCHANGED <<stage, todo>>
  <2> USE DEF TypeOK, Goto
  <2>1. CASE GuardStep(g)
    BY <2>1, FinallyType DEF GuardStep, Refuse, Launch, PollUnsafe,
       JobObserved, Terminate, CoolDown, Restore, RunEnds, Persist, Stages
  <2>2. CASE Raises(g)
    BY <2>2, FinallyType DEF Raises, CapFails, PollRaises, ParseRaises,
       TerminateStuck, Stages
  <2>3. CASE Begin(g) \/ Killed(g) \/ JobStep(g)
    BY <2>3 DEF Begin, Killed, JobStep
  <2> QED
    BY <2>1, <2>2, <2>3 DEF GuardAction
<1>2. JobAlive(g)' => JobAlive(g) \/ Launch(g)
  <2> USE DEF TypeOK, JobAlive
  <2>1. CASE GuardStep(g)
    BY <2>1 DEF GuardStep, Refuse, CheckIdle, PollUnsafe, JobObserved,
       Terminate, CoolDown, Restore, RunEnds, Persist
  <2>2. CASE Raises(g)
    BY <2>2 DEF Raises, CapFails, PollRaises, ParseRaises, TerminateStuck
  <2>3. CASE Begin(g) \/ Killed(g) \/ JobStep(g)
    BY <2>3 DEF Begin, Killed, JobStep
  <2> QED
    BY <2>1, <2>2, <2>3 DEF GuardAction
<1>3. CheckIdle(g) => todo'[g] = Target[g]
  BY DEF CheckIdle, TypeOK
<1>4. UNCHANGED <<stage, todo>> => stage'[g] = stage[g] /\ todo'[g] = todo[g]
  OBVIOUS
<1>5. Launch(g) => stage[g] = "cap" /\ todo[g] = {}
  BY DEF Launch
<1> QED
  BY <1>1, <1>2, <1>3, <1>4, <1>5

LEMMA CapStep ==
    ASSUME CanaryInv, NEW g \in Guards, GuardAction(g)
    PROVE  CapInv'
<1> DEFINE Capped(o) ==
       /\ stage[o] = "cap" => \A x \in Target[o] \ todo[o] : limit[x] = "cap"
       /\ JobAlive(o) => \A x \in Target[o] : limit[x] = "cap"
<1> SUFFICES ASSUME NoneMet({"parse", "stuck", "overlap"})', NEW o \in Guards
             PROVE  Capped(o)'
  BY DEF CapInv
<1>1. NoneMet({"parse", "stuck", "overlap"})
  BY NoneMetBefore
<1>2. NoneMet({"parse", "stuck"}) /\ NoneMet({"overlap"})
  BY <1>1 DEF NoneMet
<1>3. TypeOK /\ Capped(o) /\ PathInv(g) /\ PathInv(o)
  BY <1>1 DEF CanaryInv, CapInv
<1>4. o # g => /\ stage'[o] = stage[o] /\ todo'[o] = todo[o]
               /\ job'[o] = job[o]
  BY TypeStep DEF Others
<1>5. CASE Cap(g)
  <2>1. PICK x \in todo[g] : /\ limit' = [limit EXCEPT ![x] = "cap"]
                             /\ todo' = [todo EXCEPT ![g] = @ \ {x}]
    BY <1>5 DEF Cap
  <2>2. UNCHANGED <<stage, job>>
    BY <1>5 DEF Cap
  <2> QED
    BY <1>3, <2>1, <2>2, TargetAssumption DEF TypeOK, JobAlive
<1>6. CASE Restore(g)
  <2>1. stage[g] \in {"restore", "unwind"} /\ UNCHANGED <<stage, job>>
    BY <1>6 DEF Restore
  <2>2. ~JobAlive(g)
    BY <1>2, <2>1 DEF CanaryInv, JobInv
  <2>3. Active(g)
    BY <2>1 DEF Active, AtWork, Inactive
  <2>4. o # g => ~Active(o)
    BY <1>2, <2>3 DEF CanaryInv, SingleInv
  <2> QED
    BY <2>1, <2>2, <2>4 DEF Active, AtWork, Inactive, JobAlive
<1>7. CASE ~Cap(g) /\ ~Restore(g)
  <2>1. limit' = limit
    BY <1>7, LimitChanges
  <2>2. CASE o # g
    BY <1>3, <1>4, <2>1, <2>2 DEF JobAlive
  <2>3. CASE o = g
    BY <1>3, <1>7, <2>1, <2>3, CapStart
  <2> QED
    BY <2>2, <2>3
<1> QED
  BY <1>5, <1>6, <1>7

LEMMA ReturnStep ==
    ASSUME CanaryInv, NEW g \in Guards, GuardAction(g)
    PROVE  ReturnInv'
<1> DEFINE Returned(o, x) ==
       /\ saved[o][x] # "none" /\ ~unreset[o]
       /\ stage[o] = "persist" \/ (stage[o] = "restore" /\ x \notin todo[o])
<1> SUFFICES ASSUME NoneMet({"overlap"})', NEW o \in Guards,
                    NEW x \in Target[o], Returned(o, x)'
             PROVE  limit'[x] = saved'[o][x]
  BY DEF ReturnInv
<1>1. NoneMet({"overlap"})
  BY NoneMetBefore
<1>2. /\ TypeOK /\ PathInv(g) /\ x \in Gpus
      /\ Returned(o, x) => limit[x] = saved[o][x]
  BY <1>1, TargetAssumption DEF CanaryInv, ReturnInv
<1>3. CASE o # g
  <2>1. Returned(o, x) /\ saved'[o] = saved[o]
    BY <1>3, TypeStep DEF Others
  <2>2. Active(o) /\ ~Active(g)
    BY <1>1, <1>3, <2>1 DEF Active, AtWork, Inactive, CanaryInv, SingleInv
  <2>3. ~Cap(g) /\ ~Restore(g)
    BY <2>2 DEF Cap, Restore, Active, AtWork, Inactive
  <2> QED
    BY <1>2, <2>1, <2>3, LimitChanges
<1>4. CASE o = g
  <2> USE <1>2, <1>4 DEF TypeOK, Goto
  <2>1. CASE Restore(g)
    <3>1. PICK y \in todo[g] :
             /\ todo' = [todo EXCEPT ![g] = @ \ {y}]
             /\ \/ limit' = [limit EXCEPT ![y] = saved[g][y]] /\ UNCHANGED unreset
                \/ unreset' = [unreset EXCEPT ![g] = TRUE]
      BY <2>1 DEF Restore
    <3>2. UNCHANGED <<stage, saved>> /\ stage[g] \in {"restore", "unwind"}
      BY <2>1 DEF Restore
    <3>3. limit' = [limit EXCEPT ![y] = saved[g][y]] /\ UNCHANGED unreset
      BY <3>1
    <3> QED
      BY <3>1, <3>2, <3>3
  <2>2. CASE RunEnds(g)
    BY <2>2 DEF RunEnds
  <2>3. CASE Refuse(g)
    BY <2>3 DEF Refuse, PathInv
  <2>4. CASE Terminate(g)
    BY <2>4, FinallyType DEF Terminate, Stages
  <2>5. CASE CoolDown(g)
    BY <2>5, FinallyType DEF CoolDown, Stages
  <2>6. CASE Raises(g)
    BY <2>6, FinallyType DEF Raises, CapFails, PollRaises, ParseRaises,
       TerminateStuck, Stages
  <2>7. CASE CheckIdle(g) \/ Cap(g) \/ Launch(g) \/ PollUnsafe(g)
             \/ JobObserved(g) \/ Persist(g)
    BY <2>7 DEF CheckIdle, Cap, Launch, PollUnsafe, JobObserved, Persist
  <2>8. CASE Begin(g) \/ Killed(g) \/ JobStep(g)
    BY <2>8 DEF Begin, Killed, JobStep
  <2> QED
    BY <2>1, <2>2, <2>3, <2>4, <2>5, <2>6, <2>7, <2>8
       DEF GuardAction, GuardStep
<1> QED
  BY <1>3, <1>4

-----------------------------------------------------------------------------
\* What one step of a guard that is not killed does to its debts.
Debts(g) ==
    \/ CheckIdle(g)
    \/ \E x \in todo[g] :
          /\ stage'[g] = stage[g] /\ saved' = saved
          /\ \/ /\ stage[g] = "cap" /\ todo'[g] = todo[g] \ {x}
                /\ limit' = [limit EXCEPT ![x] = "cap"]
             \/ /\ stage[g] \in {"restore", "unwind"}
                /\ todo'[g] = todo[g] \ {x}
                /\ limit' = [limit EXCEPT ![x] = saved[g][x]]
             \/ unreset'[g]
    \/ /\ saved' = saved /\ limit' = limit
       /\ AtWork(g)' => AtWork(g) \/ stage[g] = "idle"
       /\ \A x \in Gpus : Owes(g, x) => Owes(g, x)'

LEMMA DebtChanges ==
    ASSUME CanaryInv, NEW g \in Guards, GuardAction(g), ~Killed(g)
    PROVE  Debts(g) /\ (unreset[g] => unreset'[g])
<1> TypeOK /\ PathInv(g)
  BY DEF CanaryInv
<1> USE DEF TypeOK, Debts, Goto, AtWork, Inactive, Owes
<1>1. CASE Begin(g)
  BY <1>1 DEF Begin
<1>2. CASE Refuse(g)
  BY <1>2 DEF Refuse
<1>3. CASE CheckIdle(g)
  BY <1>3 DEF CheckIdle
<1>4. CASE Cap(g)
  BY <1>4 DEF Cap
<1>5. CASE Launch(g) \/ PollUnsafe(g) \/ JobObserved(g) \/ PollRaises(g)
  BY <1>5 DEF Launch, PollUnsafe, JobObserved, PollRaises
<1>6. CASE Terminate(g)
  BY <1>6, FinallyType DEF Terminate, Stages
<1>7. CASE CoolDown(g)
  BY <1>7, FinallyType DEF CoolDown, Stages
<1>8. CASE Restore(g)
  BY <1>8 DEF Restore
<1>9. CASE RunEnds(g)
  BY <1>9 DEF RunEnds
<1>10. CASE Persist(g)
  BY <1>10 DEF Persist
<1>11. CASE CapFails(g)
  BY <1>11, FinallyType DEF CapFails, Stages
<1>12. CASE ParseRaises(g)
  BY <1>12, FinallyType DEF ParseRaises, Stages, PathInv
<1>13. CASE TerminateStuck(g)
  BY <1>13, FinallyType DEF TerminateStuck, Stages
<1>14. CASE JobStep(g)
  BY <1>14 DEF JobStep
<1> QED
  BY <1>1, <1>2, <1>3, <1>4, <1>5, <1>6, <1>7, <1>8, <1>9, <1>10, <1>11,
     <1>12, <1>13, <1>14 DEF GuardAction, GuardStep, Raises

LEMMA DebtStep ==
    ASSUME CanaryInv, NEW g \in Guards, GuardAction(g)
    PROVE  DebtInv'
<1> SUFFICES ASSUME NoneMet({"kill", "overlap"})',
                    \A o \in Guards : ~unreset'[o],
                    NEW x \in Gpus
             PROVE  /\ limit'[x] = "full" \/ \E o \in Guards : Owes(o, x)'
                    /\ \A o \in Guards : AtWork(o)' => saved'[o][x] # "cap"
  BY DEF DebtInv
<1>1. ~Killed(g)
  BY MeetsType DEF Killed, NoneMet, CanaryInv
<1>2. Debts(g) /\ (\A o \in Guards : ~unreset[o])
  BY <1>1, DebtChanges, TypeStep DEF Others
<1>3. NoneMet({"kill", "overlap"})
  BY NoneMetBefore
<1>4. SingleInv /\ NoneMet({"overlap"})
  BY <1>3 DEF NoneMet, CanaryInv
<1>5. /\ \A y \in Gpus : limit[y] = "full" \/ \E o \in Guards : Owes(o, y)
      /\ \A o \in Guards, y \in Gpus : AtWork(o) => saved[o][y] # "cap"
  BY <1>2, <1>3 DEF CanaryInv, DebtInv
<1>6. /\ TypeOK /\ PathInv(g)
      /\ \A o \in Guards \ {g} :
            /\ Owes(o, x)' <=> Owes(o, x)
            /\ AtWork(o)' <=> AtWork(o)
            /\ saved'[o] = saved[o]
  BY TypeStep DEF Others, Owes, AtWork, CanaryInv
<1>7. CASE CheckIdle(g)
  <2>1. AtWork(g) /\ Active(g) /\ stage[g] = "check" /\ UNCHANGED limit
    BY <1>7 DEF CheckIdle, Active, AtWork, Inactive
  <2>2. \A o \in Guards : ~Owes(o, x)
    BY <1>4, <2>1 DEF Owes, SingleInv, Active, AtWork, Inactive
  <2>3. limit[x] = "full"
    BY <1>5, <2>2
  <2>4. saved'[g][x] # "cap"
    BY <1>6, <1>7, <2>3 DEF CheckIdle, TypeOK
  <2> QED
    BY <1>5, <1>6, <2>1, <2>3, <2>4
<1>8. CASE /\ saved' = saved /\ limit' = limit
           /\ AtWork(g)' => AtWork(g) \/ stage[g] = "idle"
           /\ \A y \in Gpus : Owes(g, y) => Owes(g, y)'
  <2>1. stage[g] = "idle" => saved[g][x] = "none"
    BY <1>6 DEF PathInv
  <2> QED
    BY <1>5, <1>6, <1>8, <2>1
<1>9. ASSUME NEW y \in todo[g], stage'[g] = stage[g], saved' = saved,
             todo'[g] = todo[g] \ {y}
      PROVE  \A z \in Gpus \ {y} : Owes(g, z) => Owes(g, z)'
  BY <1>9 DEF Owes
<1>10. ASSUME NEW y \in todo[g], stage'[g] = stage[g], saved' = saved,
              stage[g] = "cap", todo'[g] = todo[g] \ {y},
              limit' = [limit EXCEPT ![y] = "cap"]
       PROVE  /\ limit'[x] = "full" \/ \E o \in Guards : Owes(o, x)'
              /\ \A o \in Guards : AtWork(o)' => saved'[o][x] # "cap"
  <2>1. AtWork(g) /\ (AtWork(g)' <=> AtWork(g))
    BY <1>10 DEF AtWork, Inactive
  <2>2. y \in Gpus /\ saved[g][y] \in {"none", "cap", "full"}
    BY <1>6 DEF TypeOK
  <2>3. y \in Target[g] /\ saved[g][y] # "none"
    BY <1>6, <1>10, <2>2 DEF PathInv
  <2>4. saved[g][y] = "full"
    BY <1>5, <2>1, <2>2, <2>3
  <2>5. Owes(g, y)'
    BY <1>10, <2>4 DEF Owes
  <2>6. x # y => limit'[x] = limit[x]
    BY <1>6, <1>10 DEF TypeOK
  <2> QED
    BY <1>5, <1>6, <1>9, <1>10, <2>1, <2>5, <2>6
<1>11. ASSUME NEW y \in todo[g], stage'[g] = stage[g], saved' = saved,
              stage[g] \in {"restore", "unwind"}, todo'[g] = todo[g] \ {y},
              limit' = [limit EXCEPT ![y] = saved[g][y]]
       PROVE  /\ limit'[x] = "full" \/ \E o \in Guards : Owes(o, x)'
              /\ \A o \in Guards : AtWork(o)' => saved'[o][x] # "cap"
  <2>1. AtWork(g) /\ (AtWork(g)' <=> AtWork(g))
    BY <1>11 DEF AtWork, Inactive
  <2>2. y \in Gpus /\ saved[g][y] \in {"none", "cap", "full"}
    BY <1>6 DEF TypeOK
  <2>3. saved[g][y] = "full"
    BY <1>5, <1>6, <1>11, <2>1, <2>2 DEF PathInv
  <2>4. IF x = y THEN limit'[x] = "full" ELSE limit'[x] = limit[x]
    BY <1>6, <1>11, <2>3 DEF TypeOK
  <2> QED
    BY <1>5, <1>6, <1>9, <1>11, <2>1, <2>4
<1> QED
  BY <1>2, <1>7, <1>8, <1>10, <1>11 DEF Debts

-----------------------------------------------------------------------------
\* Every step keeps the invariant.
LEMMA StepCanary == CanaryInv /\ [Next]_vars => CanaryInv'
<1> SUFFICES ASSUME CanaryInv, [Next]_vars PROVE CanaryInv'
  OBVIOUS
<1>1. ASSUME NEW g \in Guards, GuardAction(g) PROVE CanaryInv'
  <2>1. TypeOK'
    BY <1>1, TypeStep
  <2>2. ASSUME NEW o \in Guards PROVE PathInv(o)'
    <3>1. CASE o = g
      BY <1>1, <3>1, OwnPath
    <3>2. CASE o # g
      BY <1>1, <3>2, TypeStep DEF Others, PathInv, CanaryInv
    <3> QED
      BY <3>1, <3>2
  <2> QED
    BY <1>1, <2>1, <2>2, SingleStep, JobStepKept, CapStep, DebtStep, ReturnStep
       DEF CanaryInv
<1>2. CASE Finished \/ UNCHANGED vars
  <2>1. UNCHANGED vars
    BY <1>2 DEF Finished
  <2> QED
    BY <2>1 DEF vars, CanaryInv, TypeOK, PathInv, SingleInv, JobInv, CapInv,
       DebtInv, ReturnInv, NoneMet, Active, AtWork, JobAlive, Owes
<1> QED
  BY <1>1, <1>2 DEF Next, GuardAction

LEMMA CanaryHolds == Spec => []CanaryInv
BY InitCanary, StepCanary, PTL DEF Spec

(* The variables keep their types: in particular a card is only ever given *)
(* a limit that was read from it, not one that was never saved.            *)
THEOREM TypeCorrect == Spec => []TypeOK
<1>1. CanaryInv => TypeOK
  BY DEF CanaryInv
<1> QED
  BY <1>1, CanaryHolds, PTL

(* A workload runs with its cards capped as long as no guard runs beside   *)
(* another one, no field of nvidia-smi fails to parse and no workload      *)
(* survives SIGKILL.                                                       *)
THEOREM JobsRunCapped == Spec => []JobRunsCapped
<1>1. CanaryInv => JobRunsCapped
  BY DEF CanaryInv, CapInv, JobRunsCapped, JobAlwaysCapped
<1> QED
  BY <1>1, CanaryHolds, PTL

(* When every guard has returned, each card has its full limit or a guard  *)
(* has reported otherwise: the debt of DebtInv is paid by the finally      *)
(* clause, on every path that reaches it.                                  *)
THEOREM LimitsAreRestored == Spec => []LimitsRestored
<1>1. CanaryInv => LimitsRestored
  <2> SUFFICES ASSUME CanaryInv, NoneMet({"kill", "overlap"}),
                      \A g \in Guards : stage[g] \in Inactive /\ ~unreset[g],
                      NEW x \in Gpus
               PROVE  limit[x] = "full"
    BY DEF LimitsRestored
  <2>1. \A g \in Guards : ~Owes(g, x)
    BY DEF Owes, Inactive
  <2> QED
    BY <2>1 DEF CanaryInv, DebtInv
<1> QED
  BY <1>1, CanaryHolds, PTL

(* A pass is written after a workload that ended with status 0, and with   *)
(* the limits of its cards back at what this guard had found.              *)
THEOREM PassesAreEarned == Spec => PassIsEarned
<1> DEFINE Earned(g) ==
       /\ job[g] = "ended"
       /\ \/ ~NoneMet({"overlap"})
          \/ \A x \in Target[g] : limit[x] = saved[g][x]
<1> DEFINE Passes(g) == record[g] = "none" /\ record'[g] = "pass"
<1>1. ASSUME CanaryInv, Next, NEW g \in Guards, Passes(g)
      PROVE  Persist(g) /\ record'[g] = "pass"
  BY <1>1 DEF CanaryInv, TypeOK, Next, GuardStep, Raises, Begin, Refuse,
     CheckIdle, Cap, Launch, PollUnsafe, PollRaises, JobObserved, Terminate,
     CoolDown, Restore, RunEnds, Persist, CapFails, ParseRaises,
     TerminateStuck, Killed, JobStep, Finished, vars
<1>2. ASSUME CanaryInv, NEW g \in Guards, Persist(g), Passes(g) PROVE Earned(g)
  <2>1. stage[g] = "persist" /\ ~failed[g] /\ ~unreset[g]
    BY <1>2 DEF Persist, CanaryInv, TypeOK
  <2>2. job[g] = "ended" /\ \A x \in Target[g] : saved[g][x] # "none"
    BY <1>2, <2>1 DEF CanaryInv, PathInv
  <2> QED
    BY <1>2, <2>1, <2>2 DEF CanaryInv, ReturnInv
<1>3. CanaryInv /\ [Next]_vars => [\A g \in Guards : Passes(g) => Earned(g)]_vars
  BY <1>1, <1>2
<1> QED
  BY <1>3, CanaryHolds, PTL DEF Spec, PassIsEarned
=============================================================================
