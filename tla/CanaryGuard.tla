---------------------------- MODULE CanaryGuard ----------------------------
(***************************************************************************)
(* The forced-command guards of remote/ (p40-canary-guard.py,              *)
(* p40-qwen-canary-guard.py, p40-t05a-q8-guard.py and their variants).     *)
(* Each SSH connection runs one guard: it checks that the host is cool and *)
(* idle, remembers the power limits of its cards, caps them, runs one      *)
(* workload in a session of its own, watches it, lets the host cool down,  *)
(* restores the limits and persists a result.  Guards share the power      *)
(* limits and nothing else: there is no lock.  Readings of temperature,    *)
(* fans and events are inputs of the steps that take them.                 *)
(***************************************************************************)
EXTENDS Naturals, FiniteSets

CONSTANTS Guards,
          Gpus,
          Target,  \* the cards each guard caps and runs on
          Faults   \* what may go wrong in this instance

(***************************************************************************)
(* "parse"   a telemetry field is not a number: ValueError, which run()    *)
(*           does not catch                                                *)
(* "stuck"   the workload survives SIGKILL for two seconds                 *)
(* "power"   nvidia-smi -pl may fail                                       *)
(* "kill"    the guard process may be killed                               *)
(* "disk"    the result cannot be written                                  *)
(* "overlap" a guard is started while another one, or its workload, runs:  *)
(*           EXECUTION_PLAN.md forbids it to the operators, no lock does   *)
(***************************************************************************)
FaultKinds == {"parse", "stuck", "power", "kill", "disk", "overlap"}

ASSUME TargetAssumption == Target \in [Guards -> (SUBSET Gpus) \ {{}}]
ASSUME FaultsAssumption == Faults \subseteq FaultKinds

VARIABLES limit,   \* the power limit of each card: "cap" is SAFE_POWER_W
          stage,   \* where each guard is in main() and run()
          todo,    \* cards whose limit the current loop has still to set
          saved,   \* the limits read at the start, "none" where not read
          job,     \* the workload; "loading" has no GPU memory yet
          failed,  \* result["failure_reason"] is not None
          unreset, \* a limit was not restored: power_restore_error
          record,  \* the persisted result
          mishaps  \* the faults each guard has met, for the properties

vars == <<limit, stage, todo, saved, job, failed, unreset, record, mishaps>>

Stages == {"idle", "check", "cap", "run", "term", "abort", "cool", "restore",
           "unwind", "persist", "done", "lost"}

Inactive == {"idle", "done", "lost"}
JobAlive(g) == job[g] \in {"loading", "running"}

Init ==
    /\ limit = [x \in Gpus |-> "full"]
    /\ stage = [g \in Guards |-> "idle"]
    /\ todo = [g \in Guards |-> {}]
    /\ saved = [g \in Guards |-> [x \in Gpus |-> "none"]]
    /\ job = [g \in Guards |-> "none"]
    /\ failed = [g \in Guards |-> FALSE]
    /\ unreset = [g \in Guards |-> FALSE]
    /\ record = [g \in Guards |-> "none"]
    /\ mishaps = [g \in Guards |-> {}]

\* the guard meets a fault of this kind
Meets(g, f) ==
    /\ f \in Faults
    /\ mishaps' = [mishaps EXCEPT ![g] = @ \cup {f}]

Goto(g, s) == stage' = [stage EXCEPT ![g] = s]
Fails(g)   == failed' = [failed EXCEPT ![g] = TRUE]

\* the finally clause: whatever was saved is to be restored
Finally(g, s) ==
    /\ Goto(g, s)
    /\ todo' = [todo EXCEPT ![g] = {x \in Gpus : saved[g][x] # "none"}]

\* a connection: the request is parsed and the pinned files are there
Begin(g) ==
    /\ stage[g] = "idle"
    /\ IF \E o \in Guards : stage[o] \notin Inactive \/ JobAlive(o)
       THEN Meets(g, "overlap")
       ELSE UNCHANGED mishaps
    /\ Goto(g, "check")
    /\ UNCHANGED <<limit, todo, saved, job, failed, unreset, record>>

\* the request is a dry run, or a pinned file is missing or has changed
Refuse(g) ==
    /\ stage[g] = "check"
    /\ Goto(g, "persist")
    /\ Fails(g)
    /\ UNCHANGED <<limit, todo, saved, job, unreset, record, mishaps>>

\* the first readings: cool, no memory in use, and the limits to restore later
CheckIdle(g) ==
    /\ stage[g] = "check"
    /\ \A o \in Guards : job[o] # "running"
    /\ saved' = [saved EXCEPT ![g] = [x \in Gpus |-> IF x \in Target[g] THEN limit[x]
                                                                        ELSE "none"]]
    /\ todo' = [todo EXCEPT ![g] = Target[g]]
    /\ Goto(g, "cap")
    /\ UNCHANGED <<limit, job, failed, unreset, record, mishaps>>

\* set_power_limit, one card after the other
Cap(g) ==
    /\ stage[g] = "cap"
    /\ \E x \in todo[g] :
          /\ limit' = [limit EXCEPT ![x] = "cap"]
          /\ todo' = [todo EXCEPT ![g] = @ \ {x}]
    /\ UNCHANGED <<stage, saved, job, failed, unreset, record, mishaps>>

\* faulty variant: with no workload started there is nothing to restore
CapFailsUnsaved(g) ==
    /\ stage[g] = "cap"
    /\ IF todo[g] = {} THEN UNCHANGED mishaps ELSE Meets(g, "power")
    /\ Fails(g)
    /\ Goto(g, "persist")
    /\ UNCHANGED <<limit, todo, saved, job, unreset, record>>

\* setting a limit or starting the workload raises: nothing runs yet
CapFails(g) ==
    /\ stage[g] = "cap"
    /\ IF todo[g] = {} THEN UNCHANGED mishaps ELSE Meets(g, "power")
    /\ Fails(g)
    /\ Finally(g, "restore")
    /\ UNCHANGED <<limit, saved, job, unreset, record>>

\* subprocess.Popen with start_new_session
Launch(g) ==
    /\ stage[g] = "cap"
    /\ todo[g] = {}
    /\ job' = [job EXCEPT ![g] = "loading"]
    /\ Goto(g, "run")
    /\ UNCHANGED <<limit, todo, saved, failed, unreset, record, mishaps>>

\* faulty variant: the loop has no watchdog deadline
PollForever(g) == FALSE /\ UNCHANGED vars

\* the loop breaks: limit reached, fan event, or the watchdog deadline; the
\* workload may have ended since poll() was asked
PollUnsafe(g) ==
    /\ stage[g] = "run"
    /\ Fails(g)
    /\ Goto(g, "term")
    /\ UNCHANGED <<limit, todo, saved, job, unreset, record, mishaps>>

\* a reading, or communicate() after the end of the workload, raises something
\* run() catches: terminate, and no cool-down
PollRaises(g) ==
    /\ stage[g] = "run"
    /\ Fails(g)
    /\ Goto(g, "abort")
    /\ UNCHANGED <<limit, todo, saved, job, unreset, record, mishaps>>

\* a reading raises ValueError: only the finally clause is left
ParseRaises(g) ==
    /\ Meets(g, "parse")
    /\ stage[g] \in {"check", "run", "cool"}
    /\ Finally(g, "unwind")
    /\ UNCHANGED <<limit, saved, job, failed, unreset, record>>

\* the workload ended by itself, with status 0 or not
JobObserved(g) ==
    /\ stage[g] = "run"
    /\ ~JobAlive(g)
    /\ failed' = [failed EXCEPT ![g] = job[g] = "failed"]
    /\ Goto(g, "cool")
    /\ UNCHANGED <<limit, todo, saved, job, unreset, record, mishaps>>

\* faulty variant: SIGTERM is sent and taken for the end of the workload
TerminateHopefully(g) ==
    /\ stage[g] \in {"term", "abort"}
    /\ IF stage[g] = "term" THEN Goto(g, "cool") /\ UNCHANGED todo
                            ELSE Finally(g, "restore")
    /\ UNCHANGED <<limit, saved, job, failed, unreset, record, mishaps>>

\* terminate: SIGTERM to the group, SIGKILL two seconds later, and wait
Terminate(g) ==
    /\ stage[g] \in {"term", "abort"}
    /\ job' = [job EXCEPT ![g] = IF JobAlive(g) THEN "failed" ELSE @]
    /\ IF stage[g] = "term" THEN Goto(g, "cool") /\ UNCHANGED todo
                            ELSE Finally(g, "restore")
    /\ UNCHANGED <<limit, saved, failed, unreset, record, mishaps>>

\* the wait after SIGKILL times out: caught once, and not a second time
TerminateStuck(g) ==
    /\ Meets(g, "stuck")
    /\ JobAlive(g)
    /\ \/ stage[g] = "term" /\ Goto(g, "abort") /\ UNCHANGED todo
       \/ stage[g] = "abort" /\ Finally(g, "unwind")
    /\ UNCHANGED <<limit, saved, job, failed, unreset, record>>

\* cool_down returns None, or a reason, or raises something run() catches
CoolDown(g) ==
    /\ stage[g] = "cool"
    /\ \/ UNCHANGED failed
       \/ Fails(g)
    /\ Finally(g, "restore")
    /\ UNCHANGED <<limit, saved, job, unreset, record, mishaps>>

\* finally: each limit by itself, a failure is noted
Restore(g) ==
    /\ stage[g] \in {"restore", "unwind"}
    /\ \E x \in todo[g] :
          /\ todo' = [todo EXCEPT ![g] = @ \ {x}]
          /\ \/ /\ limit' = [limit EXCEPT ![x] = saved[g][x]]
                /\ UNCHANGED <<unreset, mishaps>>
             \/ /\ Meets(g, "power")
                /\ unreset' = [unreset EXCEPT ![g] = TRUE]
                /\ UNCHANGED limit
    /\ UNCHANGED <<stage, saved, job, failed, record>>

\* run() returns, or its exception goes on through main()
RunEnds(g) ==
    /\ stage[g] \in {"restore", "unwind"}
    /\ todo[g] = {}
    /\ Goto(g, IF stage[g] = "restore" THEN "persist" ELSE "lost")
    /\ UNCHANGED <<limit, todo, saved, job, failed, unreset, record, mishaps>>

\* faulty variant: the failure to restore a limit does not reach the status
PersistRunOnly(g) ==
    /\ stage[g] = "persist"
    /\ \/ /\ record' = [record EXCEPT ![g] = IF failed[g] THEN "fail" ELSE "pass"]
          /\ Goto(g, "done")
          /\ UNCHANGED mishaps
       \/ /\ Meets(g, "disk")
          /\ Goto(g, "lost")
          /\ UNCHANGED record
    /\ UNCHANGED <<limit, todo, saved, job, failed, unreset>>

\* persist, by way of a temporary file; the exit status needs no more than this
Persist(g) ==
    /\ stage[g] = "persist"
    /\ \/ /\ record' = [record EXCEPT ![g] = IF failed[g] \/ unreset[g] THEN "fail"
                                                                        ELSE "pass"]
          /\ Goto(g, "done")
          /\ UNCHANGED mishaps
       \/ /\ Meets(g, "disk")
          /\ Goto(g, "lost")
          /\ UNCHANGED record
    /\ UNCHANGED <<limit, todo, saved, job, failed, unreset>>

\* the guard is killed: its workload runs on in its own session
Killed(g) ==
    /\ Meets(g, "kill")
    /\ stage[g] \notin Inactive
    /\ Goto(g, "lost")
    /\ UNCHANGED <<limit, todo, saved, job, failed, unreset, record>>

\* the workload allocates GPU memory, and ends with some status
JobStep(g) ==
    /\ \/ job[g] = "loading" /\ job' = [job EXCEPT ![g] = "running"]
       \/ JobAlive(g) /\ \E s \in {"ended", "failed"} : job' = [job EXCEPT ![g] = s]
    /\ UNCHANGED <<limit, stage, todo, saved, failed, unreset, record, mishaps>>

\* what the guard does next when nothing raises
GuardStep(g) ==
    \/ Refuse(g)
    \/ CheckIdle(g)
    \/ Cap(g)
    \/ Launch(g)
    \/ PollUnsafe(g)
    \/ JobObserved(g)
    \/ Terminate(g)
    \/ CoolDown(g)
    \/ Restore(g)
    \/ RunEnds(g)
    \/ Persist(g)

Raises(g) ==
    \/ CapFails(g)
    \/ PollRaises(g)
    \/ ParseRaises(g)
    \/ TerminateStuck(g)

\* every guard has returned
Finished ==
    /\ \A g \in Guards : stage[g] \in {"done", "lost"} /\ ~JobAlive(g)
    /\ UNCHANGED vars

Next ==
    \/ \E g \in Guards :
          Begin(g) \/ GuardStep(g) \/ Raises(g) \/ Killed(g) \/ JobStep(g)
    \/ Finished

Spec == Init /\ [][Next]_vars

\* a guard that runs goes on: its calls return, its sleeps end, and its
\* watchdog deadline comes; nothing has to raise, and no workload has to end
FairSpec == Spec /\ \A g \in Guards : WF_vars(GuardStep(g))

-----------------------------------------------------------------------------
TypeOK ==
    /\ limit \in [Gpus -> {"cap", "full"}]
    /\ stage \in [Guards -> Stages]
    /\ todo \in [Guards -> SUBSET Gpus]
    /\ saved \in [Guards -> [Gpus -> {"none", "cap", "full"}]]
    /\ job \in [Guards -> {"none", "loading", "running", "ended", "failed"}]
    /\ failed \in [Guards -> BOOLEAN]
    /\ unreset \in [Guards -> BOOLEAN]
    /\ record \in [Guards -> {"none", "pass", "fail"}]
    /\ mishaps \in [Guards -> SUBSET Faults]

NoneMet(faults) == \A g \in Guards : mishaps[g] \cap faults = {}

(* A workload runs with its cards capped, on every path through run(),     *)
(* from before its start until after its end, whatever fails of the power  *)
(* limits, the disk and the guard itself.                                  *)
JobAlwaysCapped ==
    \A g \in Guards : JobAlive(g) => \A x \in Target[g] : limit[x] = "cap"

JobRunsCapped == NoneMet({"parse", "stuck", "overlap"}) => JobAlwaysCapped

(* research/hardware.md: "Save and restore original limits".  Once no      *)
(* guard is at work every card has its full limit again, unless a guard    *)
(* was killed or reported that it could not restore it.                    *)
LimitsRestored ==
    /\ NoneMet({"kill", "overlap"})
    /\ \A g \in Guards : stage[g] \in Inactive /\ ~unreset[g]
    => \A x \in Gpus : limit[x] = "full"

(* A result that says "pass" is written only after a workload that ended   *)
(* by itself with status 0, and when the cards have the limits this guard  *)
(* found, not when restoring them was merely asked for.                    *)
PassIsEarned ==
    [][\A g \in Guards :
          record[g] = "none" /\ record'[g] = "pass" =>
             /\ job[g] = "ended"
             /\ \/ ~NoneMet({"overlap"})
                \/ \A x \in Target[g] : limit[x] = saved[g][x]]_vars

(* The docstring of p40-canary-guard.py: cleanup does not depend on the    *)
(* client.  A run that begins ends with a durable result, whatever the     *)
(* workload does, unless an error that run() does not catch, a lost disk   *)
(* or a kill took the guard itself: the watchdog bounds the workload, and  *)
(* terminate ends it.                                                      *)
RunsRecorded ==
    \A g \in Guards :
       stage[g] = "check" ~>
          record[g] # "none" \/ mishaps[g] \cap {"parse", "stuck", "kill", "disk"} # {}
=============================================================================
