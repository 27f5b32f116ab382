------------------------- MODULE ThermalSupervisor -------------------------
(***************************************************************************)
(* deployment/colibri-thermal-supervisor.py as the main process of         *)
(* colibri-qwen36.service: the supervisor reads the cards' temperature,    *)
(* starts the launcher (its child), which starts the engine on the GPUs,   *)
(* and polls.  systemd restarts the unit when its main process fails, and  *)
(* kills what is left of the control group whenever it ends.               *)
(* Its names are apart from FanGuard's: CoolingProofs extends the two.     *)
(***************************************************************************)
EXTENDS Integers

VARIABLES unit,    \* the systemd unit; "cleanup" kills the control group
          status,  \* exit status of the last main process: 0 or 1
          sup,     \* where main() is
          child,   \* the launcher: "asked" has received SIGTERM
          engine,  \* the engine process is alive
          hot,     \* a card is at or above COLIBRI_THERMAL_C
          why      \* what ended the last main process

unitVars == <<unit, status, sup, child, engine, hot, why>>

Alive == child \in {"running", "asked"}

UnitInit ==
    /\ unit = "inactive"
    /\ status = 0
    /\ sup = "none"
    /\ child = "none"
    /\ engine = FALSE
    /\ hot \in BOOLEAN
    /\ why = "none"

\* faulty variant: the thermal stop passes on the status of the killed child
EndsWithChild(code, reason) ==
    /\ sup' = "none"
    /\ status' = IF reason = "heat" /\ child # "none" THEN 1 ELSE code
    /\ why' = reason
    /\ unit' = "cleanup"

\* main() returns or raises: systemd cleans up what it leaves behind
Ends(code, reason) ==
    /\ sup' = "none"
    /\ status' = code
    /\ why' = reason
    /\ unit' = "cleanup"

\* systemctl start, by the router or an operator
Start ==
    /\ unit \in {"inactive", "restarting"}
    /\ unit' = "active"
    /\ sup' = "startup"
    /\ why' = "none"
    /\ UNCHANGED <<status, child, engine, hot>>

\* Restart=on-failure, after RestartSec
Restart ==
    /\ unit = "restarting"
    /\ unit' = "active"
    /\ sup' = "startup"
    /\ why' = "none"
    /\ UNCHANGED <<status, child, engine, hot>>

\* the first reading decides whether the launcher is started at all
StartupRead ==
    /\ sup = "startup"
    /\ \/ /\ ~hot
          /\ child' = "running"
          /\ engine' = TRUE
          /\ sup' = "poll"
          /\ UNCHANGED <<unit, status, why>>
       \/ hot /\ Ends(0, "heat") /\ UNCHANGED <<child, engine>>
       \/ Ends(0, "blind") /\ UNCHANGED <<child, engine>>
       \/ Ends(1, "uncaught") /\ UNCHANGED <<child, engine>> \* no temperatures
    /\ UNCHANGED hot

\* child.poll(): a child that ended by itself ends the supervisor
Poll ==
    /\ sup = "poll"
    /\ \/ Alive /\ sup' = "read" /\ UNCHANGED <<unit, status, why>>
       \/ child = "exited" /\ Ends(0, "child")
       \/ child = "failed" /\ Ends(1, "child")
    /\ UNCHANGED <<child, engine, hot>>

\* a reading: below the limit the supervisor sleeps and polls again
Read ==
    /\ sup = "read"
    /\ sup' = IF hot THEN "stop" ELSE "poll"
    /\ UNCHANGED <<unit, status, child, engine, hot, why>>

\* nvidia-smi fails: logged, and tried again after the next sleep
ReadFails ==
    /\ sup = "read"
    /\ sup' = "poll"
    /\ UNCHANGED <<unit, status, child, engine, hot, why>>

\* nvidia-smi prints no temperature: RuntimeError, which main() lets through
ReadRaises ==
    /\ sup = "read"
    /\ Ends(1, "uncaught")
    /\ UNCHANGED <<child, engine, hot>>

SendTerm ==
    /\ sup = "stop"
    /\ sup' = "wait"
    /\ child' = IF Alive THEN "asked" ELSE child
    /\ UNCHANGED <<unit, status, engine, hot, why>>

\* the child ended within STOP_SECONDS
Stopped ==
    /\ sup = "wait"
    /\ ~Alive
    /\ Ends(0, "heat")
    /\ UNCHANGED <<child, engine, hot>>

\* faulty variant: the supervisor waits for the child and never kills it
KillNever == FALSE /\ UNCHANGED unitVars

\* it did not: the launcher is killed, its engine is left to systemd
Kill ==
    /\ sup = "wait"
    /\ Alive
    /\ child' = "failed"
    /\ Ends(0, "heat")
    /\ UNCHANGED <<engine, hot>>

\* faulty variant: KillMode=process
CleanupMainOnly ==
    /\ unit = "cleanup"
    /\ unit' = IF status = 0 THEN "inactive" ELSE "restarting"
    /\ child' = "none"
    /\ UNCHANGED <<status, sup, engine, hot, why>>

\* KillMode=control-group, then Restart=on-failure
Cleanup ==
    /\ unit = "cleanup"
    /\ unit' = IF status = 0 THEN "inactive" ELSE "restarting"
    /\ child' = "none"
    /\ engine' = FALSE
    /\ UNCHANGED <<status, sup, hot, why>>

\* systemctl stop: the whole group is signalled, and nothing is restarted
Stop ==
    /\ unit \in {"active", "restarting"}
    /\ Ends(0, "stop")
    /\ UNCHANGED <<child, engine, hot>>

\* the launcher ends: by itself, or because it was asked to
ChildEnds ==
    /\ Alive
    /\ \/ child' = "exited" /\ engine' = FALSE
       \/ child' = "failed" /\ engine' \in {engine, FALSE}
    /\ UNCHANGED <<unit, status, sup, hot, why>>

CardTemperature ==
    hot' = ~hot /\ UNCHANGED <<unit, status, sup, child, engine, why>>

SupervisorStep ==
    \/ StartupRead
    \/ Poll
    \/ Read
    \/ ReadFails
    \/ ReadRaises
    \/ SendTerm
    \/ Stopped
    \/ Kill

UnitNext ==
    \/ SupervisorStep
    \/ Start
    \/ Restart
    \/ Cleanup
    \/ Stop
    \/ ChildEnds
    \/ CardTemperature

UnitSpec == UnitInit /\ [][UnitNext]_unitVars

\* the supervisor and systemd run; the launcher may ignore SIGTERM
RunningSpec ==
    UnitSpec /\ WF_unitVars(SupervisorStep) /\ WF_unitVars(Cleanup)

\* and nvidia-smi does not fail for ever
ReadingSpec == RunningSpec /\ SF_unitVars(Read)

-----------------------------------------------------------------------------
UnitTypeOK ==
    /\ unit \in {"inactive", "active", "restarting", "cleanup"}
    /\ status \in {0, 1}
    /\ sup \in {"none", "startup", "poll", "read", "stop", "wait"}
    /\ child \in {"none", "running", "asked", "exited", "failed"}
    /\ engine \in BOOLEAN
    /\ hot \in BOOLEAN
    /\ why \in {"none", "heat", "blind", "uncaught", "child", "stop"}

(* The comment in main(): "A thermal stop is deliberate.  Do not trigger   *)
(* systemd restart into a still-hot chassis."  However the launcher ended, *)
(* of SIGTERM, SIGKILL or a crash at that moment, systemd restarts a unit  *)
(* only when no thermal stop ended it.                                     *)
NoRestartAfterHeat == unit = "restarting" => why \notin {"heat", "blind", "stop"}

(* The supervisor kills the launcher alone, and may die without killing    *)
(* anything: no engine outlives the unit, so that a later start or another *)
(* model never finds the GPUs occupied by an engine no one watches.        *)
NoUnwatchedEngine == engine => unit \in {"active", "cleanup"}

(* deployment/README.md: a card that reaches the limit while the model is  *)
(* resident gets the engine stopped, by force if needed.  True as long as  *)
(* nvidia-smi answers now and then; a supervisor whose readings fail from  *)
(* some moment on lets a hot engine run.                                   *)
HotEngineStopped == engine /\ hot ~> ~engine \/ ~hot
=============================================================================
