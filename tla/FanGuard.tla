------------------------------ MODULE FanGuard ------------------------------
(***************************************************************************)
(* deployment/wiplash-gpu-fan-guard: its daemon and the hooks that call it *)
(* with --once.  Each check, under one lock, reads the cards' temperature, *)
(* the mode file and the BMC's fan registers, decides, and writes the      *)
(* registers and the mode file with one ipmitool call after the other.     *)
(***************************************************************************)
EXTENDS Integers, Sequences

CONSTANTS Callers,    \* the processes that check
          Daemon,     \* the one that does so again and again
          Policies,   \* what WIPLASH_GPU_FAN_CAP_* may be set to
          Faults,     \* the faults of FaultKinds that may happen
          MaxUpsets   \* how many of them

FaultKinds == {"write", "look", "temps", "reset", "kill", "reboot"}

Nobody == "nobody"

ASSUME CallersAssumption == Daemon \in Callers /\ Nobody \notin Callers
ASSUME PoliciesAssumption ==
    Policies \subseteq [capped : BOOLEAN, mode : {1, 2}, pwm : 0..100]
ASSUME FaultsAssumption == Faults \subseteq FaultKinds /\ MaxUpsets \in Nat

VARIABLES policy,  \* CAP_PWM and CAP_MODE of all callers
          temp,    \* the temperature of the hottest card
          file,    \* the mode file; "none" if there is none
          bmc,     \* the BMC's registers: its mode and the duty of two zones
          lock,    \* who holds the flock
          pc,      \* where a caller is
          max,     \* the temperature it has read in this check
          todo,    \* what is left to write of what it decided
          upsets,  \* faults so far
          untold   \* history: the registers may not be what was last decided

vars == <<policy, temp, file, bmc, lock, pc, max, todo, upsets, untold>>

HIGH == 75
LOW == 65
LOAD == 55
COOL == 45
LoadPwm == 60
FullPwm == 100

\* one temperature of each band that the thresholds make
Temps == {COOL, LOAD - 1, LOW, HIGH - 1, HIGH}

\* after a reset the board decides (mode 2), whatever the zones were told
Board == [mode |-> 2, zone0 |-> 30, zone1 |-> 30]

\* a register that could not be read
Unread == [mode |-> -1, zone0 |-> -1, zone1 |-> -1]

Init ==
    /\ policy \in Policies
    /\ temp \in Temps
    /\ file = "none"
    /\ bmc = Board
    /\ lock = Nobody
    /\ pc = [c \in Callers |-> "idle"]
    /\ max = [c \in Callers |-> 0]
    /\ todo = [c \in Callers |-> <<>>]
    /\ upsets = 0
    /\ untold = FALSE

Upset(kind) ==
    /\ kind \in Faults
    /\ upsets < MaxUpsets
    /\ upsets' = upsets + 1

-----------------------------------------------------------------------------
\* What a check decides

Mode == IF file = "none" THEN "optimal" ELSE file

Commands(mode, pwm, name) ==
    <<[part |-> "mode", value |-> mode], [part |-> "zone0", value |-> pwm],
      [part |-> "zone1", value |-> pwm], [part |-> "file", value |-> name]>>

SetFull == Commands(1, FullPwm, "full")

SetLoad == Commands(1, LoadPwm, "load")

SetCap ==
    IF policy.capped
    THEN Commands(policy.mode, policy.pwm, "cap")
    ELSE <<[part |-> "mode", value |-> 2],
           [part |-> "file", value |-> "optimal"]>>

\* should_apply_pwm_state
Differs(shown, mode, pwm) ==
    shown # [mode |-> mode, zone0 |-> pwm, zone1 |-> pwm]

\* faulty variant: full fans above the threshold, not at it
PlanAbove(t, shown) ==
    IF t > HIGH /\ Mode # "full" THEN SetFull
    ELSE IF t <= LOW /\ Mode = "full"
         THEN IF t >= LOAD THEN SetLoad ELSE SetCap
    ELSE IF Mode \notin {"full", "load"} /\ t >= LOAD THEN SetLoad
    ELSE <<>>

\* faulty variant: a mode on file is not compared with the registers
PlanTrusting(t, shown) ==
    IF t >= HIGH /\ Mode # "full" THEN SetFull
    ELSE IF t <= LOW /\ Mode = "full"
         THEN IF t >= LOAD THEN SetLoad ELSE SetCap
    ELSE IF Mode = "load" /\ t <= COOL THEN SetCap
    ELSE IF Mode \notin {"full", "load"} /\ t >= LOAD THEN SetLoad
    ELSE <<>>

\* check_once: its elif chain
Plan(t, shown) ==
    IF t >= HIGH /\ Mode # "full" THEN SetFull
    ELSE IF t <= LOW /\ Mode = "full"
         THEN IF t >= LOAD THEN SetLoad ELSE SetCap
    ELSE IF Mode = "load" /\ t <= COOL THEN SetCap
    ELSE IF \/ Mode = "load" /\ Differs(shown, 1, LoadPwm)
            \/ Mode \notin {"full", "load"} /\ t >= LOAD
         THEN SetLoad
    ELSE IF /\ policy.capped
            /\ Mode \notin {"full", "load"}
            /\ Mode = "cap" => Differs(shown, policy.mode, policy.pwm)
         THEN SetCap
    ELSE <<>>

-----------------------------------------------------------------------------
\* One check of a caller

Begin(c) ==
    /\ pc[c] = "idle"
    /\ pc' = [pc EXCEPT ![c] = "wait"]
    /\ UNCHANGED <<policy, temp, file, bmc, lock, max, todo, upsets, untold>>

\* faulty variant: the check does not take the lock
AcquireAnyway(c) ==
    /\ pc[c] = "wait"
    /\ lock' = c
    /\ pc' = [pc EXCEPT ![c] = "read"]
    /\ UNCHANGED <<policy, temp, file, bmc, max, todo, upsets, untold>>

Acquire(c) ==
    /\ pc[c] = "wait"
    /\ lock = Nobody
    /\ lock' = c
    /\ pc' = [pc EXCEPT ![c] = "read"]
    /\ UNCHANGED <<policy, temp, file, bmc, max, todo, upsets, untold>>

\* flock -w: the check is skipped
LockTimeout(c) ==
    /\ pc[c] = "wait"
    /\ lock # Nobody
    /\ pc' = [pc EXCEPT ![c] = "idle"]
    /\ UNCHANGED <<policy, temp, file, bmc, lock, max, todo, upsets, untold>>

Leave(c) ==
    /\ pc' = [pc EXCEPT ![c] = "idle"]
    /\ todo' = [todo EXCEPT ![c] = <<>>]
    /\ max' = [max EXCEPT ![c] = 0]
    /\ lock' = Nobody

ReadTemps(c) ==
    /\ pc[c] = "read"
    /\ max' = [max EXCEPT ![c] = temp]
    /\ pc' = [pc EXCEPT ![c] = "decide"]
    /\ UNCHANGED <<policy, temp, file, bmc, lock, todo, upsets, untold>>

\* no reading at all ends the check; one that is no number counts as 0 degrees
ReadTempsFails(c) ==
    /\ pc[c] = "read"
    /\ Upset("temps")
    /\ \/ Leave(c)
       \/ /\ \E t \in {0} \union Temps :
               t < temp /\ max' = [max EXCEPT ![c] = t]
          /\ pc' = [pc EXCEPT ![c] = "decide"]
          /\ UNCHANGED <<lock, todo>>
    /\ UNCHANGED <<policy, temp, file, bmc, untold>>

Decide(c) ==
    /\ pc[c] = "decide"
    /\ \/ /\ Plan(max[c], bmc) = <<>>
          /\ Leave(c)
          /\ UNCHANGED upsets
       \/ \E shown \in {bmc, Unread} :
            /\ IF shown = bmc THEN UNCHANGED upsets ELSE Upset("look")
            /\ Plan(max[c], shown) # <<>>
            /\ todo' = [todo EXCEPT ![c] = Plan(max[c], shown)]
            /\ pc' = [pc EXCEPT ![c] = "write"]
            /\ UNCHANGED <<lock, max>>
    /\ UNCHANGED <<policy, temp, file, bmc, untold>>

\* an ipmitool call that sets a register, or write_mode, which ends the check
Write(c) ==
    /\ pc[c] = "write"
    /\ LET w == Head(todo[c]) IN
       IF w.part = "file"
       THEN file' = w.value /\ Leave(c) /\ UNCHANGED <<bmc, untold>>
       ELSE /\ bmc' = [bmc EXCEPT ![w.part] = w.value]
            /\ todo' = [todo EXCEPT ![c] = Tail(@)]
            /\ untold' = (untold /\ w.part # "mode")
            /\ UNCHANGED <<file, lock, pc, max>>
    /\ UNCHANGED <<policy, temp, upsets>>

SettingFull(c) == todo[c][Len(todo[c])].value = "full"

\* ipmitool fails.  errexit is off in the daemon, which goes on to the next
\* command; a hook does so for the zones of set_full only
WriteFails(c) ==
    /\ pc[c] = "write"
    /\ Head(todo[c]).part # "file"
    /\ Upset("write")
    /\ untold' = TRUE
    /\ IF c = Daemon \/ (Head(todo[c]).part # "mode" /\ SettingFull(c))
       THEN todo' = [todo EXCEPT ![c] = Tail(@)] /\ UNCHANGED <<pc, lock, max>>
       ELSE Leave(c)
    /\ UNCHANGED <<policy, temp, file, bmc>>

-----------------------------------------------------------------------------
\* The world around it

\* a caller is killed; its lock goes with it
Killed(c) ==
    /\ pc[c] # "idle"
    /\ Upset("kill")
    /\ pc' = [pc EXCEPT ![c] = "idle"]
    /\ todo' = [todo EXCEPT ![c] = <<>>]
    /\ max' = [max EXCEPT ![c] = 0]
    /\ lock' = IF lock = c THEN Nobody ELSE lock
    /\ untold' = (untold \/ pc[c] = "write")
    /\ UNCHANGED <<policy, temp, file, bmc>>

Temperature ==
    /\ temp' \in Temps \ {temp}
    /\ UNCHANGED <<policy, file, bmc, lock, pc, max, todo, upsets, untold>>

\* the BMC restarts and takes the fans over
Reset ==
    /\ Upset("reset")
    /\ bmc' = Board
    /\ untold' = TRUE
    /\ UNCHANGED <<policy, temp, file, lock, pc, max, todo>>

\* the host reboots: /run is empty, the BMC keeps its registers
Reboot ==
    /\ Upset("reboot")
    /\ file' = "none"
    /\ lock' = Nobody
    /\ pc' = [c \in Callers |-> "idle"]
    /\ todo' = [c \in Callers |-> <<>>]
    /\ max' = [c \in Callers |-> 0]
    /\ untold' = TRUE
    /\ UNCHANGED <<policy, temp, bmc>>

Check(c) ==
    \/ Begin(c)
    \/ Acquire(c)
    \/ ReadTemps(c)
    \/ Decide(c)
    \/ Write(c)

Next ==
    \/ \E c \in Callers :
         \/ Check(c)
         \/ LockTimeout(c)
         \/ ReadTempsFails(c)
         \/ WriteFails(c)
         \/ Killed(c)
    \/ Temperature
    \/ Reset
    \/ Reboot

\* the daemon checks again and again and gets the lock now and then; a hook
\* that has begun goes on
Fairness ==
    /\ WF_vars(Check(Daemon))
    /\ SF_vars(Acquire(Daemon))
    /\ \A c \in Callers \ {Daemon} : WF_vars(pc[c] # "idle" /\ Check(c))

Spec == Init /\ [][Next]_vars /\ Fairness

-----------------------------------------------------------------------------
Command == [part: {"mode"}, value: {1, 2}]
           \union [part: {"zone0", "zone1"}, value: 0..100]
           \union [part: {"file"}, value: {"optimal", "cap", "load", "full"}]

TypeOK ==
    /\ policy \in Policies
    /\ temp \in Temps
    /\ file \in {"none", "optimal", "cap", "load", "full"}
    /\ bmc \in [mode: {1, 2}, zone0: 0..100, zone1: 0..100]
    /\ lock \in Callers \union {Nobody}
    /\ pc \in [Callers -> {"idle", "wait", "read", "decide", "write"}]
    /\ max \in [Callers -> {0} \union Temps]
    /\ todo \in [Callers -> Seq(Command)]
    /\ upsets \in 0..MaxUpsets
    /\ untold \in BOOLEAN

\* the registers are what the mode file says
Matches ==
    CASE Mode = "full" -> ~Differs(bmc, 1, FullPwm)
      [] Mode = "load" -> ~Differs(bmc, 1, LoadPwm)
      [] Mode = "cap" -> ~Differs(bmc, policy.mode, policy.pwm)
      [] OTHER -> bmc.mode = 2

(* The comment on the lock: checks are serialised because daemon and hooks *)
(* both write.  Whenever no check is writing, the registers are what the   *)
(* mode file says, unless the last thing told was lost: no mixture of two  *)
(* checks' commands, no mode on file that another check has undone.        *)
FileMatchesBmc ==
    (\A c \in Callers : pc[c] # "write") /\ ~untold => Matches

FansAtLeast(pwm) == bmc.mode = 1 /\ bmc.zone0 >= pwm /\ bmc.zone1 >= pwm

(* Cards at HIGH get full fans, however often checks are skipped, killed   *)
(* or blinded, with one reservation: once full is on file a register that  *)
(* was not written, or was lost, is not looked at again.                   *)
HotGetsFull ==
    temp >= HIGH ~> \/ FansAtLeast(FullPwm)
                    \/ temp < HIGH
                    \/ file = "full" /\ ~Matches

(* Below full the registers are compared at every check: warm cards get at *)
(* least the load duty back after a reset of the BMC, a reboot, a lost     *)
(* command, a killed check.                                                *)
WarmGetsLoad ==
    temp >= LOAD /\ file # "full" ~>
      FansAtLeast(LoadPwm) \/ temp < LOAD \/ file = "full"
=============================================================================
