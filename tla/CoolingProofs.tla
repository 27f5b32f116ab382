---------------------------- MODULE CoolingProofs ---------------------------
(***************************************************************************)
(* Proofs about the two programs that keep the cards from overheating,     *)
(* FanGuard and ThermalSupervisor.  They share no variable, so that what   *)
(* is proved of each holds of the two side by side.                        *)
(*                                                                         *)
(* FanGuard, for every set of callers, every policy and every number of    *)
(* faults: only the holder of the lock writes (LockInv); what it has       *)
(* written so far is what it was to write, unless a command or the         *)
(* registers were lost meanwhile (WriteInv); and the mode file is written  *)
(* last.                                                                   *)
(*                                                                         *)
(* ThermalSupervisor: TLC checks the whole system; the proofs say why it   *)
(* is safe.  A supervisor exists only in an active unit, and what systemd  *)
(* decides from, the exit status, is 0 from the moment a stop is decided   *)
(* until the control group is gone.                                        *)
(***************************************************************************)
EXTENDS FanGuard, ThermalSupervisor, TLAPS

Plans == {SetFull, SetLoad, SetCap}

\* a caller inside the lock
Inside(c) == pc[c] \in {"read", "decide", "write"}

LockInv == \A c \in Callers : Inside(c) <=> lock = c

\* s is what follows the first n commands of p
RestOf(s, p, n) ==
    /\ n + Len(s) = Len(p)
    /\ \A i \in 1 .. Len(s) : s[i] = p[n + i]

\* todo[c] is the rest of plan p, whose first n commands are done
Rest(c, p, n) == todo[c] # <<>> /\ RestOf(todo[c], p, n)

Done(p, n) == \A i \in 1 .. n : bmc[p[i].part] = p[i].value

WriteInv ==
    \A c \in Callers : pc[c] = "write" =>
       \E p \in Plans, n \in 0 .. 3 : Rest(c, p, n) /\ (~untold => Done(p, n))

FanInv == TypeOK /\ LockInv /\ WriteInv /\ FileMatchesBmc

-----------------------------------------------------------------------------
\* What a plan is: the mode first, then each zone at most once, then the file.
LEMMA PlanShape ==
    ASSUME policy \in Policies, NEW p \in Plans
    PROVE  /\ p \in Seq(Command) /\ Len(p) \in 1 .. 4
           /\ \A i \in 1 .. Len(p) :
                 /\ p[i].part = "mode" <=> i = 1
                 /\ p[i].part = "file" <=> i = Len(p)
                 /\ \A j \in 1 .. Len(p) : p[i].part = p[j].part => i = j
<1>1. policy \in [capped : BOOLEAN, mode : {1, 2}, pwm : 0..100]
  BY PoliciesAssumption
<1>2. ASSUME NEW m \in {1, 2}, NEW d \in 0..100,
             NEW name \in {"cap", "load", "full"}, p = Commands(m, d, name)
      PROVE  /\ p \in Seq(Command) /\ Len(p) = 4
             /\ p[1].part = "mode" /\ p[2].part = "zone0"
             /\ p[3].part = "zone1" /\ p[4].part = "file"
  <2>1. /\ [part |-> "mode", value |-> m] \in Command
        /\ [part |-> "zone0", value |-> d] \in Command
        /\ [part |-> "zone1", value |-> d] \in Command
        /\ [part |-> "file", value |-> name] \in Command
    BY DEF Command
  <2> QED
    BY <1>2, <2>1 DEF Commands
<1>3. ASSUME Len(p) = 4, p[1].part = "mode", p[2].part = "zone0",
             p[3].part = "zone1", p[4].part = "file"
      PROVE  \A i \in 1 .. Len(p) :
                 /\ p[i].part = "mode" <=> i = 1
                 /\ p[i].part = "file" <=> i = Len(p)
                 /\ \A j \in 1 .. Len(p) : p[i].part = p[j].part => i = j
  <2>1. \A i \in 1 .. Len(p) : i \in {1, 2, 3, 4}
    BY <1>3
  <2> QED
    BY <1>3, <2>1
<1>4. CASE p = SetFull \/ p = SetLoad \/ (p = SetCap /\ policy.capped)
  <2>1. PICK m \in {1, 2}, d \in 0..100, name \in {"cap", "load", "full"} :
           p = Commands(m, d, name)
    BY <1>1, <1>4 DEF SetFull, SetLoad, SetCap, FullPwm, LoadPwm
  <2>2. /\ p \in Seq(Command) /\ Len(p) = 4
        /\ p[1].part = "mode" /\ p[2].part = "zone0"
        /\ p[3].part = "zone1" /\ p[4].part = "file"
    BY <1>2, <2>1
  <2> QED
    BY <1>3, <2>2
<1>5. CASE p = SetCap /\ ~policy.capped
  <2>1. p = <<[part |-> "mode", value |-> 2],
              [part |-> "file", value |-> "optimal"]>>
    BY <1>5 DEF SetCap
  <2>2. /\ [part |-> "mode", value |-> 2] \in Command
        /\ [part |-> "file", value |-> "optimal"] \in Command
    BY DEF Command
  <2>3. /\ p \in Seq(Command) /\ Len(p) = 2
        /\ p[1].part = "mode" /\ p[2].part = "file"
    BY <2>1, <2>2
  <2>4. \A i \in 1 .. Len(p) : i \in {1, 2}
    BY <2>3
  <2> QED
    BY <2>3, <2>4
<1> QED
  BY <1>4, <1>5 DEF Plans

LEMMA PlanIsOne ==
    ASSUME NEW t, NEW shown
    PROVE  Plan(t, shown) \in Plans \cup {<<>>}
BY DEF Plan, Plans

\* When all of a plan but its last command is done, the registers are what
\* the file will say.
LEMMA DoneMatches ==
    ASSUME TypeOK, NEW p \in Plans, Done(p, Len(p) - 1),
           file' = p[Len(p)].value, UNCHANGED <<bmc, policy>>
    PROVE  Matches'
<1>1. policy \in [capped : BOOLEAN, mode : {1, 2}, pwm : 0..100]
  BY PoliciesAssumption DEF TypeOK
<1>2. bmc = [mode |-> bmc.mode, zone0 |-> bmc.zone0, zone1 |-> bmc.zone1]
  BY DEF TypeOK
<1>3. ASSUME NEW m \in {1, 2}, NEW d \in 0..100,
             NEW name \in {"cap", "load", "full"}, p = Commands(m, d, name)
      PROVE  /\ file' = name
             /\ bmc = [mode |-> m, zone0 |-> d, zone1 |-> d]
  <2>1. /\ Len(p) = 4 /\ p[4].value = name
        /\ p[1] = [part |-> "mode", value |-> m]
        /\ p[2] = [part |-> "zone0", value |-> d]
        /\ p[3] = [part |-> "zone1", value |-> d]
    BY <1>3 DEF Commands
  <2>2. bmc.mode = m /\ bmc.zone0 = d /\ bmc.zone1 = d
    <3>1. 1 \in 1 .. Len(p) - 1 /\ 2 \in 1 .. Len(p) - 1 /\ 3 \in 1 .. Len(p) - 1
      BY <2>1
    <3> QED
      BY <2>1, <3>1 DEF Done, TypeOK
  <2> QED
    BY <1>2, <2>1, <2>2
<1>4. CASE p = SetFull
  <2>1. p = Commands(1, 100, "full")
    BY <1>4 DEF SetFull, FullPwm
  <2>2. file' = "full" /\ bmc = [mode |-> 1, zone0 |-> 100, zone1 |-> 100]
    <3>1. 1 \in {1, 2} /\ 100 \in 0..100 /\ "full" \in {"cap", "load", "full"}
      OBVIOUS
    <3> QED
      BY <1>3, <2>1, <3>1, Zenon
  <2> QED
    BY <2>2 DEF Matches, Mode, Differs, FullPwm
<1>5. CASE p = SetLoad
  <2>1. p = Commands(1, 60, "load")
    BY <1>5 DEF SetLoad, LoadPwm
  <2>2. file' = "load" /\ bmc = [mode |-> 1, zone0 |-> 60, zone1 |-> 60]
    <3>1. 1 \in {1, 2} /\ 60 \in 0..100 /\ "load" \in {"cap", "load", "full"}
      OBVIOUS
    <3> QED
      BY <1>3, <2>1, <3>1, Zenon
  <2> QED
    BY <2>2 DEF Matches, Mode, Differs, LoadPwm
<1>6. CASE p = SetCap /\ policy.capped
  <2>1. p = Commands(policy.mode, policy.pwm, "cap")
    BY <1>6 DEF SetCap
  <2>2. /\ file' = "cap"
        /\ bmc = [mode |-> policy.mode, zone0 |-> policy.pwm,
                  zone1 |-> policy.pwm]
    BY <1>1, <1>3, <2>1
  <2> QED
    BY <2>2 DEF Matches, Mode, Differs
<1>7. CASE p = SetCap /\ ~policy.capped
  <2>1. /\ Len(p) = 2 /\ p[2].value = "optimal"
        /\ p[1] = [part |-> "mode", value |-> 2]
    BY <1>7 DEF SetCap
  <2>2. bmc.mode = 2
    <3>1. 1 \in 1 .. Len(p) - 1
      BY <2>1
    <3> QED
      BY <2>1, <3>1 DEF Done, TypeOK
  <2> QED
    BY <2>1, <2>2 DEF Matches, Mode
<1> QED
  BY <1>4, <1>5, <1>6, <1>7 DEF Plans

-----------------------------------------------------------------------------
\* What the next command of a writing caller is.
LEMMA NextCommand ==
    ASSUME FanInv, NEW c \in Callers, pc[c] = "write"
    PROVE  /\ todo[c] \in Seq(Command) /\ todo[c] # <<>>
           /\ Head(todo[c]) \in Command
           /\ Tail(todo[c]) \in Seq(Command)
<1>1. todo[c] \in Seq(Command) /\ todo[c] # <<>>
  BY DEF FanInv, TypeOK, WriteInv, Rest
<1> QED
  BY <1>1

LEMMA UpsetType ==
    ASSUME TypeOK, NEW kind, Upset(kind)
    PROVE  upsets' \in 0 .. MaxUpsets
BY FaultsAssumption DEF Upset, TypeOK

\* No step leaves the types of the variables.
LEMMA TypeStep == FanInv /\ [Next]_vars => TypeOK'
<1> SUFFICES ASSUME FanInv, [Next]_vars PROVE TypeOK'
  OBVIOUS
<1> TypeOK
  BY DEF FanInv
<1>1. ASSUME NEW c \in Callers, Begin(c) \/ Acquire(c) \/ LockTimeout(c)
      PROVE  TypeOK'
  <2>1. CASE Begin(c)
    BY <2>1 DEF Begin, TypeOK
  <2>2. CASE Acquire(c)
    BY <2>2 DEF Acquire, TypeOK
  <2>3. CASE LockTimeout(c)
    BY <2>3 DEF LockTimeout, TypeOK
  <2> QED
    BY <1>1, <2>1, <2>2, <2>3
<1>2. ASSUME NEW c \in Callers, Leave(c) PROVE
      /\ lock' \in Callers \union {Nobody}
      /\ pc' \in [Callers -> {"idle", "wait", "read", "decide", "write"}]
      /\ max' \in [Callers -> {0} \union Temps]
      /\ todo' \in [Callers -> Seq(Command)]
  BY <1>2 DEF Leave, TypeOK
<1>3. ASSUME NEW c \in Callers, ReadTemps(c) \/ ReadTempsFails(c)
      PROVE  TypeOK'
  <2>1. CASE ReadTemps(c)
    BY <2>1 DEF ReadTemps, TypeOK
  <2>2. CASE ReadTempsFails(c)
    <3>1. upsets' \in 0 .. MaxUpsets
      BY <2>2, UpsetType DEF ReadTempsFails
    <3>2. UNCHANGED <<policy, temp, file, bmc, untold>>
      BY <2>2 DEF ReadTempsFails
    <3>3. CASE Leave(c)
      BY <1>2, <3>1, <3>2, <3>3 DEF TypeOK
    <3>4. CASE ~Leave(c)
      <4>1. PICK t \in {0} \union Temps : max' = [max EXCEPT ![c] = t]
        BY <2>2, <3>4 DEF ReadTempsFails
      <4>2. /\ pc' = [pc EXCEPT ![c] = "decide"]
            /\ UNCHANGED <<lock, todo>>
        BY <2>2, <3>4 DEF ReadTempsFails
      <4> QED
        BY <3>1, <3>2, <4>1, <4>2 DEF TypeOK
    <3> QED
      BY <3>3, <3>4
  <2> QED
    BY <1>3, <2>1, <2>2
<1>4. ASSUME NEW c \in Callers, Decide(c) PROVE TypeOK'
  <2>1. \A shown : Plan(max[c], shown) # <<>>
                   => Plan(max[c], shown) \in Seq(Command)
    BY PlanIsOne, PlanShape DEF TypeOK
  <2> QED
    <3>1. CASE Leave(c) /\ UNCHANGED upsets
      BY <1>2, <1>4, <3>1 DEF Decide, TypeOK
    <3>2. ASSUME NEW shown,
                 IF shown = bmc THEN UNCHANGED upsets ELSE Upset("look"),
                 Plan(max[c], shown) # <<>>,
                 todo' = [todo EXCEPT ![c] = Plan(max[c], shown)],
                 pc' = [pc EXCEPT ![c] = "write"],
                 UNCHANGED <<lock, max>>
          PROVE  TypeOK'
      <4>1. upsets' \in 0 .. MaxUpsets
        BY <3>2, UpsetType DEF TypeOK
      <4> QED
        BY <1>4, <2>1, <3>2, <4>1 DEF Decide, TypeOK
    <3> QED
      BY <1>4, <3>1, <3>2 DEF Decide
<1>5. ASSUME NEW c \in Callers, Write(c) PROVE TypeOK'
  <2>1. pc[c] = "write"
    BY <1>5 DEF Write
  <2>2. CASE Head(todo[c]).part = "file"
    BY <1>2, <1>5, <2>1, <2>2, NextCommand DEF Write, Command, TypeOK
  <2>3. CASE Head(todo[c]).part # "file"
    <3>1. bmc' = [bmc EXCEPT ![Head(todo[c]).part] = Head(todo[c]).value]
      BY <1>5, <2>3 DEF Write
    <3>2. \/ Head(todo[c]).part = "mode" /\ Head(todo[c]).value \in {1, 2}
          \/ /\ Head(todo[c]).part \in {"zone0", "zone1"}
             /\ Head(todo[c]).value \in 0..100
      BY <2>1, <2>3, NextCommand DEF Command
    <3>3. bmc' \in [mode: {1, 2}, zone0: 0..100, zone1: 0..100]
      BY <3>1, <3>2 DEF TypeOK
    <3>4. /\ todo' = [todo EXCEPT ![c] = Tail(todo[c])]
          /\ untold' \in BOOLEAN
          /\ UNCHANGED <<policy, temp, file, lock, pc, max, upsets>>
      BY <1>5, <2>3 DEF Write
    <3>5. Tail(todo[c]) \in Seq(Command)
      BY <2>1, NextCommand
    <3> QED
      BY <3>3, <3>4, <3>5 DEF TypeOK
  <2> QED
    BY <2>2, <2>3
<1>6. ASSUME NEW c \in Callers, WriteFails(c) PROVE TypeOK'
  <2>1. pc[c] = "write"
    BY <1>6 DEF WriteFails
  <2> QED
    BY <1>2, <1>6, <2>1, NextCommand, UpsetType DEF WriteFails, TypeOK
<1>7. ASSUME NEW c \in Callers, Killed(c) PROVE TypeOK'
  BY <1>7, UpsetType DEF Killed, TypeOK
<1>8. CASE Temperature
  BY <1>8 DEF Temperature, TypeOK
<1>11. CASE Reset
  <2>1. Board \in [mode: {1, 2}, zone0: 0..100, zone1: 0..100]
    BY DEF Board
  <2> QED
    BY <1>11, <2>1, UpsetType DEF Reset, TypeOK
<1>10. CASE Reboot
  <2>1. <<>> \in Seq(Command)
    OBVIOUS
  <2> QED
    BY <1>10, <2>1, UpsetType DEF Reboot, TypeOK
<1>9. CASE UNCHANGED vars
  BY <1>9 DEF vars, TypeOK
<1> QED
  BY <1>1, <1>3, <1>4, <1>5, <1>6, <1>7, <1>8, <1>9, <1>10, <1>11
     DEF Next, Check

-----------------------------------------------------------------------------
\* The lock lets one caller inside.
LEMMA LockStep == FanInv /\ [Next]_vars => LockInv'
<1> SUFFICES ASSUME FanInv, [Next]_vars PROVE LockInv'
  OBVIOUS
<1> TypeOK /\ LockInv
  BY DEF FanInv
<1> USE DEF Inside, LockInv, TypeOK
<1>1. ASSUME NEW c \in Callers, Begin(c) \/ Acquire(c) \/ LockTimeout(c)
      PROVE  LockInv'
  BY <1>1, CallersAssumption DEF Begin, Acquire, LockTimeout
<1>2. ASSUME NEW c \in Callers, Leave(c), lock = c PROVE LockInv'
  BY <1>2, CallersAssumption DEF Leave
<1>3. ASSUME NEW c \in Callers, ReadTemps(c) \/ ReadTempsFails(c)
      PROVE  LockInv'
  BY <1>2, <1>3 DEF ReadTemps, ReadTempsFails
<1>4. ASSUME NEW c \in Callers, Decide(c) \/ Write(c) \/ WriteFails(c)
      PROVE  LockInv'
  BY <1>2, <1>4 DEF Decide, Write, WriteFails
<1>5. ASSUME NEW c \in Callers, Killed(c) PROVE LockInv'
  BY <1>5, CallersAssumption DEF Killed
<1>6. CASE Temperature \/ Reset \/ Reboot
  BY <1>6, CallersAssumption DEF Temperature, Reset, Reboot
<1>7. CASE UNCHANGED vars
  BY <1>7 DEF vars
<1> QED
  BY <1>1, <1>3, <1>4, <1>5, <1>6, <1>7 DEF Next, Check

\* The tail of the rest of a plan.
LEMMA TailOfRest ==
    ASSUME NEW s \in Seq(Command), s # <<>>, NEW p \in Seq(Command),
           NEW n \in 0 .. 3, RestOf(s, p, n)
    PROVE  /\ RestOf(Tail(s), p, n + 1)
           /\ Head(s) = p[n + 1] /\ n + 1 \in 1 .. Len(p)
<1>1. n + Len(s) = Len(p) /\ \A i \in 1 .. Len(s) : s[i] = p[n + i]
  BY DEF RestOf
<1>2. Len(s) \in Nat \ {0} /\ Head(s) = s[1] /\ Len(p) \in Nat
  OBVIOUS
<1> DEFINE t == Tail(s)
<1>3. Len(t) = Len(s) - 1 /\ \A i \in 1 .. Len(t) : t[i] = s[i + 1]
  OBVIOUS
<1> HIDE DEF t
<1>4. ASSUME NEW i \in 1 .. Len(t) PROVE t[i] = p[n + 1 + i]
  <2>1. i + 1 \in 1 .. Len(s) /\ n + (i + 1) = n + 1 + i
    BY <1>2, <1>3
  <2> QED
    BY <1>1, <1>3, <2>1
<1>5. n + 1 + Len(t) = Len(p)
  BY <1>1, <1>2, <1>3
<1>6. Head(s) = p[n + 1] /\ n + 1 \in 1 .. Len(p)
  BY <1>1, <1>2
<1> QED
  BY <1>4, <1>5, <1>6 DEF RestOf, t

\* A command that is given, or skipped, moves on in the plan.
LEMMA SkipStep ==
    ASSUME FanInv, NEW c \in Callers, pc[c] = "write",
           Head(todo[c]).part # "file",
           NEW p \in Plans, NEW n \in 0 .. 3, Rest(c, p, n),
           todo' = [todo EXCEPT ![c] = Tail(@)]
    PROVE  /\ Rest(c, p, n + 1)' /\ n + 1 \in 0 .. 3
           /\ Head(todo[c]) = p[n + 1] /\ n + 1 < Len(p)
<1>1. /\ p \in Seq(Command) /\ Len(p) \in 1 .. 4
      /\ \A i \in 1 .. Len(p) : p[i].part = "file" <=> i = Len(p)
  BY PlanShape DEF FanInv, TypeOK
<1> DEFINE rest == Tail(todo[c])
<1>2. /\ RestOf(rest, p, n + 1)
      /\ Head(todo[c]) = p[n + 1] /\ n + 1 \in 1 .. Len(p)
  BY <1>1, NextCommand, TailOfRest DEF Rest
<1>3. todo'[c] = rest /\ rest \in Seq(Command)
  BY NextCommand DEF FanInv, TypeOK
<1> HIDE DEF rest
<1>4. n + 1 < Len(p)
  BY <1>1, <1>2
<1>5. rest # <<>>
  <2>1. n + 1 + Len(rest) = Len(p)
    BY <1>2 DEF RestOf
  <2> QED
    BY <1>1, <1>4, <2>1
<1>6. Rest(c, p, n + 1)'
  BY <1>2, <1>3, <1>5 DEF Rest, RestOf
<1> QED
  BY <1>1, <1>2, <1>4, <1>6

\* A command that is given adds to what is done.
LEMMA WriteStep ==
    ASSUME FanInv, NEW c \in Callers, Write(c), Head(todo[c]).part # "file"
    PROVE  \E p \in Plans, n \in 0 .. 3 :
              /\ Rest(c, p, n)' /\ (~untold' => Done(p, n)')
<1>1. pc[c] = "write"
  BY DEF Write
<1>2. PICK p \in Plans, n \in 0 .. 3 : Rest(c, p, n) /\ (~untold => Done(p, n))
  BY <1>1 DEF FanInv, WriteInv
<1> DEFINE w == Head(todo[c])
<1>3. /\ p \in Seq(Command) /\ Len(p) \in 1 .. 4
      /\ \A i \in 1 .. Len(p) :
            /\ p[i].part = "mode" <=> i = 1
            /\ p[i].part = "file" <=> i = Len(p)
            /\ \A j \in 1 .. Len(p) : p[i].part = p[j].part => i = j
  BY PlanShape DEF FanInv, TypeOK
<1>7. /\ bmc' = [bmc EXCEPT ![w.part] = w.value]
      /\ todo' = [todo EXCEPT ![c] = Tail(@)]
      /\ untold' = (untold /\ w.part # "mode")
  BY DEF Write
<1>8. /\ Rest(c, p, n + 1)' /\ n + 1 \in 0 .. 3
      /\ w = p[n + 1] /\ n + 1 < Len(p)
  BY <1>1, <1>2, <1>7, SkipStep
<1>5. n + 1 \in 1 .. Len(p)
  BY <1>3, <1>8
<1>9. ASSUME ~untold' PROVE Done(p, n + 1)'
  <2>1. w.part \in {"mode", "zone0", "zone1"}
    BY <1>1, NextCommand DEF Command
  <2>2. bmc'[w.part] = w.value
    BY <1>7, <2>1 DEF FanInv, TypeOK
  <2>3. ASSUME NEW i \in 1 .. n PROVE bmc'[p[i].part] = p[i].value
    <3>1. i \in 1 .. Len(p) /\ i # n + 1
      BY <1>3, <1>8
    <3>2. p[i].part # w.part
      BY <1>3, <1>5, <1>8, <3>1
    <3>3. ~untold
      <4>1. w.part # "mode"
        BY <1>3, <1>5, <1>8, <2>3
      <4> QED
        BY <1>7, <1>9, <4>1
    <3>4. p[i].part \in {"mode", "zone0", "zone1"}
      <4>1. p[i] \in Command /\ i # Len(p)
        BY <1>3, <1>8, <3>1
      <4> QED
        BY <1>3, <3>1, <4>1 DEF Command
    <3>5. bmc'[p[i].part] = bmc[p[i].part]
      BY <1>7, <3>2, <3>4 DEF FanInv, TypeOK
    <3> QED
      BY <1>2, <3>3, <3>5 DEF Done
  <2>4. \A i \in 1 .. n + 1 : i \in 1 .. n \/ i = n + 1
    OBVIOUS
  <2> QED
    BY <1>8, <2>2, <2>3, <2>4 DEF Done
<1>10. n + 1 \in 0 .. 3
  BY <1>3, <1>8
<1> QED
  BY <1>8, <1>9

\* The file is written when all the rest is done.
LEMMA FileStep ==
    ASSUME FanInv, NEW c \in Callers, Write(c), Head(todo[c]).part = "file",
           ~untold
    PROVE  Matches'
<1>1. pc[c] = "write"
  BY DEF Write
<1>2. PICK p \in Plans, n \in 0 .. 3 : Rest(c, p, n) /\ Done(p, n)
  BY <1>1 DEF FanInv, WriteInv
<1>3. /\ p \in Seq(Command) /\ Len(p) \in 1 .. 4
      /\ \A i \in 1 .. Len(p) : p[i].part = "file" <=> i = Len(p)
  BY PlanShape DEF FanInv, TypeOK
<1>5. Head(todo[c]) = p[n + 1] /\ n + 1 \in 1 .. Len(p)
  BY <1>1, <1>2, <1>3, NextCommand, TailOfRest DEF Rest
<1>6. n + 1 = Len(p) /\ n = Len(p) - 1
  BY <1>3, <1>5
<1>7. file' = p[Len(p)].value /\ UNCHANGED <<bmc, policy>>
  BY <1>5, <1>6 DEF Write
<1> QED
  BY <1>2, <1>6, <1>7, DoneMatches DEF FanInv

LEMMA MatchStep == FanInv /\ [Next]_vars => WriteInv' /\ FileMatchesBmc'
<1> SUFFICES ASSUME FanInv, [Next]_vars PROVE WriteInv' /\ FileMatchesBmc'
  OBVIOUS
<1> TypeOK /\ LockInv /\ WriteInv /\ FileMatchesBmc
  BY DEF FanInv
<1>13. ASSUME UNCHANGED policy PROVE Plans' = Plans
  BY <1>13 DEF Plans, SetFull, SetLoad, SetCap
\* a step that writes nothing, and starts no writing
<1>1. ASSUME UNCHANGED <<policy, file, bmc, untold>>,
             \A c \in Callers : pc'[c] = "write" =>
                pc[c] = "write" /\ todo'[c] = todo[c],
             \A c \in Callers : pc[c] = "write" => pc'[c] = "write"
      PROVE  WriteInv' /\ FileMatchesBmc'
  <2>1. Plans' = Plans /\ (Matches' <=> Matches)
    BY <1>1, <1>13 DEF Matches, Mode, Differs
  <2>2. ASSUME NEW c \in Callers, pc'[c] = "write"
        PROVE  \E p \in Plans', n \in 0 .. 3 :
                  Rest(c, p, n)' /\ (~untold' => Done(p, n)')
    <3>1. PICK p \in Plans, n \in 0 .. 3 :
             Rest(c, p, n) /\ (~untold => Done(p, n))
      BY <1>1, <2>2 DEF WriteInv
    <3>2. Rest(c, p, n)'
      BY <1>1, <2>2, <3>1 DEF Rest, RestOf
    <3>3. ~untold' => Done(p, n)'
      BY <1>1, <3>1 DEF Done
    <3> QED
      BY <2>1, <3>2, <3>3
  <2> QED
    BY <1>1, <2>1, <2>2 DEF WriteInv, FileMatchesBmc
<1>2. ASSUME NEW c \in Callers, Inside(c) PROVE \A d \in Callers \ {c} : ~Inside(d)
  BY <1>2 DEF LockInv
<1>3. ASSUME NEW c \in Callers, pc'[c] # "write",
             \A d \in Callers \ {c} : pc'[d] = pc[d], Inside(c)
      PROVE  \A d \in Callers : pc'[d] # "write"
  BY <1>2, <1>3 DEF Inside
<1>4. ASSUME NEW c \in Callers, Begin(c) \/ Acquire(c) \/ LockTimeout(c)
                                \/ ReadTemps(c) \/ ReadTempsFails(c)
      PROVE  WriteInv' /\ FileMatchesBmc'
  BY <1>1, <1>4
     DEF Begin, Acquire, LockTimeout, ReadTemps, ReadTempsFails, Leave, TypeOK
<1>5. ASSUME NEW c \in Callers, Decide(c)
      PROVE  WriteInv' /\ FileMatchesBmc'
  <2>1. Inside(c) /\ UNCHANGED <<policy, file, bmc, untold>> /\ pc[c] # "write"
    BY <1>5 DEF Decide, Inside
  <2>2. CASE Leave(c)
    BY <1>1, <2>1, <2>2 DEF Leave, TypeOK
  <2>3. CASE ~Leave(c)
    <3>1. PICK shown :
             /\ Plan(max[c], shown) # <<>>
             /\ todo' = [todo EXCEPT ![c] = Plan(max[c], shown)]
             /\ pc' = [pc EXCEPT ![c] = "write"]
      BY <1>5, <2>3 DEF Decide
    <3>2. Plan(max[c], shown) \in Plans
      BY <3>1, PlanIsOne
    <3>3. todo'[c] = Plan(max[c], shown) /\ pc'[c] = "write"
      BY <3>1 DEF TypeOK
    <3>4. /\ todo'[c] \in Seq(Command) /\ Len(todo'[c]) \in 1 .. 4
          /\ todo'[c] \in Plans'
      BY <1>13, <2>1, <3>2, <3>3, PlanShape DEF TypeOK
    <3>5. Rest(c, todo[c], 0)' /\ Done(todo[c], 0)'
      BY <3>1, <3>3, <3>4 DEF Rest, RestOf, Done
    <3>6. \A d \in Callers \ {c} : pc'[d] # "write"
      BY <1>2, <2>1, <3>1 DEF Inside, TypeOK
    <3> QED
      BY <3>3, <3>4, <3>5, <3>6 DEF WriteInv, FileMatchesBmc
  <2> QED
    BY <2>2, <2>3
<1>6. ASSUME NEW c \in Callers, Write(c)
      PROVE  WriteInv' /\ FileMatchesBmc'
  <2>1. Inside(c) /\ pc[c] = "write"
    BY <1>6 DEF Write, Inside
  <2>2. CASE Head(todo[c]).part = "file"
    <3>1. Leave(c) /\ UNCHANGED untold
      BY <1>6, <2>2 DEF Write
    <3>2. \A d \in Callers : pc'[d] # "write"
      BY <1>3, <2>1, <3>1 DEF Leave, TypeOK
    <3> QED
      BY <1>6, <2>2, <3>1, <3>2, FileStep DEF WriteInv, FileMatchesBmc
  <2>3. CASE Head(todo[c]).part # "file"
    <3>1. pc' = pc /\ UNCHANGED policy
      BY <1>6, <2>3 DEF Write
    <3>2. PICK p \in Plans, n \in 0 .. 3 :
             Rest(c, p, n)' /\ (~untold' => Done(p, n)')
      BY <1>6, <2>3, WriteStep
    <3>3. p \in Plans'
      BY <1>13, <3>1
    <3>4. \A d \in Callers \ {c} : pc'[d] # "write"
      BY <1>2, <2>1, <3>1 DEF Inside
    <3> QED
      BY <2>1, <3>1, <3>2, <3>3, <3>4 DEF WriteInv, FileMatchesBmc
  <2> QED
    BY <2>2, <2>3
\* a step that loses what was told
<1>7. ASSUME NEW c \in Callers, WriteFails(c)
      PROVE  WriteInv' /\ FileMatchesBmc'
  <2>1. Inside(c) /\ pc[c] = "write" /\ untold' /\ UNCHANGED policy
    BY <1>7 DEF WriteFails, Inside
  <2>2. CASE Leave(c)
    <3>1. \A d \in Callers : pc'[d] # "write"
      BY <1>3, <2>1, <2>2 DEF Leave, TypeOK
    <3> QED
      BY <2>1, <3>1 DEF WriteInv, FileMatchesBmc
  <2>3. CASE ~Leave(c)
    <3>1. pc' = pc /\ todo' = [todo EXCEPT ![c] = Tail(@)]
      BY <1>7, <2>3 DEF WriteFails
    <3>2. PICK p \in Plans, n \in 0 .. 3 : Rest(c, p, n)
      BY <2>1 DEF WriteInv
    <3>3. Rest(c, p, n + 1)' /\ n + 1 \in 0 .. 3
      <4>1. Head(todo[c]).part # "file"
        BY <1>7 DEF WriteFails
      <4> QED
        BY <2>1, <3>1, <3>2, <4>1, SkipStep
    <3>4. p \in Plans'
      BY <1>13, <2>1
    <3>5. \A d \in Callers \ {c} : pc'[d] # "write"
      BY <1>2, <2>1, <3>1 DEF Inside
    <3> QED
      BY <2>1, <3>1, <3>3, <3>4, <3>5 DEF WriteInv, FileMatchesBmc
  <2> QED
    BY <2>2, <2>3
<1>8. ASSUME NEW c \in Callers, Killed(c)
      PROVE  WriteInv' /\ FileMatchesBmc'
  <2>1. CASE pc[c] = "write"
    <3>1. untold' /\ Inside(c)
      BY <1>8, <2>1 DEF Killed, Inside
    <3>2. \A d \in Callers : pc'[d] # "write"
      BY <1>3, <1>8, <3>1 DEF Killed, TypeOK
    <3> QED
      BY <3>1, <3>2 DEF WriteInv, FileMatchesBmc
  <2>2. CASE pc[c] # "write"
    BY <1>1, <1>8, <2>2 DEF Killed, TypeOK
  <2> QED
    BY <2>1, <2>2
<1>9. CASE Temperature
  BY <1>1, <1>9 DEF Temperature
<1>10. CASE Reset
  <2>1. untold' /\ UNCHANGED <<policy, pc, todo>>
    BY <1>10 DEF Reset
  <2> QED
    BY <1>13, <2>1 DEF WriteInv, FileMatchesBmc, Rest, RestOf
<1>11. CASE Reboot
  BY <1>11 DEF Reboot, WriteInv, FileMatchesBmc
<1>12. CASE UNCHANGED vars
  BY <1>1, <1>12 DEF vars
<1> QED
  BY <1>4, <1>5, <1>6, <1>7, <1>8, <1>9, <1>10, <1>11, <1>12 DEF Next, Check

LEMMA FanHolds == Spec => []FanInv
<1>1. Init => FanInv
  <2> SUFFICES ASSUME Init PROVE FanInv
    OBVIOUS
  <2>1. <<>> \in Seq(Command)
    OBVIOUS
  <2>2. Board \in [mode: {1, 2}, zone0: 0..100, zone1: 0..100] /\ Board.mode = 2
    BY DEF Board
  <2>3. TypeOK
    <3>1. bmc \in [mode: {1, 2}, zone0: 0..100, zone1: 0..100]
      BY <2>2 DEF Init
    <3>2. max \in [Callers -> {0} \union Temps] /\ todo \in [Callers -> Seq(Command)]
      BY <2>1 DEF Init
    <3>3. upsets \in 0 .. MaxUpsets
      BY FaultsAssumption DEF Init
    <3> QED
      BY <3>1, <3>2, <3>3 DEF Init, TypeOK
  <2>4. LockInv /\ WriteInv
    BY CallersAssumption DEF Init, LockInv, WriteInv, Inside
  <2>5. Matches
    BY <2>2 DEF Init, Matches, Mode
  <2> QED
    BY <2>3, <2>4, <2>5 DEF FanInv, FileMatchesBmc
<1>2. FanInv /\ [Next]_vars => FanInv'
  BY TypeStep, LockStep, MatchStep DEF FanInv
<1> QED
  BY <1>1, <1>2, PTL DEF Spec

-----------------------------------------------------------------------------
(* The temperatures, registers, mode file and commands keep their types.   *)
THEOREM TypeCorrect == Spec => []TypeOK
<1>1. FanInv => TypeOK
  BY DEF FanInv
<1> QED
  BY <1>1, FanHolds, PTL

(* Daemon and hooks write the same registers, one ipmitool call at a time  *)
(* (wiplash-gpu-fan-guard): between checks the registers are what the mode *)
(* file says, unless the last thing told was lost.                         *)
THEOREM ModeFileIsTrue == Spec => []FileMatchesBmc
<1>1. FanInv => FileMatchesBmc
  BY DEF FanInv
<1> QED
  BY <1>1, FanHolds, PTL
-----------------------------------------------------------------------------
\* The supervisor and its unit

\* main() runs only while its unit is active
SupervisorInv == sup # "none" => unit = "active"

\* a stop that must not lead to a restart has left the status 0
StatusInv ==
    unit = "cleanup" /\ why \in {"heat", "blind", "stop"} => status = 0

ThermalInv ==
    /\ UnitTypeOK
    /\ SupervisorInv
    /\ StatusInv
    /\ NoRestartAfterHeat
    /\ NoUnwatchedEngine

-----------------------------------------------------------------------------
LEMMA InitThermal == UnitInit => ThermalInv
BY DEF UnitInit, ThermalInv, UnitTypeOK, SupervisorInv, StatusInv,
       NoRestartAfterHeat, NoUnwatchedEngine

\* However main() ends, its end keeps the invariant if its code is right.
LEMMA EndKeepsInv ==
    ASSUME ThermalInv,
           NEW code \in {0, 1},
           NEW reason \in {"heat", "blind", "uncaught", "child", "stop"},
           reason \in {"heat", "blind", "stop"} => code = 0,
           Ends(code, reason),
           child' \in {child, "failed"}, UNCHANGED <<engine, hot>>
    PROVE  ThermalInv'
BY DEF ThermalInv, UnitTypeOK, SupervisorInv, StatusInv,
       NoRestartAfterHeat, NoUnwatchedEngine, Ends

\* Every step keeps the invariant.
LEMMA StepThermal == ThermalInv /\ [UnitNext]_unitVars => ThermalInv'
<1> SUFFICES ASSUME ThermalInv, [UnitNext]_unitVars PROVE ThermalInv'
  OBVIOUS
<1> USE DEF ThermalInv, UnitTypeOK, SupervisorInv, StatusInv,
            NoRestartAfterHeat, NoUnwatchedEngine
<1>1. CASE SupervisorStep
  <2>1. CASE StartupRead
    <3>1. CASE Ends(0, "heat") /\ UNCHANGED <<child, engine, hot>>
      BY <3>1, EndKeepsInv
    <3>2. CASE Ends(0, "blind") /\ UNCHANGED <<child, engine, hot>>
      BY <3>2, EndKeepsInv
    <3>3. CASE Ends(1, "uncaught") /\ UNCHANGED <<child, engine, hot>>
      BY <3>3, EndKeepsInv
    <3>4. CASE /\ sup = "startup" /\ child' = "running" /\ engine' = TRUE
               /\ sup' = "poll" /\ UNCHANGED <<unit, status, why, hot>>
      BY <3>4
    <3> QED
      BY <2>1, <3>1, <3>2, <3>3, <3>4 DEF StartupRead
  <2>2. CASE Poll
    <3>1. CASE Ends(0, "child") /\ UNCHANGED <<child, engine, hot>>
      BY <3>1, EndKeepsInv
    <3>2. CASE Ends(1, "child") /\ UNCHANGED <<child, engine, hot>>
      BY <3>2, EndKeepsInv
    <3>3. CASE /\ sup = "poll" /\ sup' = "read"
               /\ UNCHANGED <<unit, status, why, child, engine, hot>>
      BY <3>3
    <3> QED
      BY <2>2, <3>1, <3>2, <3>3 DEF Poll
  <2>3. CASE Read \/ ReadFails
    BY <2>3 DEF Read, ReadFails
  <2>4. CASE ReadRaises
    BY <2>4, EndKeepsInv DEF ReadRaises
  <2>5. CASE SendTerm
    BY <2>5 DEF SendTerm
  <2>6. CASE Stopped
    BY <2>6, EndKeepsInv DEF Stopped
  <2>7. CASE Kill
    BY <2>7, EndKeepsInv DEF Kill
  <2> QED
    BY <1>1, <2>1, <2>2, <2>3, <2>4, <2>5, <2>6, <2>7 DEF SupervisorStep
<1>2. CASE Start \/ Restart
  BY <1>2 DEF Start, Restart
<1>3. CASE Cleanup
  BY <1>3 DEF Cleanup
<1>4. CASE Stop
  BY <1>4, EndKeepsInv DEF Stop
<1>5. CASE ChildEnds
  <2>1. UNCHANGED <<unit, status, sup, hot, why>>
    BY <1>5 DEF ChildEnds
  <2>2. child' \in {"exited", "failed"}
    BY <1>5 DEF ChildEnds
  <2>3. engine' = engine \/ engine' = FALSE
    BY <1>5 DEF ChildEnds
  <2>4. CASE engine' = engine
    BY <2>1, <2>2, <2>4
  <2>5. CASE engine' = FALSE
    BY <2>1, <2>2, <2>5
  <2> QED
    BY <2>3, <2>4, <2>5
<1>6. CASE CardTemperature
  BY <1>6 DEF CardTemperature
<1>7. CASE UNCHANGED unitVars
  BY <1>7 DEF unitVars
<1> QED
  BY <1>1, <1>2, <1>3, <1>4, <1>5, <1>6, <1>7 DEF UnitNext

LEMMA ThermalHolds == UnitSpec => []ThermalInv
BY InitThermal, StepThermal, PTL DEF UnitSpec

-----------------------------------------------------------------------------
(* The variables keep their types: in particular main() never returns a    *)
(* status that systemd would read as a signal.                             *)
THEOREM UnitTypeCorrect == UnitSpec => []UnitTypeOK
<1>1. ThermalInv => UnitTypeOK
  BY DEF ThermalInv
<1> QED
  BY <1>1, ThermalHolds, PTL

(* systemd restarts no unit that main() or an operator stopped on purpose, *)
(* whatever the launcher did meanwhile.                                    *)
THEOREM HeatIsFinal == UnitSpec => []NoRestartAfterHeat
<1>1. ThermalInv => NoRestartAfterHeat
  BY DEF ThermalInv
<1> QED
  BY <1>1, ThermalHolds, PTL

(* No engine outlives its unit: the control-group kill is what makes up    *)
(* for a supervisor that kills the launcher alone, or dies.                *)
THEOREM EngineIsWatched == UnitSpec => []NoUnwatchedEngine
<1>1. ThermalInv => NoUnwatchedEngine
  BY DEF ThermalInv
<1> QED
  BY <1>1, ThermalHolds, PTL
=============================================================================
