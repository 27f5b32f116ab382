--------------------------- MODULE MarathonProofs ---------------------------
(***************************************************************************)
(* Proofs about Marathon for every set of processes, whatever commands     *)
(* each of them runs, and every sequence of tasks.  MarathonInv, the       *)
(* inductive invariant, says of each process what the file lock gives it:  *)
(* the state it loaded is the state on disk until it saves its own.        *)
(***************************************************************************)
EXTENDS Marathon, WellFoundedInduction, TLAPS

\* the stages at which only the holder of the lock can be
Locked == {"read", "unlink", "load", "turn", "started", "wait", "marker", "save"}

Holding == {"prepare", "host-run"}

\* t is a task that comes after completed ones only
Reached(t) ==
    \E i \in 1 .. Len(TaskOrder) :
       /\ TaskOrder[i] = t
       /\ \A j \in 1 .. i - 1 : TaskOrder[j] \in completed

\* where a process may be, with which lock and which turn
PlaceInv(p) ==
    /\ pc[p] = "idle" <=> cmd[p] = "none"
    /\ cmd[p] \in Holding => lock = p
    /\ pc[p] \in Locked => cmd[p] \in Holding
    /\ turn[p] = "running" => pc[p] \in {"started", "wait", "hung"}
    /\ turn[p] # "none" =>
          /\ pc[p] \in {"started", "wait", "marker", "save", "hung"}
          /\ cmd[p] \in Holding

\* it adds the next task, which has passed: the one it had a turn for, if any
Finishes(p) ==
    \E t \in Tasks \ completed :
       /\ Reached(t) /\ marker[t] = "pass"
       /\ known[p] = completed \cup {t}
       /\ turn[p] # "none" => task[p] = t

\* what it knows, between the load of the state and its last save
KnowledgeInv(p) ==
    /\ pc[p] \in {"turn", "started", "wait", "marker"} =>
          /\ task[p] \in Tasks \ completed /\ Reached(task[p])
          /\ known[p] = completed
    /\ pc[p] = "hung" /\ turn[p] # "none" =>
          task[p] \in Tasks \ completed /\ Reached(task[p])
    /\ pc[p] = "turn" => marker[task[p]] # "pass"
    /\ pc[p] = "save" => known[p] = completed \/ Finishes(p)

MarathonInv ==
    /\ TypeOK
    /\ \A p \in Procs : PlaceInv(p)
    /\ \A p \in Procs : KnowledgeInv(p)
    /\ CompletedIsEarned

-----------------------------------------------------------------------------
\* select_task returns the first task that is not completed.
LEMMA SelectedIsFirst ==
    ASSUME Left # {}
    PROVE  \E i \in Left : Selected = TaskOrder[i] /\ \A j \in Left : i <= j
<1>1. Left \subseteq Nat
  BY TasksAssumption DEF Left
<1> DEFINE Less == {p \in Nat \X Nat : p[1] < p[2]}
<1>2. IsWellFoundedOn(Less, Nat)
  BY NatLessThanWellFounded DEF OpToRel
<1> HIDE DEF Less
<1>3. PICK i \in Left : \A j \in Left : <<j, i>> \notin Less
  BY <1>1, <1>2, WFMin
<1>4. ASSUME NEW j \in Left PROVE i <= j
  <2>1. i \in Nat /\ j \in Nat
    BY <1>1
  <2>2. j < i => <<j, i>> \in Less
    BY <2>1 DEF Less
  <2> QED
    BY <1>3, <2>1, <2>2
<1> QED
  BY <1>4 DEF Selected

\* Hence all tasks before it are completed, and it is not.
LEMMA SelectedIsReached ==
    ASSUME Left # {}
    PROVE  Selected \in Tasks \ completed /\ Reached(Selected)
<1>1. PICK i \in Left : Selected = TaskOrder[i] /\ \A j \in Left : i <= j
  BY SelectedIsFirst
<1>2. i \in 1 .. Len(TaskOrder) /\ TaskOrder[i] \notin completed
  BY DEF Left
<1>3. Selected \in Tasks
  BY <1>1, <1>2 DEF Tasks
<1>4. Len(TaskOrder) \in Nat
  BY TasksAssumption
<1>5. ASSUME NEW j \in 1 .. i - 1 PROVE TaskOrder[j] \in completed
  BY <1>1, <1>2, <1>4 DEF Left
<1> QED
  BY <1>1, <1>2, <1>3, <1>5 DEF Reached

-----------------------------------------------------------------------------
LEMMA TargetType == ASSUME NEW p PROVE Target(p) \in Files
BY DEF Target, Files

\* The end of a process leaves types to what it resets.
LEMMA ExitsType ==
    ASSUME TypeOK, NEW p \in Procs, Exits(p)
    PROVE  /\ lock' \in Procs \cup {NoProc}
           /\ cmd' \in [Procs -> CommandNames \cup {"none"}]
           /\ pc' \in [Procs -> Stages]
           /\ known' \in [Procs -> SUBSET Tasks]
           /\ task' \in [Procs -> Tasks \cup {NoTask}]
           /\ turn' \in [Procs -> {"none", "running", "ended"}]
BY DEF TypeOK, Exits, Goto, Stages

LEMMA LeavesType ==
    ASSUME TypeOK, NEW p \in Procs, Leaves(p)
    PROVE  TypeOK'
BY ExitsType DEF TypeOK, Leaves

\* No step leaves the types of the variables.
LEMMA TypeStep == MarathonInv /\ [Next]_vars => TypeOK'
<1> SUFFICES ASSUME MarathonInv, [Next]_vars PROVE TypeOK'
  OBVIOUS
<1> TypeOK
  BY DEF MarathonInv
<1> USE DEF TypeOK, Stages, fileVars, stateVars
<1>1. CASE HostRunLocked
  BY <1>1 DEF HostRunLocked
<1>2. ASSUME NEW p \in Procs, Start(p) PROVE TypeOK'
  <2> USE CommandsAssumption DEF Begins, Goto, CommandNames
  <2>1. CASE Enqueue(p)
    BY <2>1 DEF Enqueue
  <2>2. CASE Status(p)
    BY <2>2 DEF Status
  <2>3. CASE Prepare(p)
    BY <2>3 DEF Prepare
  <2>4. CASE HostRun(p)
    BY <2>4 DEF HostRun
  <2> QED
    BY <1>2, <2>1, <2>2, <2>3, <2>4 DEF Start
<1>3. ASSUME NEW p \in Procs, Proceed(p) PROVE TypeOK'
  <2>1. CASE Open(p)
    BY <2>1, TargetType DEF Open, Goto
  <2>2. CASE Write(p)
    BY <2>2, TargetType DEF Write, Goto
  <2>3. CASE Replace(p)
    <3>1. /\ file' \in [Files -> {"absent", "torn", "whole"}]
          /\ temp' \in [Files -> {"absent", "torn", "whole"}]
          /\ handle' \in [Procs -> {"none", "temp", "file"}]
      BY <2>3, TargetType DEF Replace, Renamed
    <3>2. due' \in BOOLEAN
      BY <2>3 DEF Replace
    <3>3. CASE Exits(p)
      BY <2>3, <3>1, <3>2, <3>3, ExitsType DEF Replace
    <3>4. CASE Goto(p, "load") /\ UNCHANGED <<lock, cmd, known, task, turn>>
      BY <2>3, <3>1, <3>2, <3>4 DEF Replace, Goto
    <3> QED
      BY <2>3, <3>3, <3>4 DEF Replace
  <2>4. CASE ReplaceFails(p) \/ ReadNothing(p) \/ QuotaRefused(p)
             \/ LoadRefused(p) \/ TurnRefused(p) \/ WaitExpires(p)
    BY <2>4, LeavesType DEF ReplaceFails, ReadNothing, QuotaRefused,
       LoadRefused, TurnRefused, WaitExpires
  <2>5. CASE Read(p) \/ QuotaGood(p) \/ TurnCompletes(p)
    BY <2>5 DEF Read, QuotaGood, TurnCompletes, Goto
  <2>6. CASE Unlink(p)
    BY <2>6 DEF Unlink, Goto, Files
  <2>7. CASE LoadPrepare(p)
    BY <2>7 DEF LoadPrepare, Loads, Goto
  <2>8. CASE LoadPassed(p)
    BY <2>8, SelectedIsReached DEF LoadPassed, Loads, Goto
  <2>9. CASE LoadTask(p)
    BY <2>9, SelectedIsReached DEF LoadTask, Loads, Goto
  <2>10. CASE StartTurn(p)
    BY <2>10 DEF StartTurn, Goto
  <2>11. CASE SaveStarted(p)
    BY <2>11 DEF SaveStarted, Goto
  <2>12. CASE ReadMarker(p)
    <3>1. task[p] \in Tasks
      BY <2>12 DEF ReadMarker, MarathonInv, KnowledgeInv
    <3> QED
      BY <2>12, <3>1 DEF ReadMarker, Goto
  <2>13. CASE Save(p)
    BY <2>13, ExitsType DEF Save
  <2> QED
    BY <1>3, <2>1, <2>2, <2>3, <2>4, <2>5, <2>6, <2>7, <2>8, <2>9, <2>10,
       <2>11, <2>12, <2>13 DEF Proceed
<1>4. ASSUME NEW p \in Procs, Killed(p) PROVE TypeOK'
  BY <1>4, ExitsType DEF Killed
<1>5. ASSUME NEW p \in Procs, AgentWrites(p) PROVE TypeOK'
  <2>1. PICK s \in {"fail", "pass"} : marker' = [marker EXCEPT ![task[p]] = s]
    BY <1>5 DEF AgentWrites
  <2>2. marker' \in [Tasks -> {"none", "fail", "pass"}]
    BY <2>1
  <2> QED
    BY <1>5, <2>2 DEF AgentWrites
<1>6. ASSUME NEW p \in Procs, AgentEnds(p) PROVE TypeOK'
  BY <1>6 DEF AgentEnds
<1>7. ASSUME NEW p \in Procs, Hangs(p) \/ HangEnds(p) PROVE TypeOK'
  <2>1. CASE Hangs(p)
    BY <2>1 DEF Hangs, Goto
  <2>2. CASE HangEnds(p)
    BY <2>2, LeavesType DEF HangEnds
  <2> QED
    BY <1>7, <2>1, <2>2
<1>8. CASE UNCHANGED vars
  BY <1>8 DEF vars
<1> QED
  BY <1>1, <1>2, <1>3, <1>4, <1>5, <1>6, <1>7, <1>8 DEF Next

-----------------------------------------------------------------------------
ProcessStep(p) ==
    \/ Start(p)
    \/ Proceed(p)
    \/ Hangs(p)
    \/ HangEnds(p)
    \/ Killed(p)
    \/ AgentWrites(p)
    \/ AgentEnds(p)

\* What a process's step leaves alone of another process, and that it changes
\* the shared state and the markers only under the lock.
Frame(p, q) ==
    /\ cmd'[q] = cmd[q] /\ pc'[q] = pc[q] /\ turn'[q] = turn[q]
    /\ known'[q] = known[q] /\ task'[q] = task[q]
    /\ lock = q => lock' = q
    /\ lock = p \/ UNCHANGED <<completed, marker>>

LEMMA ExitsFrame ==
    ASSUME TypeOK, NEW p \in Procs, NEW q \in Procs, p # q, Exits(p),
           lock = p \/ UNCHANGED <<completed, marker>>
    PROVE  Frame(p, q)
BY DEF TypeOK, Exits, Goto, Frame

LEMMA LeavesFrame ==
    ASSUME TypeOK, NEW p \in Procs, NEW q \in Procs, p # q, Leaves(p)
    PROVE  Frame(p, q)
BY ExitsFrame DEF Leaves

LEMMA OthersFrame ==
    ASSUME MarathonInv, NEW p \in Procs, NEW q \in Procs, p # q, ProcessStep(p)
    PROVE  Frame(p, q)
<1> TypeOK /\ PlaceInv(p)
  BY DEF MarathonInv
<1> USE DEF TypeOK, fileVars, stateVars
<1>1. CASE Start(p)
  BY <1>1, CommandsAssumption
     DEF Start, Enqueue, Status, Prepare, HostRun, Begins, Goto, Frame
<1>2. CASE Proceed(p)
  <2>1. CASE Open(p) \/ Write(p) \/ Read(p) \/ Unlink(p) \/ QuotaGood(p)
             \/ TurnCompletes(p)
    BY <2>1 DEF Open, Write, Read, Unlink, QuotaGood, TurnCompletes, Goto, Frame
  <2>2. CASE Replace(p)
    BY <2>2, ExitsFrame DEF Replace, Goto, Frame
  <2>3. CASE ReplaceFails(p) \/ ReadNothing(p) \/ QuotaRefused(p)
             \/ LoadRefused(p) \/ TurnRefused(p) \/ WaitExpires(p)
    BY <2>3, LeavesFrame DEF ReplaceFails, ReadNothing, QuotaRefused,
       LoadRefused, TurnRefused, WaitExpires
  <2>4. CASE LoadPrepare(p) \/ LoadPassed(p) \/ LoadTask(p)
    BY <2>4 DEF LoadPrepare, LoadPassed, LoadTask, Loads, Goto, Frame
  <2>5. CASE StartTurn(p) \/ ReadMarker(p)
    BY <2>5 DEF StartTurn, ReadMarker, Goto, Frame
  <2>6. CASE SaveStarted(p) \/ Save(p)
    <3>1. lock = p
      BY <2>6 DEF SaveStarted, Save, PlaceInv, Locked
    <3> QED
      BY <2>6, <3>1, ExitsFrame DEF SaveStarted, Save, Goto, Frame
  <2> QED
    BY <1>2, <2>1, <2>2, <2>3, <2>4, <2>5, <2>6 DEF Proceed
<1>3. CASE Killed(p)
  BY <1>3, ExitsFrame DEF Killed
<1>4. CASE AgentWrites(p)
  <2>1. lock = p
    BY <1>4 DEF AgentWrites, PlaceInv
  <2> QED
    BY <1>4, <2>1 DEF AgentWrites, Frame
<1>5. CASE AgentEnds(p)
  BY <1>5 DEF AgentEnds, Frame
<1>6. CASE Hangs(p)
  BY <1>6 DEF Hangs, Goto, Frame
<1>7. CASE HangEnds(p)
  BY <1>7, LeavesFrame DEF HangEnds
<1> QED
  BY <1>1, <1>2, <1>3, <1>4, <1>5, <1>6, <1>7 DEF ProcessStep

\* What is left alone keeps its place and what it knows.
LEMMA FramePlace ==
    ASSUME NEW p, NEW q, PlaceInv(q), Frame(p, q)
    PROVE  PlaceInv(q)'
BY DEF PlaceInv, Frame

LEMMA FrameKnowledge ==
    ASSUME NEW p \in Procs, NEW q \in Procs, p # q,
           PlaceInv(q), KnowledgeInv(q), Frame(p, q)
    PROVE  KnowledgeInv(q)'
<1>1. CASE lock = p
  <2>1. pc[q] \notin Locked /\ turn[q] = "none"
    BY <1>1 DEF PlaceInv
  <2> QED
    BY <2>1 DEF KnowledgeInv, Frame, Locked
<1>2. CASE UNCHANGED <<completed, marker>>
  BY <1>2 DEF KnowledgeInv, Finishes, Frame, Reached
<1> QED
  BY <1>1, <1>2 DEF Frame

-----------------------------------------------------------------------------
LEMMA ExitsOwn ==
    ASSUME TypeOK, NEW p \in Procs, Exits(p)
    PROVE  PlaceInv(p)' /\ KnowledgeInv(p)'
BY DEF TypeOK, Exits, Goto, PlaceInv, KnowledgeInv, Locked, Holding

\* The process itself is where it may be, and holds what it must.
LEMMA OwnPlace ==
    ASSUME MarathonInv, NEW p \in Procs, ProcessStep(p)
    PROVE  PlaceInv(p)'
<1> TypeOK /\ PlaceInv(p)
  BY DEF MarathonInv
<1> USE DEF TypeOK, fileVars, stateVars, PlaceInv, Locked, Holding
<1>1. CASE Start(p)
  BY <1>1 DEF Start, Enqueue, Status, Prepare, HostRun, Begins, Goto
<1>2. CASE Proceed(p)
  <2>1. CASE Open(p) \/ Write(p) \/ Read(p) \/ Unlink(p) \/ QuotaGood(p)
             \/ TurnCompletes(p)
    BY <2>1 DEF Open, Write, Read, Unlink, QuotaGood, TurnCompletes, Goto
  <2>2. CASE Replace(p)
    <3>1. CASE Exits(p)
      BY <3>1, ExitsOwn
    <3>2. CASE /\ cmd[p] \notin {"enqueue", "status"}
               /\ Goto(p, "load") /\ UNCHANGED <<lock, cmd, known, task, turn>>
      <4>1. cmd[p] \in Holding
        BY <2>2, <3>2 DEF Replace, CommandNames
      <4> QED
        BY <2>2, <3>2, <4>1 DEF Replace, Goto
    <3> QED
      BY <2>2, <3>1, <3>2 DEF Replace
  <2>3. CASE ReplaceFails(p) \/ ReadNothing(p) \/ QuotaRefused(p)
             \/ LoadRefused(p) \/ TurnRefused(p) \/ WaitExpires(p) \/ Save(p)
    BY <2>3, ExitsOwn DEF ReplaceFails, ReadNothing, QuotaRefused,
       LoadRefused, TurnRefused, WaitExpires, Save, Leaves
  <2>4. CASE LoadPrepare(p) \/ LoadPassed(p) \/ LoadTask(p)
    BY <2>4 DEF LoadPrepare, LoadPassed, LoadTask, Loads, Goto
  <2>5. CASE StartTurn(p) \/ SaveStarted(p) \/ ReadMarker(p)
    BY <2>5 DEF StartTurn, SaveStarted, ReadMarker, Goto
  <2> QED
    BY <1>2, <2>1, <2>2, <2>3, <2>4, <2>5 DEF Proceed
<1>3. CASE Killed(p)
  BY <1>3, ExitsOwn DEF Killed
<1>4. CASE AgentWrites(p) \/ AgentEnds(p) \/ Hangs(p)
  BY <1>4 DEF AgentWrites, AgentEnds, Hangs, Calls, Goto
<1>5. CASE HangEnds(p)
  BY <1>5, ExitsOwn DEF HangEnds, Leaves
<1> QED
  BY <1>1, <1>2, <1>3, <1>4, <1>5 DEF ProcessStep

\* From the load on it knows the state on disk, and it saves only what has
\* passed.
LEMMA OwnKnowledge ==
    ASSUME MarathonInv, NEW p \in Procs, ProcessStep(p)
    PROVE  KnowledgeInv(p)'
<1> TypeOK /\ PlaceInv(p) /\ KnowledgeInv(p) /\ CompletedIsEarned
  BY DEF MarathonInv
<1> USE DEF TypeOK, fileVars, stateVars, KnowledgeInv
<1>1. CASE Start(p)
  BY <1>1 DEF Start, Enqueue, Status, Prepare, HostRun, Begins, Goto
<1>2. CASE Proceed(p)
  <2>1. CASE Open(p) \/ Write(p) \/ Read(p) \/ Unlink(p) \/ QuotaGood(p)
    BY <2>1 DEF Open, Write, Read, Unlink, QuotaGood, Goto
  <2>2. CASE Replace(p)
    BY <2>2, ExitsOwn DEF Replace, Goto
  <2>3. CASE ReplaceFails(p) \/ ReadNothing(p) \/ QuotaRefused(p)
             \/ LoadRefused(p) \/ TurnRefused(p) \/ WaitExpires(p) \/ Save(p)
    BY <2>3, ExitsOwn DEF ReplaceFails, ReadNothing, QuotaRefused,
       LoadRefused, TurnRefused, WaitExpires, Save, Leaves
  <2>4. CASE LoadPrepare(p)
    BY <2>4 DEF LoadPrepare, Loads, Goto
  <2>5. CASE LoadPassed(p)
    <3>1. /\ pc'[p] = "save" /\ known'[p] = completed \cup {Selected}
          /\ marker[Selected] = "pass"
          /\ UNCHANGED <<completed, marker, task, turn>>
      BY <2>5 DEF LoadPassed, Loads, Goto
    <3>2. Selected \in Tasks \ completed /\ Reached(Selected)
      BY <2>5, SelectedIsReached DEF LoadPassed
    <3>3. turn[p] = "none"
      BY <2>5 DEF LoadPassed, PlaceInv
    <3>4. Finishes(p)'
      BY <3>1, <3>2, <3>3 DEF Finishes, Reached
    <3> QED
      BY <3>1, <3>4
  <2>6. CASE LoadTask(p)
    BY <2>6, SelectedIsReached DEF LoadTask, Loads, Goto, Reached
  <2>7. CASE StartTurn(p) \/ SaveStarted(p) \/ TurnCompletes(p)
    BY <2>7 DEF StartTurn, SaveStarted, TurnCompletes, Goto, Reached
  <2>8. CASE ReadMarker(p)
    <3>1. /\ pc'[p] = "save" /\ UNCHANGED <<completed, marker, task, turn>>
          /\ known'[p] = IF marker[task[p]] = "pass"
                        THEN completed \cup {task[p]} ELSE completed
      BY <2>8 DEF ReadMarker, Goto
    <3>2. task[p] \in Tasks \ completed /\ Reached(task[p])
      BY <2>8 DEF ReadMarker
    <3>3. marker[task[p]] = "pass" => Finishes(p)'
      BY <3>1, <3>2 DEF Finishes, Reached
    <3> QED
      BY <3>1, <3>3
  <2> QED
    BY <1>2, <2>1, <2>2, <2>3, <2>4, <2>5, <2>6, <2>7, <2>8 DEF Proceed
<1>3. CASE Killed(p)
  BY <1>3, ExitsOwn DEF Killed
<1>4. CASE AgentWrites(p)
  BY <1>4 DEF AgentWrites, PlaceInv, Reached
<1>5. CASE AgentEnds(p)
  BY <1>5 DEF AgentEnds, PlaceInv, Reached
<1>6. CASE Hangs(p)
  BY <1>6 DEF Hangs, Calls, Goto, PlaceInv, Reached
<1>7. CASE HangEnds(p)
  BY <1>7, ExitsOwn DEF HangEnds, Leaves
<1> QED
  BY <1>1, <1>2, <1>3, <1>4, <1>5, <1>6, <1>7 DEF ProcessStep

-----------------------------------------------------------------------------
\* What a step of a process does to the shared state.
Saves(p) ==
    \/ UNCHANGED <<completed, marker>>
    \/ /\ pc[p] = "save"
       /\ completed' = known[p] /\ UNCHANGED marker
    \/ /\ turn[p] = "running"
       /\ UNCHANGED completed
       /\ \E s \in {"fail", "pass"} : marker' = [marker EXCEPT ![task[p]] = s]

LEMMA ProcessSaves ==
    ASSUME MarathonInv, NEW p \in Procs, ProcessStep(p)
    PROVE  Saves(p)
<1> KnowledgeInv(p)
  BY DEF MarathonInv
<1> USE DEF fileVars, stateVars, Saves
<1>1. CASE Start(p)
  BY <1>1 DEF Start, Enqueue, Status, Prepare, HostRun, Begins
<1>2. CASE Proceed(p)
  <2>1. CASE Open(p) \/ Write(p) \/ Read(p) \/ Unlink(p) \/ QuotaGood(p)
             \/ TurnCompletes(p) \/ Replace(p)
    BY <2>1 DEF Open, Write, Read, Unlink, QuotaGood, TurnCompletes, Replace
  <2>2. CASE ReplaceFails(p) \/ ReadNothing(p) \/ QuotaRefused(p)
             \/ LoadRefused(p) \/ TurnRefused(p) \/ WaitExpires(p)
    BY <2>2 DEF ReplaceFails, ReadNothing, QuotaRefused, LoadRefused,
       TurnRefused, WaitExpires, Leaves
  <2>3. CASE LoadPrepare(p) \/ LoadPassed(p) \/ LoadTask(p)
    BY <2>3 DEF LoadPrepare, LoadPassed, LoadTask, Loads
  <2>4. CASE StartTurn(p) \/ ReadMarker(p) \/ Save(p)
    BY <2>4 DEF StartTurn, ReadMarker, Save
  <2>5. CASE SaveStarted(p)
    BY <2>5 DEF SaveStarted, KnowledgeInv
  <2> QED
    BY <1>2, <2>1, <2>2, <2>3, <2>4, <2>5 DEF Proceed
<1>3. CASE Killed(p)
  BY <1>3 DEF Killed
<1>4. CASE AgentWrites(p) \/ AgentEnds(p)
  BY <1>4 DEF AgentWrites, AgentEnds
<1>5. CASE Hangs(p) \/ HangEnds(p)
  BY <1>5 DEF Hangs, HangEnds, Leaves
<1> QED
  BY <1>1, <1>2, <1>3, <1>4, <1>5 DEF ProcessStep

\* Every step keeps the invariant.
LEMMA StepMarathon == MarathonInv /\ [Next]_vars => MarathonInv'
<1> SUFFICES ASSUME MarathonInv, [Next]_vars PROVE MarathonInv'
  OBVIOUS
<1> TypeOK /\ CompletedIsEarned
  BY DEF MarathonInv
<1>1. TypeOK'
  BY TypeStep
<1>2. CASE HostRunLocked \/ UNCHANGED vars
  <2>1. UNCHANGED <<lock, cmd, pc, completed, known, task, turn, marker>>
    BY <1>2 DEF HostRunLocked, vars, stateVars
  <2> QED
    BY <1>1, <2>1 DEF MarathonInv, PlaceInv, KnowledgeInv, Finishes, Reached,
       CompletedIsEarned
<1>3. ASSUME NEW p \in Procs, ProcessStep(p) PROVE MarathonInv'
  <2>1. ASSUME NEW q \in Procs PROVE PlaceInv(q)' /\ KnowledgeInv(q)'
    <3>1. CASE q = p
      BY <1>3, <3>1, OwnPlace, OwnKnowledge
    <3>2. CASE q # p
      BY <1>3, <3>2, OthersFrame, FramePlace, FrameKnowledge DEF MarathonInv
    <3> QED
      BY <3>1, <3>2
  <2>2. CompletedIsEarned'
    <3>1. PlaceInv(p) /\ KnowledgeInv(p)
      BY DEF MarathonInv
    <3> QED
      BY <1>3, <3>1, ProcessSaves DEF Saves, CompletedIsEarned, TypeOK,
         PlaceInv, KnowledgeInv, Finishes
  <2> QED
    BY <1>1, <2>1, <2>2 DEF MarathonInv
<1> QED
  BY <1>2, <1>3 DEF Next, ProcessStep

LEMMA InitMarathon == Init => MarathonInv
<1> SUFFICES ASSUME Init PROVE MarathonInv
  OBVIOUS
<1>1. TypeOK
  BY DEF Init, TypeOK, Stages, Files
<1>2. ASSUME NEW p \in Procs PROVE PlaceInv(p) /\ KnowledgeInv(p)
  BY DEF Init, PlaceInv, KnowledgeInv, Locked, Holding
<1>3. CompletedIsEarned
  BY DEF Init, CompletedIsEarned
<1> QED
  BY <1>1, <1>2, <1>3 DEF MarathonInv

LEMMA MarathonHolds == Spec => []MarathonInv
BY InitMarathon, StepMarathon, PTL DEF Spec

-----------------------------------------------------------------------------
(* The variables keep their types: in particular the task of a controller  *)
(* that adds one to its completed ones is one of the sequence.             *)
THEOREM TypeCorrect == Spec => []TypeOK
<1>1. MarathonInv => TypeOK
  BY DEF MarathonInv
<1> QED
  BY <1>1, MarathonHolds, PTL

(* A task that state.json calls completed has a marker that says pass,     *)
(* however many controllers are started, killed and started again.         *)
THEOREM CompletionIsEarned == Spec => []CompletedIsEarned
<1>1. MarathonInv => CompletedIsEarned
  BY DEF MarathonInv
<1> QED
  BY <1>1, MarathonHolds, PTL

(* No save forgets a completed task: under the lock, what a controller     *)
(* loaded is what it extends.                                              *)
THEOREM CompletionLasts == Spec => CompletedGrows
<1>1. MarathonInv /\ [Next]_vars => [completed \subseteq completed']_vars
  <2> SUFFICES ASSUME MarathonInv, Next PROVE completed \subseteq completed'
    OBVIOUS
  <2>1. ASSUME NEW p \in Procs, ProcessStep(p) PROVE completed \subseteq completed'
    BY <2>1, ProcessSaves DEF Saves, MarathonInv, KnowledgeInv, Finishes
  <2>2. CASE HostRunLocked
    BY <2>2 DEF HostRunLocked, stateVars
  <2> QED
    BY <2>1, <2>2 DEF Next, ProcessStep
<1> QED
  BY <1>1, MarathonHolds, PTL DEF Spec, CompletedGrows

(* A turn starts alone, on a task that has not passed and after all tasks  *)
(* before it have: what select_task and the lock promise together.         *)
THEOREM TurnsAreGated == Spec => TurnIsGated
<1> DEFINE Gate(p) ==
       /\ \A q \in Procs : turn[q] = "none"
       /\ marker[task[p]] # "pass"
       /\ \E i \in 1 .. Len(TaskOrder) :
             /\ TaskOrder[i] = task[p]
             /\ \A j \in 1 .. i - 1 : marker[TaskOrder[j]] = "pass"
<1> DEFINE Starts(p) == turn[p] # "running" /\ turn'[p] = "running"
<1>1. ASSUME MarathonInv, NEW p \in Procs, StartTurn(p) PROVE Gate(p)
  <2>1. PlaceInv(p) /\ KnowledgeInv(p) /\ pc[p] = "turn"
    BY <1>1 DEF MarathonInv, StartTurn
  <2>2. lock = p
    BY <2>1 DEF PlaceInv, Locked
  <2>3. ASSUME NEW q \in Procs PROVE turn[q] = "none"
    <3>1. CASE q = p
      BY <2>1, <3>1 DEF PlaceInv
    <3>2. CASE q # p
      <4>1. PlaceInv(q)
        BY <1>1 DEF MarathonInv
      <4> QED
        BY <2>2, <3>2, <4>1 DEF PlaceInv
    <3> QED
      BY <3>1, <3>2
  <2>4. CompletedIsEarned /\ marker[task[p]] # "pass" /\ Reached(task[p])
    BY <1>1, <2>1 DEF MarathonInv, KnowledgeInv
  <2> QED
    BY <2>3, <2>4 DEF Reached, CompletedIsEarned
<1>2. ASSUME MarathonInv, Next, NEW p \in Procs, Starts(p) PROVE StartTurn(p)
  <2>1. TypeOK
    BY <1>2 DEF MarathonInv
  <2>2. PICK q \in Procs : ProcessStep(q)
    BY <1>2 DEF Next, ProcessStep, HostRunLocked, stateVars
  <2>3. q = p
    BY <1>2, <2>2, OthersFrame DEF Frame
  <2>4. CASE Start(p) \/ AgentWrites(p) \/ AgentEnds(p) \/ Hangs(p)
    BY <1>2, <2>1, <2>4 DEF Start, Enqueue, Status, Prepare, HostRun, Begins,
       AgentWrites, AgentEnds, Hangs, stateVars, TypeOK
  <2>5. CASE Killed(p) \/ HangEnds(p)
    BY <1>2, <2>1, <2>5 DEF Killed, HangEnds, Leaves, Exits, TypeOK
  <2>6. CASE Proceed(p)
    BY <1>2, <2>1, <2>6 DEF Proceed, Open, Write, Read, Unlink, QuotaGood,
       TurnCompletes, Replace, ReplaceFails, ReadNothing, QuotaRefused,
       LoadRefused, TurnRefused, WaitExpires, LoadPrepare, LoadPassed,
       LoadTask, Loads, SaveStarted, ReadMarker, Save, Leaves, Exits,
       stateVars, TypeOK
  <2> QED
    BY <2>2, <2>3, <2>4, <2>5, <2>6 DEF ProcessStep
<1>3. MarathonInv /\ [Next]_vars =>
         [\A p \in Procs : Starts(p) => Gate(p)]_vars
  BY <1>1, <1>2
<1> QED
  BY <1>3, MarathonHolds, PTL DEF Spec, TurnIsGated
-----------------------------------------------------------------------------
(* One process enqueues: Wiphand.  Two of them share the name of the .tmp  *)
(* file, and one can publish what the other has just truncated.            *)
OneEnqueuer ==
    \A p, q \in Procs :
       "enqueue" \in Commands[p] /\ "enqueue" \in Commands[q] => p = q

\* a process has a file open between open and the end of its write only
HandleInv(p) == pc[p] # "write" => handle[p] = "none"

\* what the enqueuing process has open is the .tmp, and it renames it whole
RequestInv(p) ==
    cmd[p] = "enqueue" =>
       /\ "enqueue" \in Commands[p]
       /\ pc[p] = "write" => handle[p] = "temp"
       /\ pc[p] = "replace" => temp["trigger"] = "whole"

QueueInv ==
    /\ TriggerIsWhole
    /\ \A p \in Procs : HandleInv(p) /\ RequestInv(p)

\* Steps that neither open, write, rename nor remove a file.
Unfiled(p) ==
    \/ Start(p)
    \/ Read(p) \/ QuotaGood(p) \/ TurnCompletes(p)
    \/ LoadPrepare(p) \/ LoadPassed(p) \/ LoadTask(p)
    \/ StartTurn(p) \/ SaveStarted(p) \/ ReadMarker(p) \/ Save(p)
    \/ Leaves(p) /\ pc[p] # "write"
    \/ AgentWrites(p) \/ AgentEnds(p) \/ Hangs(p)

LEMMA ProcessFiles ==
    ASSUME NEW p, ProcessStep(p)
    PROVE  Open(p) \/ Write(p) \/ Replace(p) \/ Unlink(p) \/ Killed(p)
           \/ Unfiled(p)
BY DEF ProcessStep, Proceed, Unfiled, ReplaceFails, ReadNothing,
   QuotaRefused, LoadRefused, TurnRefused, WaitExpires, HangEnds

\* They leave the files alone; whoever enqueues has just begun.
LEMMA UnfiledSteps ==
    ASSUME TypeOK, NEW p \in Procs, Unfiled(p), HandleInv(p), RequestInv(p)
    PROVE  /\ UNCHANGED <<handle, file, temp>>
           /\ HandleInv(p)' /\ RequestInv(p)'
<1> USE DEF TypeOK, HandleInv, RequestInv, Goto, fileVars, stateVars
<1>1. CASE Start(p)
  BY <1>1 DEF Start, Enqueue, Status, Prepare, HostRun, Begins
<1>2. CASE Read(p) \/ QuotaGood(p) \/ TurnCompletes(p)
  BY <1>2 DEF Read, QuotaGood, TurnCompletes
<1>3. CASE LoadPrepare(p) \/ LoadPassed(p) \/ LoadTask(p)
  BY <1>3 DEF LoadPrepare, LoadPassed, LoadTask, Loads
<1>4. CASE StartTurn(p) \/ SaveStarted(p) \/ ReadMarker(p)
  BY <1>4 DEF StartTurn, SaveStarted, ReadMarker
<1>5. CASE Save(p) \/ (Leaves(p) /\ pc[p] # "write")
  BY <1>5 DEF Save, Leaves, Exits
<1>6. CASE AgentWrites(p) \/ AgentEnds(p) \/ Hangs(p)
  BY <1>6 DEF AgentWrites, AgentEnds, Hangs, Calls
<1> QED
  BY <1>1, <1>2, <1>3, <1>4, <1>5, <1>6 DEF Unfiled

\* What the other steps do to the trigger, to the process and to others.
LEMMA OpenFiles ==
    ASSUME TypeOK, NEW p \in Procs, Open(p)
    PROVE  /\ UNCHANGED file /\ HandleInv(p)'
           /\ RequestInv(p) => RequestInv(p)'
           /\ \A q \in Procs \ {p} : handle'[q] = handle[q]
           /\ cmd[p] # "enqueue" => temp'["trigger"] = temp["trigger"]
BY DEF TypeOK, Open, Goto, HandleInv, RequestInv, Target, Files

LEMMA WriteFiles ==
    ASSUME TypeOK, NEW p \in Procs, Write(p), RequestInv(p)
    PROVE  /\ file'["trigger"] = file["trigger"]
           /\ HandleInv(p)' /\ RequestInv(p)'
           /\ \A q \in Procs \ {p} : handle'[q] = handle[q]
           /\ cmd[p] # "enqueue" => temp'["trigger"] = temp["trigger"]
<1> USE DEF TypeOK, Write, Goto, HandleInv, RequestInv, Target, Files
<1>1. CASE cmd[p] = "enqueue"
  BY <1>1
<1>2. CASE cmd[p] # "enqueue"
  BY <1>2
<1> QED
  BY <1>1, <1>2

LEMMA ReplaceFiles ==
    ASSUME TypeOK, NEW p \in Procs, Replace(p), HandleInv(p), RequestInv(p),
           TriggerIsWhole
    PROVE  /\ TriggerIsWhole' /\ HandleInv(p)' /\ RequestInv(p)'
           /\ \A q \in Procs \ {p} :
                 /\ handle[q] = "none" => handle'[q] = "none"
                 /\ cmd[q] = "enqueue" /\ cmd[p] # "enqueue" =>
                       handle'[q] = handle[q]
           /\ cmd[p] # "enqueue" => temp'["trigger"] = temp["trigger"]
<1> DEFINE f == Target(p)
<1>1. /\ pc[p] = "replace" /\ handle[p] = "none"
      /\ f = IF cmd[p] = "enqueue" THEN "trigger" ELSE "quota"
  BY DEF Replace, HandleInv, Target
<1>2. /\ file' = [file EXCEPT ![f] = temp[f]]
      /\ temp' = [temp EXCEPT ![f] = "absent"]
      /\ handle' = [q \in Procs |-> IF q \notin Writers(f) THEN handle[q]
                       ELSE IF handle[q] = "temp" THEN "file" ELSE "none"]
  BY DEF Replace, Renamed
<1>3. TriggerIsWhole'
  <2>1. CASE cmd[p] = "enqueue"
    <3>1. temp["trigger"] = "whole"
      BY <1>1, <2>1 DEF RequestInv
    <3> QED
      BY <1>1, <1>2, <2>1, <3>1 DEF TriggerIsWhole, TypeOK, Files
  <2>2. CASE cmd[p] # "enqueue"
    BY <1>1, <1>2, <2>2 DEF TriggerIsWhole, TypeOK, Files
  <2> QED
    BY <2>1, <2>2
<1>4. handle'[p] = "none"
  BY <1>1, <1>2
<1>5. pc'[p] \in {"idle", "load"} /\ (cmd'[p] = "enqueue" => cmd[p] = "enqueue")
  BY DEF Replace, Exits, Goto, TypeOK
<1>6. HandleInv(p)' /\ RequestInv(p)'
  BY <1>4, <1>5 DEF HandleInv, RequestInv
<1>7. ASSUME NEW q \in Procs \ {p}
      PROVE  /\ handle[q] = "none" => handle'[q] = "none"
             /\ cmd[q] = "enqueue" /\ cmd[p] # "enqueue" =>
                   handle'[q] = handle[q]
  BY <1>1, <1>2 DEF Writers, Target
<1>8. cmd[p] # "enqueue" => temp'["trigger"] = temp["trigger"]
  BY <1>1, <1>2 DEF TypeOK, Files
<1> QED
  BY <1>3, <1>6, <1>7, <1>8

LEMMA UnlinkFiles ==
    ASSUME TypeOK, NEW p \in Procs, Unlink(p), HandleInv(p), RequestInv(p)
    PROVE  /\ TriggerIsWhole' /\ HandleInv(p)' /\ RequestInv(p)'
           /\ UNCHANGED temp
           /\ \A q \in Procs \ {p} :
                 handle[q] # "file" => handle'[q] = handle[q]
BY DEF TypeOK, Unlink, Goto, HandleInv, RequestInv, TriggerIsWhole, Files

LEMMA KilledFiles ==
    ASSUME TypeOK, NEW p \in Procs, Killed(p)
    PROVE  /\ UNCHANGED <<file, temp>>
           /\ HandleInv(p)' /\ RequestInv(p)'
           /\ \A q \in Procs \ {p} : handle'[q] = handle[q]
BY DEF TypeOK, Killed, Exits, Goto, HandleInv, RequestInv

\* What a step of p leaves of q's files.
LEMMA OthersFiles ==
    ASSUME OneEnqueuer, MarathonInv, QueueInv,
           NEW p \in Procs, NEW q \in Procs, p # q, ProcessStep(p)
    PROVE  HandleInv(q)' /\ RequestInv(q)'
<1>1. /\ TypeOK /\ TriggerIsWhole
      /\ HandleInv(p) /\ RequestInv(p) /\ HandleInv(q) /\ RequestInv(q)
  BY DEF MarathonInv, QueueInv
<1>2. cmd'[q] = cmd[q] /\ pc'[q] = pc[q]
  BY OthersFrame DEF Frame
<1>3. cmd[q] = "enqueue" => cmd[p] # "enqueue"
  BY <1>1 DEF OneEnqueuer, RequestInv
<1>4. /\ handle[q] = "none" => handle'[q] = "none"
      /\ cmd[q] = "enqueue" /\ handle[q] # "file" => handle'[q] = handle[q]
      /\ cmd[q] = "enqueue" => temp'["trigger"] = temp["trigger"]
  <2>1. CASE Open(p)
    BY <1>1, <1>3, <2>1, OpenFiles
  <2>2. CASE Write(p)
    BY <1>1, <1>3, <2>2, WriteFiles
  <2>3. CASE Replace(p)
    BY <1>1, <1>3, <2>3, ReplaceFiles
  <2>4. CASE Unlink(p)
    BY <1>1, <2>4, UnlinkFiles
  <2>5. CASE Killed(p)
    BY <1>1, <2>5, KilledFiles
  <2>6. CASE Unfiled(p)
    BY <1>1, <2>6, UnfiledSteps
  <2> QED
    BY <2>1, <2>2, <2>3, <2>4, <2>5, <2>6, ProcessFiles
<1> QED
  BY <1>1, <1>2, <1>4 DEF HandleInv, RequestInv

LEMMA QueueStep ==
    ASSUME OneEnqueuer
    PROVE  MarathonInv /\ QueueInv /\ [Next]_vars => QueueInv'
<1> SUFFICES ASSUME MarathonInv, QueueInv, [Next]_vars PROVE QueueInv'
  OBVIOUS
<1>1. TypeOK /\ TriggerIsWhole
  BY DEF MarathonInv, QueueInv
<1>2. CASE HostRunLocked \/ UNCHANGED vars
  BY <1>2 DEF HostRunLocked, vars, QueueInv, HandleInv, RequestInv,
     TriggerIsWhole
<1>3. ASSUME NEW p \in Procs, ProcessStep(p) PROVE QueueInv'
  <2>1. HandleInv(p) /\ RequestInv(p)
    BY DEF QueueInv
  <2>2. TriggerIsWhole' /\ HandleInv(p)' /\ RequestInv(p)'
    <3>1. CASE Open(p)
      BY <1>1, <2>1, <3>1, OpenFiles DEF TriggerIsWhole
    <3>2. CASE Write(p)
      BY <1>1, <2>1, <3>2, WriteFiles DEF TriggerIsWhole
    <3>3. CASE Replace(p)
      BY <1>1, <2>1, <3>3, ReplaceFiles
    <3>4. CASE Unlink(p)
      BY <1>1, <2>1, <3>4, UnlinkFiles
    <3>5. CASE Killed(p)
      BY <1>1, <3>5, KilledFiles DEF TriggerIsWhole
    <3>6. CASE Unfiled(p)
      BY <1>1, <2>1, <3>6, UnfiledSteps DEF TriggerIsWhole
    <3> QED
      BY <1>3, <3>1, <3>2, <3>3, <3>4, <3>5, <3>6, ProcessFiles
  <2>3. ASSUME NEW q \in Procs, q # p PROVE HandleInv(q)' /\ RequestInv(q)'
    BY <1>3, <2>3, OthersFiles
  <2> QED
    BY <2>2, <2>3 DEF QueueInv
<1> QED
  BY <1>2, <1>3 DEF Next, ProcessStep

(* With one enqueuing process, killed or not, no reader of the queue finds *)
(* half a request: publishing is a whole write, then a rename.             *)
THEOREM RequestsAreWhole ==
    ASSUME OneEnqueuer
    PROVE  Spec => []TriggerIsWhole
<1>1. Init => QueueInv
  BY DEF Init, QueueInv, HandleInv, RequestInv, TriggerIsWhole, Files
<1>2. MarathonInv /\ QueueInv /\ [Next]_vars => QueueInv'
  BY QueueStep
<1>3. QueueInv => TriggerIsWhole
  BY DEF QueueInv
<1> QED
  BY <1>1, <1>2, <1>3, MarathonHolds, PTL DEF Spec

-----------------------------------------------------------------------------
(* The marathon implements TaskQueue.                                      *)

Passed == {t \in Tasks : marker[t] = "pass"}
Working == {task[p] : p \in {q \in Procs : turn[q] # "none"}}

\* Only the holder of the lock has a turn.
LEMMA WorkingOfHolder ==
    ASSUME MarathonInv, NEW p \in Procs, lock = p
    PROVE  Working = IF turn[p] = "none" THEN {} ELSE {task[p]}
<1>1. ASSUME NEW q \in Procs, q # p PROVE turn[q] = "none"
  <2>1. PlaceInv(q)
    BY DEF MarathonInv
  <2> QED
    BY <1>1, <2>1 DEF PlaceInv
<1> QED
  BY <1>1 DEF Working

LEMMA TurnHasLock ==
    ASSUME MarathonInv, NEW p \in Procs, turn[p] # "none" \/ pc[p] \in Locked
    PROVE  lock = p
<1>1. PlaceInv(p)
  BY DEF MarathonInv
<1> QED
  BY <1>1 DEF PlaceInv, Locked

\* Steps that begin no turn, end none and save nothing.
Quiet(p) ==
    /\ UNCHANGED <<completed, marker>>
    /\ turn'[p] = "none" <=> turn[p] = "none"
    /\ turn[p] # "none" => task'[p] = task[p]

\* Steps with which a process leaves, and its turn with it.
Ends(p) == UNCHANGED <<completed, marker>> /\ turn'[p] = "none"

LEMMA ExitsEnds ==
    ASSUME TypeOK, NEW p \in Procs, Exits(p), UNCHANGED <<completed, marker>>
    PROVE  Ends(p)
BY DEF TypeOK, Exits, Ends

\* What the steps of a process are to the queue.
LEMMA ProcessQueue ==
    ASSUME MarathonInv, NEW p \in Procs, ProcessStep(p)
    PROVE  Quiet(p) \/ Ends(p) \/ StartTurn(p) \/ AgentWrites(p) \/ Save(p)
<1> TypeOK /\ PlaceInv(p) /\ KnowledgeInv(p)
  BY DEF MarathonInv
<1> USE DEF TypeOK, fileVars, stateVars
<1>1. CASE Start(p)
  BY <1>1 DEF Start, Enqueue, Status, Prepare, HostRun, Begins, Quiet
<1>2. CASE Proceed(p)
  <2>1. CASE Open(p) \/ Write(p) \/ Read(p) \/ Unlink(p) \/ QuotaGood(p)
             \/ TurnCompletes(p)
    BY <2>1 DEF Open, Write, Read, Unlink, QuotaGood, TurnCompletes, Quiet
  <2>2. CASE Replace(p)
    BY <2>2, ExitsEnds DEF Replace, Quiet
  <2>3. CASE ReplaceFails(p) \/ ReadNothing(p) \/ QuotaRefused(p)
             \/ LoadRefused(p) \/ TurnRefused(p) \/ WaitExpires(p)
    BY <2>3, ExitsEnds DEF ReplaceFails, ReadNothing, QuotaRefused,
       LoadRefused, TurnRefused, WaitExpires, Leaves
  <2>4. CASE LoadPrepare(p) \/ LoadPassed(p) \/ LoadTask(p)
    BY <2>4 DEF LoadPrepare, LoadPassed, LoadTask, Loads, PlaceInv, Quiet
  <2>5. CASE SaveStarted(p)
    BY <2>5 DEF SaveStarted, KnowledgeInv, Quiet
  <2>6. CASE ReadMarker(p)
    BY <2>6 DEF ReadMarker, Quiet
  <2> QED
    BY <1>2, <2>1, <2>2, <2>3, <2>4, <2>5, <2>6 DEF Proceed
<1>3. CASE Killed(p)
  BY <1>3, ExitsEnds DEF Killed
<1>4. CASE AgentEnds(p) \/ Hangs(p)
  BY <1>4 DEF AgentEnds, Hangs, Quiet
<1>5. CASE HangEnds(p)
  BY <1>5, ExitsEnds DEF HangEnds, Leaves
<1> QED
  BY <1>1, <1>2, <1>3, <1>4, <1>5 DEF ProcessStep

\* The turns after a step of p: those of others are what they were.
LEMMA WorkingKept ==
    ASSUME MarathonInv, NEW p \in Procs, ProcessStep(p), Quiet(p)
    PROVE  Working' = Working
<1>1. ASSUME NEW q \in Procs
      PROVE  /\ turn'[q] # "none" <=> turn[q] # "none"
             /\ turn[q] # "none" => task'[q] = task[q]
  <2>1. CASE q = p
    BY <2>1 DEF Quiet
  <2>2. CASE q # p
    BY <2>2, OthersFrame DEF Frame
  <2> QED
    BY <2>1, <2>2
<1> QED
  BY <1>1 DEF Working

LEMMA WorkingAlone ==
    ASSUME MarathonInv, NEW p \in Procs, ProcessStep(p), lock = p
    PROVE  Working' = IF turn'[p] = "none" THEN {} ELSE {task'[p]}
<1>1. ASSUME NEW q \in Procs, q # p PROVE turn'[q] = "none"
  <2>1. turn[q] = "none"
    BY <1>1, TurnHasLock
  <2> QED
    BY <1>1, <2>1, OthersFrame DEF Frame
<1> QED
  BY <1>1 DEF Working

QueueSteps ==
    \/ UNCHANGED <<completed, Passed, Working>>
    \/ Queue!Drop
    \/ \E t \in Tasks : Queue!Begin(t) \/ Queue!Judge(t) \/ Queue!Complete(t)

\* A task the marathon has reached is the next one of the queue.
LEMMA ReachedIsNext ==
    ASSUME NEW t \in Tasks \ completed, Reached(t)
    PROVE  Queue!IsNext(t)
BY DEF Reached, Queue!IsNext

LEMMA StartTurnBegins ==
    ASSUME MarathonInv, NEW p \in Procs, StartTurn(p)
    PROVE  \E t \in Tasks : Queue!Begin(t)
<1>1. TypeOK /\ PlaceInv(p) /\ KnowledgeInv(p) /\ pc[p] = "turn"
  BY DEF MarathonInv, StartTurn
<1>2. ProcessStep(p) /\ lock = p
  BY <1>1, TurnHasLock DEF ProcessStep, Proceed, Locked
<1>3. Working = {} /\ Working' = {task[p]}
  <2>1. turn[p] = "none" /\ turn'[p] = "running" /\ task'[p] = task[p]
    BY <1>1 DEF StartTurn, PlaceInv, TypeOK
  <2> QED
    BY <1>2, <2>1, WorkingOfHolder, WorkingAlone
<1>4. PICK t \in Tasks \ completed : t = task[p]
  BY <1>1 DEF KnowledgeInv
<1>5. t \notin Passed /\ Queue!IsNext(t)
  BY <1>1, <1>4, ReachedIsNext DEF KnowledgeInv, Passed
<1>6. UNCHANGED <<completed, Passed>>
  BY DEF StartTurn, Passed
<1>7. Queue!Begin(t)
  BY <1>3, <1>4, <1>5, <1>6 DEF Queue!Begin, Passed, Working
<1> QED
  BY <1>7

LEMMA AgentJudges ==
    ASSUME MarathonInv, NEW p \in Procs, AgentWrites(p)
    PROVE  \E t \in Tasks : Queue!Judge(t)
<1>1. TypeOK /\ PlaceInv(p) /\ KnowledgeInv(p) /\ turn[p] = "running"
  BY DEF MarathonInv, AgentWrites
<1>2. PICK t \in Tasks : t = task[p]
  BY <1>1 DEF KnowledgeInv, PlaceInv
<1>3. PICK s \in {"fail", "pass"} : marker' = [marker EXCEPT ![t] = s]
  BY <1>2 DEF AgentWrites
<1>4. Passed' \in {Passed \cup {t}, Passed \ {t}}
  <2>1. CASE s = "pass"
    <3>1. Passed' = Passed \cup {t}
      BY <1>1, <1>2, <1>3, <2>1 DEF Passed, TypeOK
    <3> QED
      BY <3>1
  <2>2. CASE s = "fail"
    <3>1. Passed' = Passed \ {t}
      BY <1>1, <1>2, <1>3, <2>2 DEF Passed, TypeOK
    <3> QED
      BY <3>1
  <2> QED
    BY <2>1, <2>2
<1>5. t \in Working
  BY <1>1, <1>2 DEF Working
<1>6. UNCHANGED <<completed, Working>>
  BY DEF AgentWrites, Working
<1>7. Queue!Judge(t)
  BY <1>4, <1>5, <1>6 DEF Queue!Judge, Passed, Working
<1> QED
  BY <1>7

LEMMA SaveCompletes ==
    ASSUME MarathonInv, NEW p \in Procs, Save(p)
    PROVE  Queue!Drop \/ \E t \in Tasks : Queue!Complete(t)
<1>1. TypeOK /\ PlaceInv(p) /\ KnowledgeInv(p) /\ pc[p] = "save"
  BY DEF MarathonInv, Save
<1>2. ProcessStep(p) /\ lock = p
  BY <1>1, TurnHasLock DEF ProcessStep, Proceed, Locked
<1>3. /\ Working = IF turn[p] = "none" THEN {} ELSE {task[p]}
      /\ Working' = {}
  <2>1. turn'[p] = "none"
    BY <1>1 DEF Save, Exits, TypeOK
  <2> QED
    BY <1>2, <2>1, WorkingOfHolder, WorkingAlone
<1>4. completed' = known[p] /\ Passed' = Passed
  BY DEF Save, Passed
<1>5. CASE known[p] = completed
  BY <1>3, <1>4, <1>5 DEF Queue!Drop, Passed, Working
<1>6. CASE Finishes(p)
  <2>1. PICK t \in Tasks \ completed :
           /\ Reached(t) /\ marker[t] = "pass"
           /\ known[p] = completed \cup {t}
           /\ turn[p] # "none" => task[p] = t
    BY <1>6 DEF Finishes
  <2>2. Working \subseteq {t} /\ t \in Passed
    BY <1>3, <2>1 DEF Passed
  <2>3. Queue!IsNext(t)
    BY <2>1, ReachedIsNext
  <2>4. Queue!Complete(t)
    BY <1>3, <1>4, <2>1, <2>2, <2>3 DEF Queue!Complete, Passed, Working
  <2> QED
    BY <2>4
<1> QED
  BY <1>1, <1>5, <1>6 DEF KnowledgeInv

\* Every step is one of the queue, or leaves it as it is.
LEMMA QueueRefined ==
    MarathonInv /\ [Next]_vars => [Queue!Next]_(Queue!queueVars)
<1> SUFFICES ASSUME MarathonInv, [Next]_vars
             PROVE  [Queue!Next]_(Queue!queueVars)
  OBVIOUS
<1>1. ASSUME QueueSteps PROVE [Queue!Next]_(Queue!queueVars)
  <2>1. CASE UNCHANGED <<completed, Passed, Working>>
    BY <2>1 DEF Queue!queueVars, Passed, Working
  <2>2. CASE Queue!Drop
    BY <2>2 DEF Queue!Next
  <2>3. ASSUME NEW t \in Tasks,
               Queue!Begin(t) \/ Queue!Judge(t) \/ Queue!Complete(t)
        PROVE  Queue!Next
    BY <2>3 DEF Queue!Next, Tasks
  <2> QED
    BY <1>1, <2>1, <2>2, <2>3 DEF QueueSteps
<1>2. CASE HostRunLocked \/ UNCHANGED vars
  <2>1. UNCHANGED <<completed, Passed, Working>>
    BY <1>2 DEF HostRunLocked, vars, stateVars, Passed, Working
  <2> QED
    BY <1>1, <2>1 DEF QueueSteps
<1>3. ASSUME NEW p \in Procs, ProcessStep(p) PROVE QueueSteps
  <2>1. CASE Quiet(p)
    BY <1>3, <2>1, WorkingKept DEF QueueSteps, Quiet, Passed
  <2>2. CASE Ends(p)
    <3>1. completed' = completed /\ Passed' = Passed
      BY <2>2 DEF Ends, Passed
    <3>2. CASE turn[p] = "none"
      <4>1. Quiet(p)
        BY <2>2, <3>2 DEF Ends, Quiet
      <4> QED
        BY <1>3, <2>1, <4>1
    <3>3. CASE turn[p] # "none"
      <4>1. Working' = {}
        BY <1>3, <2>2, <3>3, TurnHasLock, WorkingAlone DEF Ends
      <4>2. Queue!Drop
        BY <3>1, <4>1 DEF Queue!Drop, Passed, Working
      <4> QED
        BY <4>2 DEF QueueSteps
    <3> QED
      BY <3>2, <3>3
  <2>3. CASE StartTurn(p)
    BY <2>3, StartTurnBegins DEF QueueSteps
  <2>4. CASE AgentWrites(p)
    BY <2>4, AgentJudges DEF QueueSteps
  <2>5. CASE Save(p)
    BY <2>5, SaveCompletes DEF QueueSteps
  <2> QED
    BY <1>3, <2>1, <2>2, <2>3, <2>4, <2>5, ProcessQueue
<1> QED
  BY <1>1, <1>2, <1>3 DEF Next, ProcessStep

(* The controllers, started and killed at any time and in any number, are  *)
(* together one queue: TaskQueue, with its tasks in order and one at a     *)
(* time.                                                                   *)
THEOREM MarathonImplementsQueue == Spec => ImplementsQueue
<1>1. Init => Queue!Init
  <2> SUFFICES ASSUME Init PROVE Queue!Init
    OBVIOUS
  <2>1. completed = {} /\ Passed = {} /\ Working = {}
    BY DEF Init, Passed, Working
  <2> QED
    BY <2>1 DEF Queue!Init, Passed, Working
<1>2. MarathonInv /\ [Next]_vars => [Queue!Next]_(Queue!queueVars)
  BY QueueRefined
<1> QED
  BY <1>1, <1>2, MarathonHolds, PTL DEF Spec, ImplementsQueue, Queue!Spec
=============================================================================
