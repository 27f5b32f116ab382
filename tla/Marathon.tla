------------------------------ MODULE Marathon ------------------------------
(***************************************************************************)
(* The marathon controller (scripts/codex_marathon.py) and the systemd     *)
(* path unit that starts it.  Wiphand enqueues a request by publishing     *)
(* queue/trigger.json; the path unit sees the rename and starts host-run,  *)
(* which takes a file lock, consumes the request, checks the quota,        *)
(* selects the first task that is not completed and gives it one turn of a *)
(* coding agent.  The agent leaves a marker file; a task is completed once *)
(* its marker says pass.  The operator runs prepare, status or host-run by *)
(* hand.  All of them are processes that can be killed at any step; what   *)
(* lasts is in files: the request, the quota snapshot, state.json and the  *)
(* markers.                                                                *)
(***************************************************************************)
EXTENDS Sequences, Naturals

CONSTANTS Procs,     \* processes that run one command after the other
          Commands,  \* the commands each of them runs
          Service,   \* the process that systemd starts, for host-run only
          TaskOrder, \* the sequence in select_task
          Gated,     \* tasks that need a gateway the environment may lack (T00)
          NoProc,
          NoTask

Tasks == {TaskOrder[i] : i \in 1 .. Len(TaskOrder)}
CommandNames == {"enqueue", "status", "prepare", "host-run"}
Files == {"trigger", "quota"}

ASSUME CommandsAssumption ==
    /\ Service \in Procs /\ NoProc \notin Procs
    /\ Commands \in [Procs -> SUBSET CommandNames]
ASSUME TasksAssumption ==
    /\ TaskOrder \in Seq(Tasks)
    /\ Gated \subseteq Tasks
    /\ NoTask \notin Tasks

VARIABLES lock,      \* who holds the flock on marathon/lock
          cmd,       \* the command each process runs, "none" between two
          pc,        \* where it is in that command
          handle,    \* what its open file is now: the .tmp or the published file
          file,      \* the published files: "torn" is empty or incomplete
          temp,      \* their .tmp files; every writer uses the same name
          due,       \* the path unit saw a change it has not acted upon
          completed, \* "completed" in state.json
          known,     \* "completed" in the state each process loaded
          task,      \* the task each process selected
          turn,      \* the turn in its app-server
          marker     \* the acceptance marker of each task

fileVars  == <<handle, file, temp, due>>
stateVars == <<completed, known, task, turn, marker>>
vars == <<lock, cmd, pc, handle, file, temp, due, completed, known, task, turn,
          marker>>

Stages == {"idle", "read", "unlink", "quota", "open", "write", "replace",
           "load", "turn", "started", "wait", "marker", "save", "hung"}

Init ==
    /\ lock = NoProc
    /\ cmd = [p \in Procs |-> "none"]
    /\ pc = [p \in Procs |-> "idle"]
    /\ handle = [p \in Procs |-> "none"]
    /\ file = [f \in Files |-> "absent"]
    /\ temp = [f \in Files |-> "absent"]
    /\ due = FALSE
    /\ completed = {}
    /\ known = [p \in Procs |-> {}]
    /\ task = [p \in Procs |-> NoTask]
    /\ turn = [p \in Procs |-> "none"]
    /\ marker = [t \in Tasks |-> "none"]

Goto(p, s) == pc' = [pc EXCEPT ![p] = s]

\* the process ends: its lock is released, its app-server terminated
Exits(p) ==
    /\ Goto(p, "idle")
    /\ cmd' = [cmd EXCEPT ![p] = "none"]
    /\ lock' = IF lock = p THEN NoProc ELSE lock
    /\ known' = [known EXCEPT ![p] = {}]
    /\ task' = [task EXCEPT ![p] = NoTask]
    /\ turn' = [turn EXCEPT ![p] = "none"]

\* an early return, or an exception that main() reports or does not
Leaves(p) == Exits(p) /\ UNCHANGED <<handle, file, temp, due, completed, marker>>

-----------------------------------------------------------------------------
(* Commands begin: with the lock or without.                               *)

Begins(p, c, s) ==
    /\ pc[p] = "idle"
    /\ c \in Commands[p]
    /\ cmd' = [cmd EXCEPT ![p] = c]
    /\ Goto(p, s)
    /\ UNCHANGED <<handle, file, temp, stateVars>>

Enqueue(p) == Begins(p, "enqueue", "open") /\ UNCHANGED <<lock, due>>

Status(p) == Begins(p, "status", "quota") /\ UNCHANGED <<lock, due>>

\* faulty variant: prepare does not take the lock
PrepareUnlocked(p) == Begins(p, "prepare", "quota") /\ UNCHANGED <<lock, due>>

Prepare(p) ==
    /\ lock = NoProc
    /\ lock' = p
    /\ Begins(p, "prepare", "quota")
    /\ UNCHANGED due

\* by hand, or by systemd when the path unit is due
HostRun(p) ==
    /\ lock = NoProc
    /\ lock' = p
    /\ Begins(p, "host-run", "read")
    /\ IF p = Service THEN due /\ due' = FALSE ELSE UNCHANGED due

\* "another marathon controller invocation holds the lock": systemd's start
\* is spent, and the request stays where it is
HostRunLocked ==
    /\ pc[Service] = "idle"
    /\ lock # NoProc
    /\ due
    /\ due' = FALSE
    /\ UNCHANGED <<lock, cmd, pc, handle, file, temp, stateVars>>

-----------------------------------------------------------------------------
(* Publishing a file: write_text to the .tmp, then replace.                *)

Target(p) == IF cmd[p] = "enqueue" THEN "trigger" ELSE "quota"
Writers(f) == {p \in Procs : cmd[p] # "none" /\ Target(p) = f}

\* faulty variant: the published file itself is opened
OpenInPlace(p) ==
    /\ pc[p] = "open"
    /\ file' = [file EXCEPT ![Target(p)] = "torn"]
    /\ handle' = [handle EXCEPT ![p] = "file"]
    /\ Goto(p, "write")
    /\ UNCHANGED <<lock, cmd, temp, due, stateVars>>

\* open truncates whatever is there
Open(p) ==
    /\ pc[p] = "open"
    /\ temp' = [temp EXCEPT ![Target(p)] = "torn"]
    /\ handle' = [handle EXCEPT ![p] = "temp"]
    /\ Goto(p, "write")
    /\ UNCHANGED <<lock, cmd, file, due, stateVars>>

\* the write reaches the opened file under its present name
Write(p) ==
    /\ pc[p] = "write"
    /\ temp' = [temp EXCEPT ![Target(p)] = IF handle[p] = "temp" THEN "whole" ELSE @]
    /\ file' = [file EXCEPT ![Target(p)] = IF handle[p] = "file" THEN "whole" ELSE @]
    /\ handle' = [handle EXCEPT ![p] = "none"]
    /\ Goto(p, "replace")
    /\ UNCHANGED <<lock, cmd, due, stateVars>>

\* the rename moves the file under the feet of another writer
Renamed(f) ==
    /\ file' = [file EXCEPT ![f] = temp[f]]
    /\ temp' = [temp EXCEPT ![f] = "absent"]
    /\ handle' = [p \in Procs |-> IF p \notin Writers(f) THEN handle[p]
                                  ELSE IF handle[p] = "temp" THEN "file" ELSE "none"]

Replace(p) ==
    /\ pc[p] = "replace"
    /\ temp[Target(p)] # "absent"
    /\ Renamed(Target(p))
    /\ IF cmd[p] \in {"enqueue", "status"}
       THEN Exits(p)
       ELSE Goto(p, "load") /\ UNCHANGED <<lock, cmd, known, task, turn>>
    /\ due' = (due \/ Target(p) = "trigger")
    /\ UNCHANGED <<completed, marker>>

\* another writer has renamed it: FileNotFoundError
ReplaceFails(p) ==
    /\ pc[p] = "replace"
    /\ temp[Target(p)] = "absent"
    /\ Leaves(p)

-----------------------------------------------------------------------------
(* host-run and prepare.                                                   *)

\* no request, or one that is no JSON
ReadNothing(p) ==
    /\ pc[p] = "read"
    /\ file["trigger"] # "whole"
    /\ Leaves(p)

Read(p) ==
    /\ pc[p] = "read"
    /\ file["trigger"] = "whole"
    /\ Goto(p, "unlink")
    /\ UNCHANGED <<lock, cmd, fileVars, stateVars>>

\* whatever request is there now is consumed
Unlink(p) ==
    /\ pc[p] = "unlink"
    /\ file' = [file EXCEPT !["trigger"] = "absent"]
    /\ handle' = [q \in Procs |-> IF q \in Writers("trigger") /\ handle[q] = "file"
                                  THEN "none" ELSE handle[q]]
    /\ Goto(p, "quota")
    /\ UNCHANGED <<lock, cmd, temp, due, stateVars>>

\* the app-server reports a reached limit or low headroom, or does not answer
QuotaRefused(p) == pc[p] = "quota" /\ Leaves(p)

QuotaGood(p) ==
    /\ pc[p] = "quota"
    /\ Goto(p, "open")
    /\ UNCHANGED <<lock, cmd, fileVars, stateVars>>

\* select_task("auto", state)
Left == {i \in 1 .. Len(TaskOrder) : TaskOrder[i] \notin completed}
Selected == TaskOrder[CHOOSE i \in Left : \A j \in Left : i <= j]

\* no task is left, or the selected one needs a gateway and has none
LoadRefused(p) ==
    /\ pc[p] = "load"
    /\ \/ Left = {}
       \/ /\ Left # {}
          /\ cmd[p] = "host-run"
          /\ Selected \in Gated
          /\ marker[Selected] # "pass"
    /\ Leaves(p)

Loads(p, s, done) ==
    /\ known' = [known EXCEPT ![p] = done]
    /\ Goto(p, s)
    /\ UNCHANGED <<lock, cmd, fileVars, completed, turn, marker>>

LoadPrepare(p) ==
    /\ pc[p] = "load" /\ cmd[p] = "prepare" /\ Left # {}
    /\ Loads(p, "save", completed)
    /\ UNCHANGED task

\* the marker already says pass: no turn is started
LoadPassed(p) ==
    /\ pc[p] = "load" /\ cmd[p] = "host-run" /\ Left # {}
    /\ marker[Selected] = "pass"
    /\ Loads(p, "save", completed \cup {Selected})
    /\ UNCHANGED task

\* faulty variant: the marker is not asked before the turn
LoadTaskBlindly(p) ==
    /\ pc[p] = "load" /\ cmd[p] = "host-run" /\ Left # {}
    /\ Loads(p, "turn", completed)
    /\ task' = [task EXCEPT ![p] = Selected]

LoadTask(p) ==
    /\ pc[p] = "load" /\ cmd[p] = "host-run" /\ Left # {}
    /\ marker[Selected] # "pass"
    /\ Loads(p, "turn", completed)
    /\ task' = [task EXCEPT ![p] = Selected]

\* start_thread and start_turn
StartTurn(p) ==
    /\ pc[p] = "turn"
    /\ turn' = [turn EXCEPT ![p] = "running"]
    /\ Goto(p, "started")
    /\ UNCHANGED <<lock, cmd, fileVars, completed, known, task, marker>>

\* a request is refused or not answered in time; the turn may have begun
TurnRefused(p) == pc[p] \in {"turn", "started"} /\ Leaves(p)

SaveStarted(p) ==
    /\ pc[p] = "started"
    /\ completed' = known[p]
    /\ Goto(p, "wait")
    /\ UNCHANGED <<lock, cmd, fileVars, known, task, turn, marker>>

\* faulty variant: the marker is read before the turn has ended
TurnCompletesEarly(p) ==
    /\ pc[p] = "wait"
    /\ turn[p] # "none"
    /\ Goto(p, "marker")
    /\ UNCHANGED <<lock, cmd, fileVars, stateVars>>

\* wait_for_turn
TurnCompletes(p) ==
    /\ pc[p] = "wait"
    /\ turn[p] = "ended"
    /\ Goto(p, "marker")
    /\ UNCHANGED <<lock, cmd, fileVars, stateVars>>

\* faulty variant: wait_for_turn has no deadline
WaitForever(p) == FALSE /\ UNCHANGED vars

\* TimeoutError: the finally clause terminates the app-server and its turn
WaitExpires(p) == pc[p] = "wait" /\ Leaves(p)

ReadMarker(p) ==
    /\ pc[p] = "marker"
    /\ known' = [known EXCEPT ![p] = IF marker[task[p]] = "pass" THEN @ \cup {task[p]} ELSE @]
    /\ Goto(p, "save")
    /\ UNCHANGED <<lock, cmd, fileVars, completed, task, turn, marker>>

Save(p) ==
    /\ pc[p] = "save"
    /\ completed' = known[p]
    /\ Exits(p)
    /\ UNCHANGED <<fileVars, marker>>

-----------------------------------------------------------------------------
(* The app-server.                                                         *)

\* where a command waits for it
Calls == {"quota", "turn", "started", "wait"}

\* a call that neither answers nor raises: readline has half a line, or one
\* notification after the other extends the deadline.  Nothing else is held
\* up: the turn goes on, the lock and the task stay
Hangs(p) ==
    /\ pc[p] \in Calls
    /\ Goto(p, "hung")
    /\ UNCHANGED <<lock, cmd, fileVars, stateVars>>

\* the server ends, and with it the call
HangEnds(p) == pc[p] = "hung" /\ Leaves(p)

\* a process is killed; systemd or the closed pipe takes its app-server along
Killed(p) ==
    /\ pc[p] # "idle"
    /\ Exits(p)
    /\ handle' = [handle EXCEPT ![p] = "none"]
    /\ UNCHANGED <<file, temp, due, completed, marker>>

\* the agent works on its task; in the end the turn is over
AgentWrites(p) ==
    /\ turn[p] = "running"
    /\ \E s \in {"fail", "pass"} : marker' = [marker EXCEPT ![task[p]] = s]
    /\ UNCHANGED <<lock, cmd, pc, fileVars, completed, known, task, turn>>

AgentEnds(p) ==
    /\ turn[p] = "running"
    /\ turn' = [turn EXCEPT ![p] = "ended"]
    /\ UNCHANGED <<lock, cmd, pc, fileVars, completed, known, task, marker>>

Start(p) ==
    \/ Enqueue(p)
    \/ Status(p)
    \/ Prepare(p)
    \/ HostRun(p)

\* the steps that a running command takes without further ado
Proceed(p) ==
    \/ Open(p)
    \/ Write(p)
    \/ Replace(p)
    \/ ReplaceFails(p)
    \/ ReadNothing(p)
    \/ Read(p)
    \/ Unlink(p)
    \/ QuotaRefused(p)
    \/ QuotaGood(p)
    \/ LoadRefused(p)
    \/ LoadPrepare(p)
    \/ LoadPassed(p)
    \/ LoadTask(p)
    \/ StartTurn(p)
    \/ TurnRefused(p)
    \/ SaveStarted(p)
    \/ TurnCompletes(p)
    \/ WaitExpires(p)
    \/ ReadMarker(p)
    \/ Save(p)

Next ==
    \/ HostRunLocked
    \/ \E p \in Procs :
          \/ Start(p)
          \/ Proceed(p)
          \/ Hangs(p)
          \/ HangEnds(p)
          \/ Killed(p)
          \/ AgentWrites(p)
          \/ AgentEnds(p)

Spec == Init /\ [][Next]_vars

(***************************************************************************)
(* A command that runs goes on unless a call of it hangs: a call that does *)
(* not hang answers or raises, and wait_for_turn's deadline comes.  The    *)
(* path unit does what is due.  Nothing is assumed of the agent, of the    *)
(* operator or of Wiphand, nor that a call that hangs is ever over.        *)
(***************************************************************************)
FairSpec ==
    /\ Spec
    /\ \A p \in Procs : WF_vars(Proceed(p))
    /\ WF_vars(HostRun(Service) \/ HostRunLocked)

-----------------------------------------------------------------------------
TypeOK ==
    /\ lock \in Procs \cup {NoProc}
    /\ cmd \in [Procs -> CommandNames \cup {"none"}]
    /\ pc \in [Procs -> Stages]
    /\ handle \in [Procs -> {"none", "temp", "file"}]
    /\ file \in [Files -> {"absent", "torn", "whole"}]
    /\ temp \in [Files -> {"absent", "torn", "whole"}]
    /\ due \in BOOLEAN
    /\ completed \subseteq Tasks
    /\ known \in [Procs -> SUBSET Tasks]
    /\ task \in [Procs -> Tasks \cup {NoTask}]
    /\ turn \in [Procs -> {"none", "running", "ended"}]
    /\ marker \in [Tasks -> {"none", "fail", "pass"}]

(* marathon/README.md, "completion proof required before next task": what  *)
(* state.json calls completed has a marker that says pass, now and not     *)
(* only when it was read.  No later turn works on the task again, and no   *)
(* marker is read while its turn may still change it.                      *)
CompletedIsEarned == \A t \in completed : marker[t] = "pass"

(* A completed task is never forgotten: host-run, prepare and a killed     *)
(* run write back a state that others may have extended since it was read. *)
(* TaskQueue promises the same of done, and the run checks it there.       *)
CompletedGrows == [][completed \subseteq completed']_vars

(* marathon/README.md: the controller dispatches "exactly one gated task   *)
(* per run".  A turn starts only when no other one runs, on a task that    *)
(* has not passed, after all tasks before it have: also when a controller  *)
(* was killed between the end of a turn and its save.                      *)
TurnIsGated ==
    [][\A p \in Procs :
          turn[p] # "running" /\ turn'[p] = "running" =>
             /\ \A q \in Procs : turn[q] = "none"
             /\ marker[task[p]] # "pass"
             /\ \E i \in 1 .. Len(TaskOrder) :
                   /\ TaskOrder[i] = task[p]
                   /\ \A j \in 1 .. i - 1 : marker[TaskOrder[j]] = "pass"]_vars

(* marathon/README.md: Wiphand "atomically writes its queue record".  A    *)
(* single enqueuing process, killed or not, never publishes half of one.   *)
TriggerIsWhole == file["trigger"] # "torn"

(* marathon/README.md, "dispatches exactly one gated task per run": seen   *)
(* from outside, all the processes together are the queue of TaskQueue.    *)
(* No kill and no race of two commands skips a task, completes one out of  *)
(* its order, leaves a turn behind or gives two turns at a time.           *)
Queue == INSTANCE TaskQueue WITH
    done    <- completed,
    passed  <- {t \in Tasks : marker[t] = "pass"},
    working <- {task[p] : p \in {q \in Procs : turn[q] # "none"}}

ImplementsQueue == Queue!Spec

(* Whatever the agent or the operator do, the lock of a controller does    *)
(* not stay: the turn has a deadline, and every refusal, exception and     *)
(* kill gives it back.  One thing keeps it, for as long as the app-server  *)
(* lives: a call that hangs (codex_marathon.py:289 and 302).               *)
LockReleased ==
    \A p \in Procs : lock = p ~> lock # p \/ pc[p] = "hung"

=============================================================================
