# The control software of the P40 research host, in TLA+

The repository holds the programs that decide what runs on two passively cooled
Tesla P40 cards, when it is stopped, and what is recorded about it. This directory
models those programs, checks the models with TLC, and proves their central properties
with TLAPS. Paths below are relative to `src/`.

## Inventory

Each line names the state a part keeps, its operations, what is hard about it, and what
makes it correct.

| Part | State | Operations | Hard behaviour | Correct when |
| --- | --- | --- | --- | --- |
| Model router, `model_router/router.py` | `_active`, `_last_used`, the lock | `begin`, `end`, `reap_once`, `_proxy` | handler threads against the reaper; a lock held for minutes; failing calls; restart of the router or of Qwen | leases are counted exactly, nothing in use is stopped, what is idle is stopped, Qwen and Ollama are not on the cards together |
| Thermal supervisor, `deployment/colibri-thermal-supervisor.py`, `colibri-qwen36.service` | the child, the unit's state | `main`, systemd's restart and cleanup | the launcher's death at any moment; failing readings | a hot engine is stopped, never restarted for being stopped, never left alone |
| Canary guards, `remote/p40-*-guard.py` | power limits (of the cards, shared), one workload, one result | `run`, `terminate`, `cool_down`, `persist` | an error at every call; kills; two guards at once, with no lock | workloads run capped, limits come back, a pass is earned, a run leaves a result |
| Guard variants T05a to T46 and their clients | globals of the modules they load | `run` around an imported `run`; a client's wait | globals rebound in up to seven modules; a verdict after the base run; an exception before or after it loses the result | the engine that runs is the one that is pinned; a pass stands only with each layer's evidence; the answer is the one the client asked for |
| Marathon controller, `scripts/codex_marathon.py`, `marathon/systemd` | `state.json`, `quota.json`, `queue/trigger.json`, markers, the flock | `enqueue`, `status`, `prepare`, `host-run` | processes killed anywhere; file names shared by writers; a path unit that fires once | tasks are completed in order, each on its marker's evidence, none is forgotten |
| Codex app-server client (same file) | a buffered pipe | `_read`, `_request`, `wait_for_turn` | `select` beside a buffered reader; reads that outlast their deadline | a reply that arrived is used; the wait ends |
| Search controller, `swarm/store.py`, `api.py`, `ingest.py`, `scoring.py` | SQLite: tasks, branches, attempts, evidence | `create_branch`, `create_attempt`, `append_evidence`, `finish_attempt`, `promote`, `ingest_corpus_attempt`, `rank_task` | several processes; reads outside the write's transaction; ingestion cut short | promotion is earned by evidence, verdicts last |
| Corpus runner and harness, `scripts/swarm_s3_*`, `s4_*`, `s5_*`, `swarm/harness.py`, `edit.py`, `patch.py`, `executor.py` | a disposable worktree, one artifact | `prepare_worktree`, the model's request, validation, `run_profile`, `main` | an exception after any step; a write cut off; an edit validated against one copy of a text and applied to another | what passes is a repair under the tests as supplied; an artifact without an error is complete |
| Fan guard, `deployment/wiplash-gpu-fan-guard` | a mode file, the BMC's mode and duty | `check_once`, the daemon, `--once` hooks | failing IPMI calls with errexit off; the lock; a lost state file | hot cards get full fans |
| Host guard, `scripts/guard.py` | the host lock, the child, the power limit | `run`, `Watchdog.check` | the loser of the lock; a telemetry source that raises | one run at a time, which is cleaned up |
| Telemetry gateway, WGCAP reader, T03 validators, probe, benchmark scripts | none between calls | parse, check, one call | completeness of a record | only complete records are accepted |
| CUDA/C++ benchmarks, engine patches, research record | - | numerical | - | outside this project |

Interactions: clients reach models through the router only; the router starts and stops
Qwen's systemd unit through `wiplash-model-control`, and asks Ollama over HTTP what is
resident; the supervisor is that unit's main process, so that a thermal stop looks to the
router like a service that left. Guards share nothing with the router but the cards.
The marathon's agent starts guards through the clients. Corpus runs end in an
artifact file, ingestion turns it into rows, the API promotes and ranks those rows.

`PROJECT.json` lists the hazards found in this code, each at its line with the properties
that would show it going wrong, and with a note where a property excludes what the code allows.

## Modules

| Module | Models | Its state in the code |
| --- | --- | --- |
| `ModelRouter` | the router, its threads, Qwen's unit, Ollama | `lock` is `LeaseManager._lock` with its holder; `active`, `lastUsed` the two tables; `pc`, `req` a handler thread in `do_POST`; `rpc`, `stale`, `unvisited` one pass of `reap_once`; `svc`, `resident` the world outside |
| `ModelLeases` | what the router promises, without lock, threads or preflight | abstract: `held`, `idle`, `loaded` |
| `ThermalSupervisor` | `main()` of the supervisor, its launcher and engine, systemd | `sup` is the place in `main()`, `unit` and `status` are systemd's, `child`, `engine`, `hot` the world |
| `CanaryGuard` | one connection of a guard per element of `Guards` | `stage`, `todo`, `saved`, `failed`, `unreset` are `run()`'s place and variables, `limit` the cards' power limits, `job` the workload, `record` the persisted file |
| `GuardCatalog`, `GuardClients` | the guard files and client scripts as data: what each one defines, in which modules, whom a client asks and how long it waits | a record per file |
| `GuardVerdicts` | one request to one guard, from the loading of its modules to the client's answer | `globals` is what the chain of modules was made to hold, `disk` the engines installed, `base`, `shown`, `capture` what the base run left, `record` the persisted file |
| `FanGuard` | the fan guard's checks, command by command, in the daemon and in `--once` | `lock` the flock, `file` the mode file, `bmc` the BMC's registers, `todo` the `ipmitool` calls still to make, `max` what this check read |
| `Marathon` | the four commands as processes, the path unit, the agent | `lock`, `file`, `temp`, `completed`, `marker` are on disk; `pc`, `cmd`, `handle`, `known`, `task`, `turn` belong to a process; `due` is the path unit's trigger |
| `TaskQueue` | what the marathon promises, without lock, files or processes | abstract: `done`, `passed`, `working` |
| `AppServerClient` | class `AppServer` inside `host-run`; what `Marathon` has as one step each | `pipe` is the operating system's, `buf` the text reader's buffer, `call` the last method, `asked` what the server still owes, `late` the deadline |
| `TurnCall` | what `Marathon` takes the app-server for, without pipe, buffer or deadline | abstract: `inside`, `told`, `work` |
| `CorpusRun` | the three drivers S3, S4 and S5, from the baseline to the artifact | `worktree` the candidate's files, `proposal` the validated response, `baseline`, `validation` exit codes, `output` the artifact |
| `SwarmController` | corpus runs, ingestion, promotion, the ranking's decision | `branch`, `attempts` are the tables (the position of an attempt is its `ordinal`); `pc`, `result`, `on`, `ordinal` belong to a runner; `api` is the promote request in progress |
| `AttemptLedger` | what the store promises, with no call that reads first and writes later | abstract: `status`, `ledger`, `alone` |
| `*Proofs` | the theorems: `CoolingProofs` about `ThermalSupervisor` and `FanGuard`, the others about the module they are named after | |
| `MC*` | instances for TLC: model values, functions given to constants, symmetry | |

One action stands for the code between two points where another actor can get in: a call
that leaves the process, a lock operation, a commit, a file operation. In `ModelRouter` the
helper, `nvidia-smi` and Ollama's API are a step each; in `SwarmController` a store call
is its read outside the transaction and its committed writes; in `FanGuard` every `ipmitool`
call is one, because another process, a reset or a kill can come between two of them. Time is
abstract: a deadline that may or may not pass is a choice, an idle time is "recent" and
later "expired". `GuardVerdicts` alone counts seconds, since it compares a client's patience
with its guard's watchdog and cooldown. Texts of `CorpusRun` are sequences of a few kinds of
piece, so that an edit, its position and its effect are computed as `edit.py` does it.

Faults are a constant set in each module (`FaultKinds` names them), so that a run says which
ones it admits. `mishaps` in `CanaryGuard` and `SwarmController` is a history variable: it
records which faults were met, so that a property can say which of them it survives.
`untold` in `FanGuard` and `swapped` in `GuardVerdicts` do the same for one fault. No
action reads them, except that a fault not in `Faults` does not happen.
Definitions marked "faulty variant" are plausible bugs. They belong to no specification;
putting one in the place of the definition after it makes the property it is named with in
`PROJECT.json` fail.

## Runs

| Run | Instance | Shows |
| --- | --- | --- |
| `router_safety` | 3 handlers, Qwen and one Ollama alias, slow starts | a leased Qwen is healthy; the router implements `ModelLeases` |
| `router_faults` | 2 handlers, two Ollama aliases, all nine faults | exact counts, a stop meets no lease, the reaper spares leases |
| `router_live` | 2 handlers, one Ollama alias, slow starts, stops and unloads that fail before or after their effect, clients that never take their answer | `begin` and `end` return; an idle model's record is released in the end |
| `router_co_residency` (violated) | 2 handlers, no fault | Qwen and an Ollama model meet on the cards |
| `thermal` | the whole module, no parameter | no restart after a thermal stop, no engine outlives its unit, a hot engine is stopped |
| `canary` | a guard of one card and a guard of both, all six faults | capped workloads, restored limits, earned passes, recorded runs |
| `verdicts` | every guard file of the repository with its client, its own key or that of the guard it builds on | the files of each guard agree with one another; pass has every layer's evidence, the pinned engine runs, an honest run passes, the client gets the answer it asked for and gives up only when the cards needed longer |
| `fans` | the daemon and one hook, three policies, two faults out of six kinds | file and registers agree; cards at HIGH get full fans and warm cards get their load |
| `marathon` | Wiphand, the service, an operator; two tasks, one of them gated | completion earned, gated turns one at a time, whole queue records, the lock comes free unless a call of the app-server hangs; the controllers implement `TaskQueue`, so that completion is kept too |
| `app_server` | one `host-run`, a pipe of three messages, all four faults of a server, which may fall within a message | the wait ends unless `readline` holds half a line, valid work is kept, no server is left; the client implements `TurnCall`, so that only a turn that is over is returned |
| `corpus` | three drivers, the four tasks of `fixtures.py`, eight texts a model may propose, errors at any step, writes that are cut off, time-outs | a pass is a repair, an artifact that names no error is complete and blames no repair, an accepted edit is what the profiles judge |
| `swarm` | 2 runners and the API on one branch, two attempts, aborts and overlap | earned promotion, agreement with the ranking, verdicts last; the store implements `AttemptLedger` |

The one violation is of a statement two documents make and the code does not keep; `findings`
in `PROJECT.json` quotes them.

Why the bounds are enough to be of use. Two handlers are what a race between a request and a
request needs, the third lets a request wait while one holds the lock and one holds a
lease; the two Ollama aliases of `router_faults` make the preflight's loop and the reaper's
loop run more than once. The two guards have cards in common and one of them a card
of its own, so a limit is set and restored partly, wholly, and by both. The marathon's
three processes are all that the deployment has, the operator standing for a second hand-run
command; two tasks are what "next" needs. Two attempts of one branch are enough for evidence
of one to be taken for evidence of the other; branches share nothing else than
the budget of their task. `verdicts` has no bound: it is the whole catalog, with all
combinations of what its gates tell apart. Two fan faults let one undo or hide the other;
temperatures are one of each band that the thresholds make; the three policies are no cap, a
cap that fixes the duty and one that leaves it to the board. The pipe of three messages holds
an answer with a notification before and after it. The texts of `corpus` include the empty one, one that
occurs twice, one that does not occur, one that overlaps itself (a part of the indentation, which
`str.count` counts once), the repair, the repair with trailing blanks, and the tests' own. A
counter that could grow for ever (requests, leases, polls, turns)
is bounded by the sets of threads and tasks; the numeric bounds are `MaxAttempts`, `MaxUpsets`
and `PipeRoom`.
`SYMMETRY` is used in safety runs only, over interchangeable threads or runners.

## Fairness

- Router: a thread that is not blocked goes on (WF); a thread waiting for the lock gets it if
  it is released again and again (SF: Python's lock is not fair, but its waiters are
  woken); the clock runs; a loading service gets healthy unless it may be slow; the
  reaper's repeated release of one model does not fail for ever (SF). These threads are in calls with
  a time-out of their own. The proxied request is not: `wfile.write` has none and `response.read` has
  600 seconds per `recv` (`router.py:431`), so its end (`ProxyReturns`) is under no fairness, and a
  client that never takes its answer keeps its thread and its lease. No client has to
  send anything and no fault has to happen.
- Supervisor: it and systemd go on (WF). `ReadingSpec` adds that `nvidia-smi` answers now and
  then (SF). Without that addition, under `RunningSpec`, a hot engine can run for ever: a reading that fails
  after the start is printed and tried again. `deployment/README.md` promises the
  stop without that reservation.
- Guards: a guard goes on (WF on its regular steps). Faults are not forced, and the workload
  need not end: the watchdog has to end it.
- Marathon: a command that runs goes on, unless a call of the app-server hangs (`Hangs`): one that
  does not answers or raises. A hanging call need never be over (`HangEnds` is under no fairness).
  The path unit starts what is due. Nothing is assumed of the agent or the operator.
- Fan guard: the daemon goes on with its checks (WF) and gets the lock now and then (SF: it
  waits at most its time-out, and tries again at the next check); a hook that has begun goes
  on. Faults are counted by `MaxUpsets`, so that they come to an end; an `ipmitool` or
  `nvidia-smi` that hangs is not among them.
- App-server client: the client goes on, a terminated server ends or is killed, and the clock runs (WF). `Reply` is
  strongly fair: a server that goes on talking also answers. That is more than the code gives: one that
  notifies for ever without an answer holds `_request` for ever (`codex_marathon.py:302`). A server
  may stop instead, with the fault `silence`, and the deadline has to end the wait - except when it
  stopped within a line: `WaitEnds` names that state (`StuckInReadline`).
- `SwarmController`, `CorpusRun` and `GuardVerdicts` have safety properties only and no fairness.

## What is proved

Every proof is for all values of the constants under the named ASSUMEs of its module, and for
every set of faults; what a property survives and what it excludes is written in the property.
TypeOK of each module is the theorem `TypeCorrect` of its proof module (`UnitTypeCorrect` for
`UnitTypeOK` of `ThermalSupervisor`); the runs do not check it again, but for every module it
is a part of the invariant that the other theorems rest on, or is proved from it (for
`GuardVerdicts` with `FilesAgree`, see below).
Four modules state what a component promises as an abstract specification, and the
detailed one is proved to implement it: `RouterImplementsLeases`, `MarathonImplementsQueue`,
`StoreImplementsLedger` and `ClientImplementsCall`. The last of them closes a gap between two
models: it shows that `Marathon` may have the whole client as the steps it has for it.

`ModelRouterProofs`, for every finite set of handlers and every set of aliases:

| Theorem | Says | Needs |
| --- | --- | --- |
| `CountsCorrect` | `_active` is the number of lease holders, always | `LockInv`, `RequestInv` |
| `StopIsSafe` | while the reaper is about to stop Qwen nobody holds or prepares a lease | `StopInv` |
| `ReaperIsSafe` | a reaper step takes away only what is unleased and idle for its time | `StopInv`, `StaleInv` |
| `LeasedQwenServed` | a leased Qwen is healthy | no fault `exit` or `crash` |
| `RouterImplementsLeases` | the router implements `ModelLeases` | no fault but `slow` and `ps` |

The assumptions are the named ASSUMEs of `ModelRouter`: finitely many handlers, one Qwen alias
that is not an Ollama alias, thread names that differ. The counts are not inductive by themselves: that a
grant adds one to the right count needs to know that the granting thread is the one in
the lock and that its request names an alias. So the invariant `RouterInv` is the
conjunction of the type, of `LockInv` (the holder of the lock is exactly the thread whose
place is inside it), `RequestInv` (a handler in `do_POST` has an alias),
`ActiveCountsLeases`, `StopInv` (a reaper at its stop found no lease, and
nobody got in since) and `StaleInv` (what was old at the reaper's reading of the clock is old
still, or forgotten). There is one lemma per conjunct, each with one step per group of actions that
can disturb it; the conjuncts are combined in `InvHolds`, and the theorems follow from it.
`ServiceInv` adds, for runs in which Qwen does not leave by itself, that it never waits for
a restart. The refinement maps each step of the router to one of `ModelLeases` or to a
stutter, with the leases of threads that are inside `Leased` as `held`, `lastUsed` as `idle`,
and Ollama's models with Qwen's unit as `loaded`.

The other seven proof modules go the same way: an invariant that is a conjunction of named
parts, a lemma per part or per group of actions, and the theorems from it.

| Module | Theorems | The invariant, and why the properties alone are not inductive |
| --- | --- | --- |
| `CanaryGuardProofs` | `JobsRunCapped`, `LimitsAreRestored`, `PassesAreEarned` | `CanaryInv`: what each place in `run()` means for the guard's variables (`PathInv`), no second guard without the fault overlap, which cards are capped by now, which are still owed a limit and which have it back |
| `CoolingProofs` | `HeatIsFinal`, `EngineIsWatched`, `ModeFileIsTrue` | `ThermalInv`: the supervisor runs only in an active unit, and a stop that must not lead to a restart has left status 0 - systemd's decision comes a step after the exit. `FanInv`: the lock's holder is the caller inside; one that writes has left the last commands of one plan (`WriteInv`), and the registers hold what the first ones wrote. `PlanShape` says of every plan that each zone is told once and the file last |
| `MarathonProofs` | `CompletionIsEarned`, `CompletionLasts`, `TurnsAreGated`, `RequestsAreWhole`, `MarathonImplementsQueue` | `MarathonInv`: who holds the lock, and that the state a controller has loaded is the one on disk for as long as it does - that is what makes its whole-file save safe; for `RequestsAreWhole` also that a temporary file is whole once its writer is past the write |
| `AppServerClientProofs` | `TurnsAreOver`, `ServersAreClosed`, `ValidTurnsAreKept`, `ClientImplementsCall` | `ClientInv`: there is at most one answer under way and it is to the last request (`AnswerInv`), and no message says more of the turn than is true (`TruthInv`), over the buffer and the pipe together; for the refinement also that no turn is left with a server that is gone (`PlaceInv`) |
| `SwarmControllerProofs` | `PromotionsAreEarned`, `VerdictsAreFinal`, `PromotionsAreReady`, `StoreImplementsLedger` | `SwarmInv` ties a runner's place to the evidence its attempt has by then; `AloneInv` and `SoundInv` are the two stronger ones for one process per branch and for runs without a mishap; `LedgerInv` adds, whatever the faults, that a branch exists while somebody works on it (`ExistsInv`) and which attempt a runner makes (`MakesInv`) |
| `CorpusRunProofs` | `PassesAreRepairs`, `VerdictsAreComplete`, `ValidEditsApply` | `RunInv`: what was validated is in force, the worktree is as supplied until the edit, the tests are the supplied ones, a recorded exit code is the one these files give, and without an error the baseline and the profiles are on record as far as the driver has come. For `ValidEditsApply` also `EditInv`, what an edit has made of the files; it rests on lemmas about replacing the first occurrence of a text |
| `GuardVerdictsProofs` | `PassesHaveEvidence`, `PinnedEnginesRun`, `HonestRunsPass`, `ClientsAreAnswered`, `ClientsOutlast` | `VerdictInv`: a recorded verdict is the judgement on what is still there to be read (`RecordInv`), the digests hold from their reading on (`EngineInv`), no capture of an earlier run survives it (`CaptureInv`), and a request has taken no longer than its parts (`TimeInv`) |

The theorems of `GuardVerdictsProofs` have the form `Spec /\ []FilesAgree => []P`, and that is
the argument: what a guard reports has two sources, its run and its files. `VerdictInv` is the
run's part. It is proved without a look at the catalog, for all orders of swaps, refusals, errors
and time-outs, and would be true of files that do not exist yet. `FilesAgree` is the files'
part: it says of the values that loading a guard's chain of modules leaves behind that who
answers, what the layers ask of an output, what the command line promises, which engine is
pinned and how long a client waits fit one another. It says nothing of a run, and TLC checks it
for every guard of the repository (`verdicts`). A new guard file needs that check and no proof.

`MarathonImplementsQueue` maps the processes away: `done` is `completed`, `passed` the tasks
whose marker says pass, `working` the task of the turn that goes on. A kill, a deadline and
an agent that ends are the abstract `Drop`; a turn starts alone because only the lock's
holder starts one and leaves none behind, and on the next task because what its controller
loaded is still what is on disk. `Complete` is a save after a turn or the early save of a
task that had passed before; that both save the next task, and one that has passed, is the
part of `KnowledgeInv` that goes with the place of the holder. `StoreImplementsLedger` has
no exception: `alone` is the absence of the mishap `overlap`, and each abstract action says what
holds with it and what without it. A store call whose read is out of date by the time it
writes is therefore a step of the ledger too, only one that promises less.

`RequestsAreWhole` supposes one process that enqueues (`OneEnqueuer`), which is how the
deployment works: all enqueuers write through the same temporary file, so of two, one can
publish what the other has just truncated. Every other command may run beside it.

Assumptions worth knowing: a guard of `CanaryGuard` has at least one card; `Daemon` is a caller
of `FanGuard`; the pipe of `AppServerClient` has room for a message; a task of `CorpusRun` has
a test file with an assertion, and no file is supplied with trailing blanks.

Only model-checked: liveness (`BeginAndEndReturn`, `IdleRecordReleased`, `HotEngineStopped`,
`RunsRecorded`, `LockReleased`, `HotGetsFull`, `WarmGetsLoad`, `WaitEnds`), which is out of
the prover's reach, as is ENABLED; and `FilesAgree`. It is a fact about the finite catalog of the
repository, computed from it by functions that follow a chain of modules, and what a recursive
definition yields cannot be proved here. The only constant is the set of guards that are
asked; the run has all of them, and what a smaller set allows is among it, so that TLC has
checked every value of the constant.

## What the properties leave open

What the code allows, found while the models were written, and therefore excluded by name in
a property or covered by none:

- Router: a Qwen that becomes healthy after its request's deadline is never stopped, nor is one
  that a restarted router finds, or one beside a dead reaper: `begin` failed, so `end` is not called, and
  `reap_once` skips a model without a time of use (`router.py:277`).
- Router: a client that stops reading keeps its thread and its lease, and with it the model on the
  cards, for as long as its connection lasts (`router.py:431`).
- Guards: with no lock, one guard restores the limits under the other's workload
  (excluded by `overlap`). A telemetry field that is no number raises past `terminate`
  (`p40-canary-guard.py:254`), and a workload may survive SIGKILL: both leave it running at full power.
- Guard variants: some runs leave no result. A field that is no number (`p40-canary-guard.py:98`) and a
  process that outlives SIGKILL while its error is handled leave every guard's `run` past its own
  handler, an OSError of a digest or of T32's directory (`p40-t32-qwen-wgcap-gateup-guard.py:126`)
  comes before it, one of a layer's reading or of `persist` after it, and a layer that reads the
  stderr file of a base run that left none raises too. The model has all of them (`Escapes`,
  `PinRaises`, `RecordRaises`, `Lose`), and no property denies them.
- Guard variants: the digest is read, and the engine opened later; a swap in between is run
  (`swapped`). A client can give up within watchdog and cooldown: 1800 s and up to 900 s exceed its 2400 s.
- Fan guard: once `full` is on file no register is compared again, so one whose write failed
  stays as it is until the cards have cooled to LOW. A card that reports `[N/A]` counts as 0 degrees.
  `research/results/2026-09-08-fan-policy.md` describes the policy as deployed (100/100/100); the
  run has the program's own defaults.
- Supervisor: see Fairness.
- Marathon: a request published while another command holds the lock is not taken until the
  next one is published: the path unit looks for changes only (`codex_marathon.py:395`).
- Marathon: two enqueuers at once share one temporary file, so that one can publish the other's
  empty one (`codex_marathon.py:451`); the deployment has one.
- App-server: a reply that is in the reader's buffer is not seen by `select`, and the wait for it times
  out (`codex_marathon.py:286`); a server that keeps notifying holds a request past
  its deadline (`:302`), and one that writes half a line and stops holds `readline`, which has
  none (`:289`); either holds the marathon's lock; a failing `initialize` leaves the server to itself (`:267`).
- Drivers: S3 runs the one profile the model asked for and lets a patch change the tests
  (`swarm_s3_patch_fixture.py:132`), and without a valid response ends with an unbound name and no
  artifact (`:143`); nor is there one when writing it fails. `str.count` does not count occurrences that
  overlap, so that an edit is accepted whose text begins at more than one place (`edit.py:38`, `:49`); the
  first is replaced. S5 computes a pass from the profiles that ran before an error
  (`swarm_s5_text_edit_corpus.py:110`; a test that prints and times out raises in `harness.py:92`);
  ingestion refuses such an artifact.
- `SettledIsFinal` and `PromotedIsReady` hold while one process works on a branch at a time;
  `finish_attempt` and `promote` write over any status they find. `PromotedIsReady` also fails
  after an aborted ingestion: `promote` looks for passing records and not for failing ones,
  the ranking does the opposite. `PromotionIsEarned` survives all of it.
- `SwarmController` lets a runner ingest for a branch that has attempts already. The store and
  its tests do that; the script `swarm_ingest_artifact.py` makes a new task each time.
- A Qwen crash is in `router_faults` but not in the co-residency run, where it would
  add further ways to the same violation.

## Not modelled

- The host guard: its command line refuses anything but a dry run, so that lock, watchdog and
  cleanup are reached by its tests only.
- The telemetry gateway, the WGCAP reader and the T03 validators: one process reads or parses
  and checks, with no state between two calls; they are formats and floating-point arithmetic.
- The S0 probe, the Ollama benchmark and the media canary: sequential measurements.
- CUDA and C++ kernels, the replay tool: numerical. Engine patches: their base is elsewhere.
  The research record: data.
- In modelled parts: request parsing, authorisation and streamed bytes (guards of the first
  action at most); logging and event files; the numeric score of the ranking; the task row of the
  search controller (one process creates a task's branches, and no code closes a task);
  `request_plan`, which no driver calls; patches with other headers than git prints, one per
  file; `p40-bmc-read`, which is a caller of the fan guard's lock that writes nothing.

## Plan

Done: every component with a protocol of its own has a module, a run and proofs.
What could follow:

1. `Cooling`: `FanGuard` and `ThermalSupervisor` over one temperature, so that the fans' delay
   and the supervisor's limit are checked against each other. Their names are apart already, as
   `CoolingProofs` extends both.
2. The power limits of `CanaryGuard` and the router's Qwen on the same cards: nothing in the code
   relates them, so a property has to come from the operating rules first.
3. `CanaryGuard` against a job that runs between a cap and a restore, as a further refinement;
   and the base run of `GuardVerdicts` against `CanaryGuard`.
4. `HostGuard`, when its command line allows a real run.

## Running

`tlc -config Canary.cfg MCCanaryGuard.tla` and the like; `PROJECT.json` pairs modules and
configurations. `tlapm ModelRouterProofs.tla` and the like check the proofs. The largest runs
(`router_faults`, `swarm`) reach about 1.5 million states in under a minute on two cores;
`verdicts` has some 270,000, `fans` 180,000, `marathon` 130,000, `corpus` 27,000 and `app_server` 20,000.
