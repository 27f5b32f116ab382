--------------------------- MODULE GuardVerdicts ---------------------------
(***************************************************************************)
(* One request of a client to one of the guards of GuardCatalog: which     *)
(* engine and command line the layered modules end up with, whether it is  *)
(* run, what verdict the layers of run() reach on what it printed, what is *)
(* recorded, and what the client sees.  CanaryGuard has the inside of the  *)
(* base run; here it is one launch and one end.                            *)
(***************************************************************************)
EXTENDS GuardCatalog, GuardClients

CONSTANT Identities   \* the guards that requests are sent to
ASSUME IdentitiesAssumption == Identities \subseteq Guards

VARIABLES client,   \* who asks: [asks, waits], waits = 0 for an operator
          guard,    \* the guard behind the key the client presents
          globals,  \* what loading its modules has left in their globals
          dry,      \* the request's dry_run
          stage,    \* where the guard's process is
          disk,     \* what is installed at the engine paths it looks at
          ran,      \* the executable that was launched
          base,     \* how the base run ended
          shown,    \* what a base run that passed had printed
          capture,  \* the capture file of the guard: of which run it is
          spent,    \* seconds since the request
          cooled,   \* seconds of them in cool_down
          record,   \* the persisted result
          swapped   \* history: the engine changed after its digest was read

vars == <<client, guard, globals, dry, stage, disk, ran, base, shown, capture,
          spent, cooled, record, swapped>>

request == <<client, guard, globals, dry>>

-----------------------------------------------------------------------------
\* What loading a chain of modules amounts to

Chain[g \in Guards] ==
    {g} \union IF Catalog[g].base = "" THEN {} ELSE Chain[Catalog[g].base]

Root(g) == CHOOSE h \in Chain[g] : Catalog[h].base = ""

\* of two modules of a chain, the one that loads the other
Outermost(S) == CHOOSE h \in S : S \subseteq Chain[h]

\* the value of the global a of module m when g's main() runs: of the modules
\* that give it one, the outermost does so last
Value(g, m, a) ==
    LET setters == {h \in Chain[g] : /\ h = m \/ m \in Catalog[h].on
                                     /\ Catalog[h][a] # Variant("")[a]}
    IN IF setters = {} THEN Variant("")[a] ELSE Catalog[Outermost(setters)][a]

\* the guard whose command, result directory and profile main() uses
Identity(g) ==
    Outermost({h \in Chain[g] : h = Root(g) \/ Root(g) \in Catalog[h].on})

\* the command line: each model_argv() edits the one it captured on loading
Argv(g) ==
    LET Line[h \in Guards] ==
          LET c == Catalog[h] IN
          IF c.base = "" \/ c.flags # {}
          THEN [engine |-> Value(g, h, "engine"),
                tokens |-> IF c.n_new # 0 THEN c.n_new
                           ELSE Value(g, h, "tokens"),
                flags |-> c.flags]
          ELSE LET inner == Line[c.base] IN
               [engine |-> inner.engine,
                tokens |-> IF c.n_new # 0 THEN c.n_new ELSE inner.tokens,
                flags |-> inner.flags \union
                          {f \in {c.adds} : c.after \in inner.flags}]
    IN Line[Identity(g)]

\* the modules whose run() a request goes through before the base run
Path(g) ==
    LET From[h \in Guards] ==
          IF Catalog[h].calls = "" THEN {h}
          ELSE {h} \union From[Catalog[h].calls]
        runs == {h \in Chain[g] : /\ Catalog[h].calls # ""
                                  /\ Root(g) \in Catalog[h].on}
    IN IF runs = {} THEN {Root(g)} ELSE From[Outermost(runs)]

\* the cache lines that m's run() accepts in a process of g
Marker(g, m) ==
    Catalog[Outermost({m} \union
                      {h \in Chain[g] : m \in Catalog[h].remarks})].cache

Layer(g, m) ==
    [name |-> m, pins |-> Catalog[m].pins, engine |-> Value(g, m, "engine"),
     digest |-> Value(g, m, "digest"), stdout |-> Value(g, m, "stdout"),
     cache |-> Marker(g, m), quiet |-> Catalog[m].quiet,
     shows |-> Catalog[m].shows]

Loaded(g) ==
    [identity |-> Identity(g), argv |-> Argv(g),
     watchdog |-> Value(g, Root(g), "watchdog"),
     layers |-> {Layer(g, m) : m \in Path(g)}]

\* the layers that compare the engine with its digest, and those that read
\* what it printed
Pinning(loaded) == {layer \in loaded.layers : layer.pins # "no"}
Judging(loaded) == {layer \in loaded.layers : Catalog[layer.name].base # ""}

\* the engines that a guard's process looks at or runs
Engines(loaded) ==
    {loaded.argv.engine} \union {layer.engine : layer \in Pinning(loaded)}

Installable(path) ==
    {"other", "absent"} \union
    {Catalog[g].digest : g \in {h \in Guards : /\ Catalog[h].engine = path
                                             /\ Catalog[h].digest # ""}}

Installations(loaded) ==
    {d \in [Engines(loaded) ->
             UNION {Installable(p) : p \in Engines(loaded)}] :
       \A p \in Engines(loaded) : d[p] \in Installable(p)}

CacheFlags == Cached(4)

\* what the engine prints of its own accord if the command line took effect
Promised(line) ==
    [stdout |-> line.tokens,
     cache |-> line.flags \intersect CacheFlags,
     marks |-> (line.flags \ (CacheFlags \union {"env", "omp24", "omp32",
                                                  "numactl", "cuda_profile"}))
               \union {e \in {"group_stats"} : line.engine = "t22"},
     clean |-> TRUE]

Silent == [stdout |-> 0, cache |-> {}, marks |-> {}, clean |-> TRUE]

Outputs(loaded) ==
    IF Judging(loaded) = {} THEN {Silent}
    ELSE [stdout : {0, 16, 64}, cache : CacheLines \union {{}},
          marks : SUBSET Promised(loaded.argv).marks, clean : BOOLEAN]

Hand(g) == [asks |-> g, waits |-> 0]

\* between two requests no guard's process exists
Unloaded ==
    [identity |-> "qwen", argv |-> [engine |-> "", tokens |-> 0, flags |-> {}],
     watchdog |-> 0, layers |-> {}]

NoRecord == [status |-> "none", owner |-> "none"]

-----------------------------------------------------------------------------
Init ==
    /\ client = Hand("qwen")
    /\ guard = "qwen"
    /\ globals = Unloaded
    /\ dry = FALSE
    /\ stage = "idle"
    /\ disk = [p \in {} |-> ""]
    /\ ran = ""
    /\ base = "none"
    /\ shown = Silent
    /\ capture = "none"
    /\ spent = 0
    /\ cooled = 0
    /\ record = NoRecord
    /\ swapped = FALSE

\* A client starts, with its own key or with the one of the guard it builds
\* on.  Whatever is installed, and a capture of an earlier run, is there.
Ask ==
    /\ stage = "idle"
    /\ \E g \in Identities, d \in BOOLEAN :
         /\ client' \in {c \in Clients : c.asks = g} \union {Hand(g)}
         /\ guard' \in {g, Catalog[g].base} \ {""}
         /\ globals' = Loaded(guard')
         /\ dry' = d
         /\ disk' \in Installations(globals')
         /\ capture' \in {"none"} \union
                         {c \in {"old"} : "capture" \in Catalog[g].shows}
    /\ stage' = "asked"
    /\ UNCHANGED <<ran, base, shown, spent, cooled, record, swapped>>

\* persist() in the directory of the identity main() answers for
Persist(status) ==
    /\ record' = [status |-> status, owner |-> globals.identity]
    /\ stage' = "done"

\* main(): another command than EXPECTED_ORIGINAL_COMMAND
Reject ==
    /\ stage = "asked"
    /\ client.asks # globals.identity
    /\ stage' = "rejected"
    /\ UNCHANGED <<request, disk, ran, base, shown, capture, spent,
                   cooled, record, swapped>>

Accepted == stage = "asked" /\ client.asks = globals.identity

DryRun ==
    /\ Accepted
    /\ dry
    /\ Persist("dry_run")
    /\ UNCHANGED <<request, disk, ran, base, shown, capture, spent,
                   cooled, swapped>>

\* the engine is not the pinned one: recorded by the layer, nothing is run
PinFails ==
    /\ Accepted
    /\ ~dry
    /\ \E layer \in Pinning(globals) : disk[layer.engine] # layer.digest
    /\ Persist("fail")
    /\ UNCHANGED <<request, disk, ran, base, shown, capture, spent,
                   cooled, swapped>>

\* faulty variant: the capture of an earlier run is left where it is
PinHoldsOnly ==
    /\ Accepted
    /\ ~dry
    /\ \A layer \in Pinning(globals) : disk[layer.engine] = layer.digest
    /\ stage' = "pinned"
    /\ UNCHANGED <<request, disk, ran, base, shown, capture, spent, cooled,
                   record, swapped>>

\* the engine is the pinned one; T32 removes the capture of an earlier run
PinHolds ==
    /\ Accepted
    /\ ~dry
    /\ \A layer \in Pinning(globals) : disk[layer.engine] = layer.digest
    /\ stage' = "pinned"
    /\ capture' = "none"
    /\ UNCHANGED <<request, disk, ran, base, shown, spent, cooled,
                   record, swapped>>

\* an OSError of the engine's digest, or of T32's mkdir or unlink: main()
\* ends in a traceback, before persist()
PinRaises ==
    /\ Accepted
    /\ ~dry
    /\ Pinning(globals) # {}
    /\ stage' = "lost"
    /\ UNCHANGED <<request, disk, ran, base, shown, capture, spent, cooled,
                   record, swapped>>

\* somebody builds or removes the engine between its digest and its launch
Rebuild ==
    /\ stage = "pinned"
    /\ \E p \in DOMAIN disk, content \in {"other", "absent"} :
         disk' = [disk EXCEPT ![p] = content]
    /\ swapped' = (swapped \/ disk' # disk)
    /\ UNCHANGED <<request, stage, ran, base, shown, capture, spent,
                   cooled, record>>

\* the base run returns before its launch, or raises in it: no output file
Refuse ==
    /\ stage = "pinned"
    /\ base' = "blank"
    /\ stage' = "over"
    /\ UNCHANGED <<request, disk, ran, shown, capture, spent, cooled,
                   record, swapped>>

Launch ==
    /\ stage = "pinned"
    /\ disk[globals.argv.engine] # "absent"
    /\ ran' = disk[globals.argv.engine]
    /\ stage' = "running"
    /\ UNCHANGED <<request, disk, base, shown, capture, spent, cooled,
                   record, swapped>>

TerminateSeconds == 4

\* the workload ends by itself, or is terminated after WATCHDOG_SECONDS; its
\* output is summarised, and one that captures has written what it captured
WorkloadEnds ==
    /\ stage = "running"
    /\ \/ /\ base' = "passed"
          /\ shown' \in Outputs(globals)
          /\ spent' \in {0, globals.watchdog}
       \/ /\ base' = "failed"
          /\ spent' = globals.watchdog + TerminateSeconds
          /\ UNCHANGED shown
    /\ capture' \in {capture} \union
                    {c \in {"new"} : "capture" \in globals.argv.flags}
    /\ stage' = "cooling"
    /\ UNCHANGED <<request, disk, ran, cooled, record, swapped>>

MinCooldown == 300
MaxCooldown == 900

\* cool_down: calm cards after at least MinCooldown, or a failure that fails
\* the run: of the fans or cards at any time, or of patience
CoolDown ==
    /\ stage = "cooling"
    /\ \E seconds \in {0, MinCooldown, MaxCooldown}, calm \in BOOLEAN :
         /\ calm => seconds >= MinCooldown
         /\ cooled' = seconds
         /\ spent' = spent + seconds
         /\ base' = IF calm THEN base ELSE "failed"
    /\ stage' = "over"
    /\ UNCHANGED <<request, disk, ran, shown, capture, record, swapped>>

\* an error of the guard's own before the output is summarised, or after it,
\* that run() takes
GuardError ==
    /\ stage \in {"running", "cooling"}
    /\ base' = IF stage = "running" THEN "blank" ELSE "failed"
    /\ stage' = "over"
    /\ UNCHANGED <<request, disk, ran, shown, capture, spent, cooled,
                   record, swapped>>

\* and one that it does not take: a row of nvidia-smi that is no number, a
\* process that outlives SIGKILL by two seconds while the error is handled
Escapes ==
    /\ stage \in {"pinned", "running", "cooling"}
    /\ stage' = "lost"
    /\ UNCHANGED <<request, disk, ran, base, shown, capture, spent, cooled,
                   record, swapped>>

\* an eager layer reads the stderr file that a base run did not leave
Loses ==
    /\ base = "blank"
    /\ \E layer \in Judging(globals) : layer.pins = "eager"

Accepts(layer) ==
    /\ layer.pins # "no" => shown.stdout = layer.stdout
    /\ layer.cache # {} => shown.cache \in layer.cache
    /\ layer.quiet => shown.clean
    /\ layer.shows \subseteq shown.marks
    /\ "capture" \in layer.shows => capture # "none"

\* the layers in turn: each can only make a pass a failure, or raise
Judge ==
    /\ stage = "over"
    /\ ~Loses
    /\ Persist(IF /\ base = "passed"
                  /\ \A layer \in Judging(globals) : Accepts(layer)
               THEN "pass" ELSE "fail")
    /\ UNCHANGED <<request, disk, ran, base, shown, capture, spent,
                   cooled, swapped>>

\* IsADirectoryError: main() ends in a traceback, before persist()
Lose ==
    /\ stage = "over"
    /\ Loses
    /\ stage' = "lost"
    /\ UNCHANGED <<request, disk, ran, base, shown, capture, spent,
                   cooled, record, swapped>>

\* an OSError of a layer that reads stderr, or of persist()
RecordRaises ==
    /\ \/ stage = "over"
       \/ /\ Accepted
          /\ \/ dry
             \/ \E layer \in Pinning(globals) : disk[layer.engine] # layer.digest
    /\ stage' = "lost"
    /\ UNCHANGED <<request, disk, ran, base, shown, capture, spent, cooled,
                   record, swapped>>

Over == stage \in {"done", "rejected", "lost"}

\* subprocess.run(timeout=...) has killed ssh; the guard did not notice
GaveUp == client.waits # 0 /\ spent > client.waits

\* the next request finds nothing of this one but what is on the disk
Forget ==
    /\ Over
    /\ client' = Hand("qwen")
    /\ guard' = "qwen"
    /\ globals' = Unloaded
    /\ dry' = FALSE
    /\ stage' = "idle"
    /\ disk' = [p \in {} |-> ""]
    /\ ran' = ""
    /\ base' = "none"
    /\ shown' = Silent
    /\ capture' = "none"
    /\ spent' = 0
    /\ cooled' = 0
    /\ record' = NoRecord
    /\ swapped' = FALSE

Next ==
    \/ Ask
    \/ Reject
    \/ DryRun
    \/ PinFails
    \/ PinHolds
    \/ PinRaises
    \/ Rebuild
    \/ Refuse
    \/ Launch
    \/ WorkloadEnds
    \/ CoolDown
    \/ GuardError
    \/ Escapes
    \/ Judge
    \/ Lose
    \/ RecordRaises
    \/ Forget

Spec == Init /\ [][Next]_vars

-----------------------------------------------------------------------------
TypeOK ==
    /\ client.asks \in Guards /\ client.waits \in 0..2400
    /\ guard \in Guards
    /\ globals.identity \in Guards
    /\ dry \in BOOLEAN
    /\ stage \in {"idle", "asked", "pinned", "running", "cooling", "over",
                  "done", "rejected", "lost"}
    /\ stage \in {"pinned", "running"} => globals.argv.engine \in DOMAIN disk
    /\ base \in {"none", "blank", "failed", "passed"}
    /\ shown.stdout \in {0, 16, 64}
    /\ shown.cache \in CacheLines \union {{}}
    /\ shown.clean \in BOOLEAN
    /\ capture \in {"none", "old", "new"}
    /\ spent \in 0..(Catalog["qwen"].watchdog + TerminateSeconds + MaxCooldown)
    /\ cooled \in {0} \union MinCooldown..MaxCooldown
    /\ record.status \in {"none", "dry_run", "fail", "pass"}
    /\ swapped \in BOOLEAN

-----------------------------------------------------------------------------
(* What the files of one guard, as loaded, have to agree on.  These are    *)
(* statements about the catalog alone; the properties follow from them     *)
(* (GuardVerdictsProofs).                                                  *)

\* main() answers for the guard whose key was presented
AnswersFor(loaded, g) == g \in Guards /\ loaded.identity = g

\* the layers accept no output that lacks what the command line promises
AsksEnough(loaded) ==
    LET judges == Judging(loaded)
        promised == Promised(loaded.argv)
    IN /\ judges # {} =>
            /\ \E layer \in judges :
                  layer.pins # "no" /\ layer.stdout = promised.stdout
            /\ \A line \in CacheLines \union {{}} :
                  (\A layer \in judges : layer.cache # {} => line \in layer.cache)
                  => promised.cache \subseteq line
            /\ promised.marks \subseteq UNION {layer.shows : layer \in judges}
       /\ "capture" \in loaded.argv.flags =>
            \E layer \in judges : "capture" \in layer.shows

\* and they accept what it promises
AsksNoMore(loaded) ==
    LET promised == Promised(loaded.argv) IN
    \A layer \in Judging(loaded) :
       /\ layer.pins # "no" => layer.stdout = promised.stdout
       /\ layer.cache # {} => promised.cache \in layer.cache
       /\ layer.shows \subseteq promised.marks
       /\ "capture" \in layer.shows => "capture" \in loaded.argv.flags

\* the digest in the outermost file that states one
OwnDigest(g) ==
    LET From[h \in Guards] ==
          IF Catalog[h].digest # "" \/ Catalog[h].base = ""
          THEN Catalog[h].digest
          ELSE From[Catalog[h].base]
    IN From[g]

\* the engine on the command line is one that a layer compares with digest
PinsDigest(loaded, digest) ==
    \E layer \in Pinning(loaded) :
       layer.engine = loaded.argv.engine /\ layer.digest = digest

\* a client of the guard outwaits watchdog, termination and least cooldown,
\* and no guard's watchdog has more patience than Qwen's
IsOutwaited(loaded) ==
    /\ loaded.watchdog \in Nat
    /\ loaded.watchdog <= Catalog["qwen"].watchdog
    /\ \A c \in Clients : c.asks = loaded.identity =>
          c.waits >= loaded.watchdog + TerminateSeconds + MinCooldown

Agree(loaded, g) ==
    /\ AnswersFor(loaded, g)
    /\ AsksEnough(loaded)
    /\ AsksNoMore(loaded)
    /\ OwnDigest(g) # "" => PinsDigest(loaded, OwnDigest(g))
    /\ IsOutwaited(loaded)

(* The files of every guard agree, though up to eight of them assign to    *)
(* one another: on who answers, on what is asked of an output and what the *)
(* command line promises of it, on the engine and its digest, and on how   *)
(* long a run may take.                                                    *)
FilesAgree == stage = "asked" => Agree(globals, guard)

-----------------------------------------------------------------------------
(* A recorded pass stands on its own evidence, though the gates that ask   *)
(* for it are spread over up to eight files that assign to one another:    *)
(* the base run passed, the output is the reference of as many tokens as   *)
(* the command line asked for, every flag on that command line that the    *)
(* engine acknowledges was acknowledged, and T32's capture is of this run. *)
PassHasEvidence ==
    record.status = "pass" =>
      /\ base = "passed"
      /\ Judging(globals) # {} =>
           /\ shown.stdout = globals.argv.tokens
           /\ Promised(globals.argv).cache \subseteq shown.cache
           /\ Promised(globals.argv).marks \subseteq shown.marks
      /\ "capture" \in globals.argv.flags => capture = "new"

(* What ran under a recorded pass is the executable whose digest the       *)
(* guard's own file pins, not the one of a guard it is built on: unless    *)
(* somebody rebuilt the engine after its digest had been read.             *)
RunsPinnedEngine ==
    record.status = "pass" /\ ~swapped /\ OwnDigest(guard) # "" =>
      ran = OwnDigest(guard)

(* No gate of a guard underneath refuses what the guard is about: a run    *)
(* whose engine printed all that its command line promises is a pass.      *)
HonestRunPasses ==
    /\ stage = "done"
    /\ base = "passed"
    /\ Judging(globals) # {} => shown = Promised(globals.argv)
    /\ "capture" \in globals.argv.flags => capture = "new"
    => record.status = "pass"

(* A key opens one guard, which answers to that guard's command only and   *)
(* files the result where that guard's results are read.                   *)
AnswersOwnClient ==
    /\ stage = "rejected" => guard # client.asks
    /\ stage = "done" => record.owner = client.asks /\ guard = client.asks

(* "1,800 s server watchdog plus mandatory 300 s cooldown and SSH slack":  *)
(* a client gives up on its guard only if the cards needed more than the   *)
(* mandatory cooldown, however long the workload ran.                      *)
ClientOutlastsMinimum == Over /\ GaveUp => cooled > MinCooldown
=============================================================================
