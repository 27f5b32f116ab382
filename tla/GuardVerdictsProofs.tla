------------------------ MODULE GuardVerdictsProofs ------------------------
(***************************************************************************)
(* Proofs about GuardVerdicts, for every set of guards that is asked.      *)
(* They separate what the run of a guard contributes to a verdict from     *)
(* what its files do.  VerdictInv is the run's part: it is proved without  *)
(* a look at the catalog, and would be true of any other.  The files' part *)
(* is FilesAgree, which TLC checks for each guard of the repository.       *)
(* Together they imply the properties.                                     *)
(***************************************************************************)
EXTENDS GuardVerdicts, TLAPS

\* the request is with the guard that main() answers for
Served == stage \in {"pinned", "running", "cooling", "over", "done", "lost"}

ClientInv == client \in Clients \/ client.waits = 0

AnswerInv ==
    /\ stage = "rejected" => client.asks # globals.identity
    /\ Served => client.asks = globals.identity
    /\ stage = "done" => record.owner = globals.identity

\* before its end a run has neither a result nor a duration
EarlyInv ==
    stage \in {"idle", "asked", "rejected", "pinned", "running"} =>
       base = "none" /\ spent = 0 /\ cooled = 0

Passes == base = "passed" /\ \A layer \in Judging(globals) : Accepts(layer)

\* what is recorded is the judgement on what is still there to be read
RecordInv ==
    /\ stage # "done" => record = NoRecord
    /\ stage = "done" => (record.status = "pass" <=> Passes)

OutputInv == base = "passed" => shown \in Outputs(globals)

\* the capture of an earlier run is gone before this one starts
CaptureInv ==
    stage \in {"pinned", "running", "cooling", "over"} \/ base = "passed" =>
       capture \in {"none", "new"}

\* the digests hold from their reading on, and what was launched had them
EngineInv ==
    ~swapped =>
      /\ stage = "pinned" =>
           \A layer \in Pinning(globals) : disk[layer.engine] = layer.digest
      /\ stage \in {"running", "cooling"} \/ base \in {"passed", "failed"} =>
           \A layer \in Pinning(globals) :
              layer.engine = globals.argv.engine => ran = layer.digest

\* how long the workload can take, and with it the request
Durations ==
    {0, globals.watchdog, globals.watchdog + TerminateSeconds}

TimeInv ==
    /\ cooled \in {0, MinCooldown, MaxCooldown}
    /\ stage = "cooling" => cooled = 0 /\ spent \in Durations
    /\ \E s \in Durations :
          \/ spent = s + cooled
          \/ spent = s /\ cooled = 0

VerdictInv ==
    /\ ClientInv
    /\ AnswerInv
    /\ EarlyInv
    /\ RecordInv
    /\ OutputInv
    /\ CaptureInv
    /\ EngineInv
    /\ TimeInv

\* the parts of the type that need nothing of the files
RunType ==
    /\ client.asks \in Guards /\ client.waits \in 0..2400
    /\ dry \in BOOLEAN
    /\ stage \in {"idle", "asked", "pinned", "running", "cooling", "over",
                  "done", "rejected", "lost"}
    /\ base \in {"none", "blank", "failed", "passed"}
    /\ shown.stdout \in {0, 16, 64}
    /\ shown.cache \in CacheLines \union {{}}
    /\ shown.clean \in BOOLEAN
    /\ capture \in {"none", "old", "new"}
    /\ record.status \in {"none", "dry_run", "fail", "pass"}
    /\ swapped \in BOOLEAN

\* between two requests nothing of either is left
IdleInv == stage = "idle" => guard = "qwen" /\ globals = Unloaded

\* the engine to be run is among those that the guard looks at
DiskInv ==
    stage \in {"asked", "pinned", "running"} =>
       globals.argv.engine \in DOMAIN disk

-----------------------------------------------------------------------------
\* The facts about the data that the proofs need for themselves.

\* how long a client waits
LEMMA ClientsGiveUp == \A c \in Clients : c.waits \in 0..2400
BY DEF Clients, QwenControlClients, Client, CanaryClient, T05aClient,
       T05bClient, T05cClient, T05dClient, T05eClient, T05fClient,
       T05gClient, T06Client, T06bClient, T06cClient, T07Client, T08Client,
       T09Client, T10Client, T11Client, T12Client, T13Client, T14Client,
       T15Client, T16Client, T17Client, T18Client, T19Client, T20Client,
       T21Client, T22Client, T23Client, T24Client, T25Client, T26Client,
       T27Client, T28Client, T29Client, T30Client, T31Client, T32Client,
       T34Client, T42Client

LEMMA ClientsWait == \A c \in Clients : c.waits \in Nat
BY DEF Clients, QwenControlClients, Client, CanaryClient, T05aClient,
       T05bClient, T05cClient, T05dClient, T05eClient, T05fClient,
       T05gClient, T06Client, T06bClient, T06cClient, T07Client, T08Client,
       T09Client, T10Client, T11Client, T12Client, T13Client, T14Client,
       T15Client, T16Client, T17Client, T18Client, T19Client, T20Client,
       T21Client, T22Client, T23Client, T24Client, T25Client, T26Client,
       T27Client, T28Client, T29Client, T30Client, T31Client, T32Client,
       T34Client, T42Client

LEMMA QwenIsAGuard == "qwen" \in Guards
BY DEF Guards, Catalog

LEMMA QwenWatchdog == Catalog["qwen"].watchdog = 1800
<1>1. Catalog["qwen"] = QwenCanary
  BY DEF Catalog
<1>2. QwenCanary.watchdog = 1800
  BY DEF QwenCanary, Variant
<1> QED
  BY <1>1, <1>2

-----------------------------------------------------------------------------
LEMMA InitVerdict == Init => VerdictInv
<1> SUFFICES ASSUME Init PROVE VerdictInv
  OBVIOUS
<1>1. client.waits = 0
  BY DEF Init, Hand
<1>2. ClientInv /\ AnswerInv /\ EarlyInv /\ OutputInv
  BY <1>1 DEF Init, ClientInv, AnswerInv, EarlyInv, OutputInv, Served
<1>3. RecordInv
  BY DEF Init, RecordInv, NoRecord
<1>4. CaptureInv /\ EngineInv
  BY DEF Init, CaptureInv, EngineInv
<1>5. TimeInv
  BY DEF Init, TimeInv, Durations
<1> QED
  BY <1>2, <1>3, <1>4, <1>5 DEF VerdictInv

-----------------------------------------------------------------------------
\* One lemma per part of the invariant.  Between Ask and Forget the request,
\* and what was loaded for it, stays as it is.

LEMMA ClientStep == ClientInv /\ [Next]_vars => ClientInv'
<1> SUFFICES ASSUME ClientInv, [Next]_vars PROVE ClientInv'
  OBVIOUS
<1>1. CASE Ask
  <2>1. PICK g \in Identities :
              client' \in {c \in Clients : c.asks = g} \union {Hand(g)}
    BY <1>1 DEF Ask
  <2>2. Hand(g).waits = 0
    BY DEF Hand
  <2> QED
    BY <2>1, <2>2 DEF ClientInv
<1>2. CASE Forget
  BY <1>2 DEF Forget, ClientInv, Hand
<1>3. CASE client' = client
  BY <1>3 DEF ClientInv
<1> QED
  BY <1>1, <1>2, <1>3 DEF Next, Reject, DryRun, PinFails, PinHolds, Rebuild,
     Refuse, Launch, WorkloadEnds, CoolDown, GuardError, Judge, Lose,
     PinRaises, Escapes, RecordRaises, request, vars

LEMMA AnswerStep == AnswerInv /\ [Next]_vars => AnswerInv'
<1> SUFFICES ASSUME AnswerInv, [Next]_vars PROVE AnswerInv'
  OBVIOUS
<1> USE DEF AnswerInv, Served
<1>1. CASE Ask \/ Forget
  BY <1>1 DEF Ask, Forget
<1>2. CASE Reject
  BY <1>2 DEF Reject, request
<1>3. CASE DryRun \/ PinFails
  BY <1>3 DEF DryRun, PinFails, Accepted, Persist, request
<1>4. CASE PinHolds \/ PinRaises \/ RecordRaises
  BY <1>4 DEF PinHolds, PinRaises, RecordRaises, Accepted, request
<1>5. CASE Rebuild \/ Refuse \/ Launch \/ WorkloadEnds
  BY <1>5 DEF Rebuild, Refuse, Launch, WorkloadEnds, request
<1>6. CASE CoolDown \/ GuardError \/ Lose \/ Escapes
  BY <1>6 DEF CoolDown, GuardError, Lose, Escapes, request
<1>7. CASE Judge
  BY <1>7 DEF Judge, Persist, request
<1>8. CASE UNCHANGED vars
  BY <1>8 DEF vars
<1> QED
  BY <1>1, <1>2, <1>3, <1>4, <1>5, <1>6, <1>7, <1>8 DEF Next

LEMMA EarlyStep == EarlyInv /\ [Next]_vars => EarlyInv'
<1> SUFFICES ASSUME EarlyInv, [Next]_vars PROVE EarlyInv'
  OBVIOUS
<1> USE DEF EarlyInv
<1>1. CASE Ask \/ Forget
  BY <1>1 DEF Ask, Forget
<1>2. CASE Reject \/ PinHolds \/ Launch \/ Rebuild
  BY <1>2 DEF Reject, PinHolds, Accepted, Launch, Rebuild
<1>3. CASE DryRun \/ PinFails \/ Judge
  BY <1>3 DEF DryRun, PinFails, Judge, Persist
<1>4. CASE Refuse \/ WorkloadEnds \/ CoolDown \/ GuardError \/ Lose
  BY <1>4 DEF Refuse, WorkloadEnds, CoolDown, GuardError, Lose
<1>6. CASE PinRaises \/ Escapes \/ RecordRaises
  BY <1>6 DEF PinRaises, Escapes, RecordRaises
<1>5. CASE UNCHANGED vars
  BY <1>5 DEF vars
<1> QED
  BY <1>1, <1>2, <1>3, <1>4, <1>5, <1>6 DEF Next

\* the verdict of a run that is over depends on nothing else
LEMMA JudgementStays ==
    ASSUME UNCHANGED <<globals, base, shown, capture>>
    PROVE  Passes <=> Passes'
BY DEF Passes, Accepts

LEMMA RecordStep == EarlyInv /\ RecordInv /\ [Next]_vars => RecordInv'
<1> SUFFICES ASSUME EarlyInv, RecordInv, [Next]_vars PROVE RecordInv'
  OBVIOUS
<1> USE DEF RecordInv
<1>1. CASE Ask \/ Forget
  BY <1>1 DEF Ask, Forget
<1>2. CASE Reject \/ PinHolds \/ Launch \/ Rebuild
  BY <1>2 DEF Reject, PinHolds, Accepted, Launch, Rebuild
<1>3. CASE Refuse \/ WorkloadEnds \/ CoolDown \/ GuardError
  BY <1>3 DEF Refuse, WorkloadEnds, CoolDown, GuardError
<1>4. CASE DryRun \/ PinFails
  <2>1. base' = "none" /\ stage' = "done" /\ record'.status # "pass"
    BY <1>4 DEF DryRun, PinFails, Accepted, Persist, EarlyInv
  <2> QED
    BY <2>1 DEF Passes
<1>5. CASE Judge
  <2>1. /\ stage' = "done"
        /\ record'.status = "pass" <=> Passes
        /\ UNCHANGED <<globals, base, shown, capture>>
    BY <1>5 DEF Judge, Persist, Passes, request
  <2> QED
    BY <2>1, JudgementStays
<1>6. CASE Lose \/ PinRaises \/ Escapes \/ RecordRaises
  BY <1>6 DEF Lose, PinRaises, Escapes, RecordRaises, Accepted
<1>7. CASE UNCHANGED vars
  <2>1. UNCHANGED <<globals, base, shown, capture, stage, record>>
    BY <1>7 DEF vars
  <2> QED
    BY <2>1, JudgementStays
<1> QED
  BY <1>1, <1>2, <1>3, <1>4, <1>5, <1>6, <1>7 DEF Next

LEMMA OutputStep == EarlyInv /\ OutputInv /\ [Next]_vars => OutputInv'
<1> SUFFICES ASSUME EarlyInv, OutputInv, [Next]_vars PROVE OutputInv'
  OBVIOUS
<1> USE DEF OutputInv
<1>1. CASE Ask \/ Forget
  BY <1>1 DEF Ask, Forget, EarlyInv
<1>2. CASE WorkloadEnds
  BY <1>2 DEF WorkloadEnds, request
<1>3. CASE CoolDown \/ Refuse \/ GuardError
  BY <1>3 DEF CoolDown, Refuse, GuardError, request
<1>4. CASE UNCHANGED <<globals, base, shown>>
  BY <1>4
<1> QED
  BY <1>1, <1>2, <1>3, <1>4 DEF Next, Reject, DryRun, PinFails, PinHolds,
     Rebuild, Launch, Judge, Lose, PinRaises, Escapes, RecordRaises, request,
     vars

LEMMA CaptureStep == EarlyInv /\ CaptureInv /\ [Next]_vars => CaptureInv'
<1> SUFFICES ASSUME EarlyInv, CaptureInv, [Next]_vars PROVE CaptureInv'
  OBVIOUS
<1> USE DEF CaptureInv
<1>1. CASE Ask \/ Forget
  BY <1>1 DEF Ask, Forget, EarlyInv
<1>2. CASE PinHolds
  BY <1>2 DEF PinHolds
<1>3. CASE WorkloadEnds
  BY <1>3 DEF WorkloadEnds
<1>4. CASE CoolDown \/ Refuse \/ GuardError \/ Launch \/ Rebuild
  BY <1>4 DEF CoolDown, Refuse, GuardError, Launch, Rebuild
<1>5. CASE Reject \/ DryRun \/ PinFails \/ PinRaises
  BY <1>5 DEF Reject, DryRun, PinFails, PinRaises, Accepted, Persist, EarlyInv
<1>6. CASE Judge \/ Lose \/ Escapes \/ RecordRaises
  BY <1>6 DEF Judge, Lose, Escapes, RecordRaises, Accepted, Persist, EarlyInv
<1>7. CASE UNCHANGED vars
  BY <1>7 DEF vars
<1> QED
  BY <1>1, <1>2, <1>3, <1>4, <1>5, <1>6, <1>7 DEF Next

LEMMA EngineStep == EarlyInv /\ EngineInv /\ [Next]_vars => EngineInv'
<1> SUFFICES ASSUME EarlyInv, EngineInv, [Next]_vars PROVE EngineInv'
  OBVIOUS
<1> USE DEF EngineInv
<1>1. CASE Ask \/ Forget
  BY <1>1 DEF Ask, Forget, EarlyInv
<1>2. CASE PinHolds
  BY <1>2 DEF PinHolds, Accepted, EarlyInv, request
<1>3. CASE Rebuild
  <2>1. /\ stage = "pinned" /\ UNCHANGED <<stage, base, globals>>
        /\ ~swapped' => ~swapped /\ disk' = disk
    BY <1>3 DEF Rebuild, request
  <2> QED
    BY <2>1, <1>3 DEF EarlyInv
<1>4. CASE Launch
  BY <1>4 DEF Launch, EarlyInv, request
<1>5. CASE Refuse
  BY <1>5 DEF Refuse, request
<1>6. CASE WorkloadEnds
  BY <1>6 DEF WorkloadEnds, request
<1>7. CASE CoolDown
  BY <1>7 DEF CoolDown, request
<1>8. CASE GuardError
  BY <1>8 DEF GuardError, request
<1>9. CASE Reject \/ DryRun \/ PinFails \/ PinRaises
  BY <1>9 DEF Reject, DryRun, PinFails, PinRaises, Accepted, Persist,
     EarlyInv, request
<1>10. CASE Judge \/ Lose \/ Escapes \/ RecordRaises
  BY <1>10 DEF Judge, Lose, Escapes, RecordRaises, Accepted, Persist,
     EarlyInv, request
<1>11. CASE UNCHANGED vars
  BY <1>11 DEF vars
<1> QED
  BY <1>1, <1>2, <1>3, <1>4, <1>5, <1>6, <1>7, <1>8, <1>9, <1>10, <1>11
     DEF Next

LEMMA TimeStep == EarlyInv /\ TimeInv /\ [Next]_vars => TimeInv'
<1> SUFFICES ASSUME EarlyInv, TimeInv, [Next]_vars PROVE TimeInv'
  OBVIOUS
<1> USE DEF TimeInv
<1>1. ASSUME spent' = 0, cooled' = 0, stage' # "cooling" PROVE TimeInv'
  BY <1>1 DEF Durations
<1>2. CASE Ask \/ Forget
  BY <1>1, <1>2 DEF Ask, Forget, EarlyInv
<1>3. CASE WorkloadEnds
  BY <1>3 DEF WorkloadEnds, EarlyInv, Durations, request
<1>4. CASE CoolDown
  <2>1. cooled' \in {0, MinCooldown, MaxCooldown} /\ spent' = spent + cooled'
    BY <1>4 DEF CoolDown
  <2>2. spent \in Durations /\ stage' = "over" /\ globals' = globals
    BY <1>4 DEF CoolDown, request
  <2>3. Durations' = Durations
    BY <2>2 DEF Durations
  <2> QED
    BY <2>1, <2>2, <2>3
<1>5. CASE UNCHANGED <<spent, cooled, globals>> /\ stage' # "cooling"
  <2>1. Durations' = Durations
    BY <1>5 DEF Durations
  <2> QED
    BY <1>5, <2>1
<1>6. CASE UNCHANGED vars
  <2>1. Durations' = Durations /\ UNCHANGED <<spent, cooled, stage>>
    BY <1>6 DEF Durations, vars
  <2> QED
    BY <2>1
<1>7. CASE Reject \/ DryRun \/ PinFails \/ PinHolds \/ Rebuild \/ Refuse
  BY <1>5, <1>7 DEF Reject, DryRun, PinFails, PinHolds, Rebuild, Refuse,
     Persist, request
<1>8. CASE Launch \/ GuardError \/ Judge \/ Lose
  BY <1>5, <1>8 DEF Launch, GuardError, Judge, Lose, Persist, request
<1>9. CASE PinRaises \/ Escapes \/ RecordRaises
  BY <1>5, <1>9 DEF PinRaises, Escapes, RecordRaises, request
<1> QED
  BY <1>2, <1>3, <1>4, <1>6, <1>7, <1>8, <1>9 DEF Next

LEMMA VerdictHolds == Spec => []VerdictInv
<1>1. VerdictInv /\ [Next]_vars => VerdictInv'
  BY ClientStep, AnswerStep, EarlyStep, RecordStep, OutputStep, CaptureStep,
     EngineStep, TimeStep DEF VerdictInv
<1> QED
  BY InitVerdict, <1>1, PTL DEF Spec

-----------------------------------------------------------------------------
\* What the files agree on, from the request to the end of its run.
Agreed == stage # "idle" => Agree(globals, guard)

LEMMA AgreementStays == Spec /\ []FilesAgree => []Agreed
<1>1. Init => Agreed
  BY DEF Init, Agreed
<1>2. Agreed /\ FilesAgree' /\ [Next]_vars => Agreed'
  <2> SUFFICES ASSUME Agreed, FilesAgree', [Next]_vars PROVE Agreed'
    OBVIOUS
  <2>1. CASE Ask
    BY <2>1 DEF Ask, Agreed, FilesAgree
  <2>2. CASE Forget
    BY <2>2 DEF Forget, Agreed
  <2>3. CASE stage # "idle" /\ UNCHANGED <<globals, guard>>
    BY <2>3 DEF Agreed
  <2>4. CASE UNCHANGED vars
    BY <2>4 DEF Agreed, vars
  <2> QED
    BY <2>1, <2>2, <2>3, <2>4 DEF Next, Reject, DryRun, PinFails, PinHolds,
       Rebuild, Refuse, Launch, WorkloadEnds, CoolDown, GuardError, Judge,
       Lose, PinRaises, Escapes, RecordRaises, request, Accepted
<1> QED
  BY <1>1, <1>2, PTL DEF Spec

LEMMA AllHolds == Spec /\ []FilesAgree => [](VerdictInv /\ Agreed)
BY VerdictHolds, AgreementStays, PTL

\* a judgement of "pass" has been made of a run that passed
LEMMA RecordedPass ==
    ASSUME VerdictInv, record.status = "pass"
    PROVE  stage = "done" /\ Passes
BY DEF VerdictInv, RecordInv, NoRecord

-----------------------------------------------------------------------------
\* nothing of a request is there yet
Fresh ==
    /\ client = Hand("qwen")
    /\ dry = FALSE
    /\ stage = "idle"
    /\ base = "none"
    /\ shown = Silent
    /\ capture = "none"
    /\ record = NoRecord
    /\ swapped = FALSE

LEMMA FreshType == Fresh => RunType
<1> SUFFICES ASSUME Fresh PROVE RunType
  OBVIOUS
<1>1. client = [asks |-> "qwen", waits |-> 0]
  BY DEF Fresh, Hand
<1>2. client.asks \in Guards /\ client.waits \in 0..2400
  BY <1>1, QwenIsAGuard
<1>3. shown.stdout = 0 /\ shown.cache = {} /\ shown.clean = TRUE
  BY DEF Fresh, Silent
<1>4. /\ shown.stdout \in {0, 16, 64}
      /\ shown.cache \in CacheLines \union {{}}
      /\ shown.clean \in BOOLEAN
  BY <1>3
<1>5. record.status = "none"
  BY DEF Fresh, NoRecord
<1>6. /\ dry \in BOOLEAN
      /\ stage \in {"idle", "asked", "pinned", "running", "cooling", "over",
                    "done", "rejected", "lost"}
      /\ base \in {"none", "blank", "failed", "passed"}
      /\ capture \in {"none", "old", "new"}
      /\ record.status \in {"none", "dry_run", "fail", "pass"}
      /\ swapped \in BOOLEAN
  BY <1>5 DEF Fresh
<1> QED
  BY <1>2, <1>4, <1>6 DEF RunType

LEMMA RunTypeStep == RunType /\ [Next]_vars => RunType'
<1> SUFFICES ASSUME RunType, [Next]_vars PROVE RunType'
  OBVIOUS
<1>1. CASE Ask
  <2>1. PICK g \in Identities :
              /\ client' \in {c \in Clients : c.asks = g} \union {Hand(g)}
              /\ capture' \in {"none", "old"}
    BY <1>1 DEF Ask
  <2>2. g \in Guards
    BY IdentitiesAssumption
  <2>3. client'.asks \in Guards /\ client'.waits \in 0..2400
    BY <2>1, <2>2, ClientsGiveUp DEF Hand
  <2>4. dry' \in BOOLEAN /\ stage' = "asked"
    BY <1>1 DEF Ask
  <2>5. UNCHANGED <<base, shown, record, swapped>>
    BY <1>1 DEF Ask
  <2>6. /\ capture' \in {"none", "old", "new"}
        /\ stage' \in {"idle", "asked", "pinned", "running", "cooling",
                       "over", "done", "rejected", "lost"}
    BY <2>1, <2>4
  <2>7. /\ base' \in {"none", "blank", "failed", "passed"}
        /\ shown'.stdout \in {0, 16, 64}
        /\ shown'.cache \in CacheLines \union {{}}
        /\ shown'.clean \in BOOLEAN
        /\ record'.status \in {"none", "dry_run", "fail", "pass"}
        /\ swapped' \in BOOLEAN
    BY <2>5 DEF RunType
  <2> QED
    BY <2>3, <2>4, <2>6, <2>7 DEF RunType
<1>2. CASE Forget
  <2>1. Fresh'
    BY <1>2 DEF Forget, Fresh, Hand, Silent, NoRecord
  <2>2. (Fresh => RunType)'
    BY FreshType, PTL
  <2> QED
    BY <2>1, <2>2
<1>3. CASE Reject \/ PinHolds \/ Launch
  BY <1>3 DEF Reject, PinHolds, Launch, RunType, request
<1>4. CASE DryRun \/ PinFails \/ Judge
  BY <1>4 DEF DryRun, PinFails, Judge, Persist, RunType, request
<1>5. CASE Rebuild
  <2>1. swapped' = (swapped \/ disk' # disk)
    BY <1>5 DEF Rebuild
  <2>2. swapped' \in BOOLEAN
    BY <2>1
  <2>3. UNCHANGED <<client, dry, stage, base, shown, capture, record>>
    BY <1>5 DEF Rebuild, request
  <2> QED
    BY <2>2, <2>3 DEF RunType
<1>6. CASE WorkloadEnds
  <2>1. shown' = shown \/ shown' \in Outputs(globals)
    BY <1>6 DEF WorkloadEnds
  <2>2. \A output \in Outputs(globals) :
           /\ output.stdout \in {0, 16, 64}
           /\ output.cache \in CacheLines \union {{}}
           /\ output.clean \in BOOLEAN
    <3>1. CASE Judging(globals) = {}
      <4>1. Silent.stdout = 0 /\ Silent.cache = {} /\ Silent.clean = TRUE
        BY DEF Silent
      <4>2. Outputs(globals) = {Silent}
        BY <3>1 DEF Outputs
      <4> QED
        BY <4>1, <4>2
    <3>2. CASE Judging(globals) # {}
      BY <3>2 DEF Outputs
    <3> QED
      BY <3>1, <3>2
  <2>3. /\ base' \in {"failed", "passed"} /\ stage' = "cooling"
        /\ capture' \in {capture, "new"}
        /\ UNCHANGED <<client, dry, record, swapped>>
    BY <1>6 DEF WorkloadEnds, request
  <2> QED
    BY <2>1, <2>2, <2>3 DEF RunType
<1>7. CASE Refuse \/ CoolDown \/ GuardError \/ Lose
  BY <1>7 DEF Refuse, CoolDown, GuardError, Lose, RunType, request
<1>9. CASE PinRaises \/ Escapes \/ RecordRaises
  BY <1>9 DEF PinRaises, Escapes, RecordRaises, RunType, request
<1>8. CASE UNCHANGED vars
  BY <1>8 DEF RunType, vars
<1> QED
  BY <1>1, <1>2, <1>3, <1>4, <1>5, <1>6, <1>7, <1>8, <1>9 DEF Next

LEMMA IdleStep == IdleInv /\ [Next]_vars => IdleInv'
BY DEF IdleInv, Next, Ask, Reject, DryRun, PinFails, PinHolds, Rebuild, Refuse,
   Launch, WorkloadEnds, CoolDown, GuardError, Judge, Lose, PinRaises,
   Escapes, RecordRaises, Forget, Persist, vars

LEMMA DiskStep == DiskInv /\ [Next]_vars => DiskInv'
<1> SUFFICES ASSUME DiskInv, [Next]_vars PROVE DiskInv'
  OBVIOUS
<1>1. CASE Ask
  <2>1. disk' \in Installations(globals')
    BY <1>1 DEF Ask
  <2>2. ASSUME NEW loaded, NEW d \in Installations(loaded)
        PROVE  loaded.argv.engine \in DOMAIN d
    BY <2>2 DEF Installations, Engines
  <2> QED
    BY <2>1, <2>2 DEF DiskInv
<1>2. CASE Rebuild
  BY <1>2 DEF Rebuild, DiskInv, request
<1>3. CASE UNCHANGED <<globals, disk, stage>>
  BY <1>3 DEF DiskInv
<1>4. CASE PinHolds \/ Launch
  BY <1>4 DEF PinHolds, Launch, Accepted, DiskInv, request
<1>5. CASE stage' \notin {"asked", "pinned", "running"}
  BY <1>5 DEF DiskInv
<1> QED
  BY <1>1, <1>2, <1>3, <1>4, <1>5 DEF Next, Reject, DryRun, PinFails, Refuse,
     WorkloadEnds, CoolDown, GuardError, Judge, Lose, PinRaises, Escapes,
     RecordRaises, Forget, Persist, vars

(* Every variable keeps its type: no request takes longer than the longest *)
(* watchdog, the termination and the longest cooldown together.            *)
THEOREM TypeCorrect == Spec /\ []FilesAgree => []TypeOK
<1>1. Init => RunType /\ IdleInv /\ DiskInv
  BY FreshType DEF Init, Fresh, IdleInv, DiskInv
<1>2. VerdictInv /\ Agreed /\ RunType /\ IdleInv /\ DiskInv => TypeOK
  <2> SUFFICES ASSUME VerdictInv, Agreed, RunType, IdleInv, DiskInv
               PROVE  TypeOK
    OBVIOUS
  <2>1. guard \in Guards /\ globals.identity \in Guards
    <3>1. CASE stage = "idle"
      <4>1. guard = "qwen" /\ globals = Unloaded
        BY <3>1 DEF IdleInv
      <4>2. globals.identity = "qwen"
        BY <4>1 DEF Unloaded
      <4> QED
        BY <4>1, <4>2, QwenIsAGuard
    <3>2. CASE stage # "idle"
      BY <3>2 DEF Agreed, Agree, AnswersFor
    <3> QED
      BY <3>1, <3>2
  <2>2. PICK longest \in Nat : longest = Catalog["qwen"].watchdog
    BY QwenWatchdog
  <2>3. PICK w \in Nat : w = globals.watchdog /\ w <= longest
    <3>1. CASE stage = "idle"
      <4>1. globals = Unloaded
        BY <3>1 DEF IdleInv
      <4>2. globals.watchdog = 0
        BY <4>1 DEF Unloaded
      <4> QED
        BY <2>2, <4>2
    <3>2. CASE stage # "idle"
      <4>1. IsOutwaited(globals)
        BY <3>2 DEF Agreed, Agree
      <4> QED
        BY <2>2, <4>1 DEF IsOutwaited
    <3> QED
      BY <3>1, <3>2
  <2>4. PICK s \in Durations : spent = s + cooled \/ (spent = s /\ cooled = 0)
    BY DEF VerdictInv, TimeInv
  <2>5. s \in Nat /\ s <= longest + 4
    BY <2>3 DEF Durations, TerminateSeconds
  <2>6. cooled \in {0, 300, 900}
    BY DEF VerdictInv, TimeInv, MinCooldown, MaxCooldown
  <2>7. cooled \in Nat /\ cooled <= 900
    BY <2>6
  <2>8. spent \in Nat /\ spent <= longest + 4 + 900
    BY <2>2, <2>4, <2>5, <2>7
  <2>9. spent \in 0..(Catalog["qwen"].watchdog + TerminateSeconds + MaxCooldown)
    BY <2>2, <2>8 DEF TerminateSeconds, MaxCooldown
  <2>10. cooled \in {0} \union MinCooldown..MaxCooldown
    BY <2>6 DEF MinCooldown, MaxCooldown
  <2> QED
    BY <2>1, <2>9, <2>10 DEF TypeOK, RunType, DiskInv
<1> QED
  BY <1>1, <1>2, RunTypeStep, IdleStep, DiskStep, AllHolds, PTL DEF Spec

-----------------------------------------------------------------------------
(* A recorded pass has all the evidence that its command line promises:    *)
(* the layers ask for it, and a judgement is made on this run's output and *)
(* capture.                                                                *)
THEOREM PassesHaveEvidence == Spec /\ []FilesAgree => []PassHasEvidence
<1>1. VerdictInv /\ Agreed => PassHasEvidence
  <2> SUFFICES ASSUME VerdictInv, Agreed, record.status = "pass"
               PROVE  /\ base = "passed"
                      /\ Judging(globals) # {} =>
                           /\ shown.stdout = globals.argv.tokens
                           /\ Promised(globals.argv).cache \subseteq shown.cache
                           /\ Promised(globals.argv).marks \subseteq shown.marks
                      /\ "capture" \in globals.argv.flags => capture = "new"
    BY DEF PassHasEvidence
  <2>1. stage = "done" /\ Passes
    BY RecordedPass
  <2>2. base = "passed" /\ \A layer \in Judging(globals) : Accepts(layer)
    BY <2>1 DEF Passes
  <2>3. AsksEnough(globals)
    BY <2>1 DEF Agreed, Agree
  <2>4. Promised(globals.argv).stdout = globals.argv.tokens
    BY DEF Promised
  <2>5. ASSUME Judging(globals) # {}
        PROVE  /\ shown.stdout = globals.argv.tokens
               /\ Promised(globals.argv).cache \subseteq shown.cache
               /\ Promised(globals.argv).marks \subseteq shown.marks
    <3>1. shown.stdout = globals.argv.tokens
      BY <2>2, <2>3, <2>4, <2>5 DEF AsksEnough, Accepts
    <3>2. shown.cache \in CacheLines \union {{}}
      BY <2>2, <2>5 DEF VerdictInv, OutputInv, Outputs
    <3>3. \A layer \in Judging(globals) :
             layer.cache # {} => shown.cache \in layer.cache
      BY <2>2 DEF Accepts
    <3>4. Promised(globals.argv).cache \subseteq shown.cache
      BY <2>3, <2>5, <3>2, <3>3 DEF AsksEnough
    <3>5. \A layer \in Judging(globals) : layer.shows \subseteq shown.marks
      BY <2>2 DEF Accepts
    <3>6. Promised(globals.argv).marks
             \subseteq UNION {layer.shows : layer \in Judging(globals)}
      BY <2>3, <2>5 DEF AsksEnough
    <3>7. Promised(globals.argv).marks \subseteq shown.marks
      BY <3>5, <3>6
    <3> QED
      BY <3>1, <3>4, <3>7
  <2>6. ASSUME "capture" \in globals.argv.flags PROVE capture = "new"
    <3>1. PICK layer \in Judging(globals) : "capture" \in layer.shows
      BY <2>3, <2>6 DEF AsksEnough
    <3>2. capture # "none"
      BY <2>2, <3>1 DEF Accepts
    <3>3. capture \in {"none", "new"}
      BY <2>2 DEF VerdictInv, CaptureInv
    <3> QED
      BY <3>2, <3>3
  <2> QED
    BY <2>2, <2>5, <2>6
<1> QED
  BY <1>1, AllHolds, PTL

(* What ran under a recorded pass is the executable whose digest the       *)
(* guard's own file pins, unless it was exchanged after it was read.       *)
THEOREM PinnedEnginesRun == Spec /\ []FilesAgree => []RunsPinnedEngine
<1>1. VerdictInv /\ Agreed => RunsPinnedEngine
  <2> SUFFICES ASSUME VerdictInv, Agreed, record.status = "pass", ~swapped,
                      OwnDigest(guard) # ""
               PROVE  ran = OwnDigest(guard)
    BY DEF RunsPinnedEngine
  <2>1. stage = "done" /\ base = "passed"
    BY RecordedPass DEF Passes
  <2>2. PICK layer \in Pinning(globals) :
           /\ layer.engine = globals.argv.engine
           /\ layer.digest = OwnDigest(guard)
    BY <2>1 DEF Agreed, Agree, PinsDigest
  <2> QED
    BY <2>1, <2>2 DEF VerdictInv, EngineInv
<1> QED
  BY <1>1, AllHolds, PTL

(* A run whose engine printed all that its command line promises is        *)
(* recorded as a pass: no layer underneath refuses it.                     *)
THEOREM HonestRunsPass == Spec /\ []FilesAgree => []HonestRunPasses
<1>1. VerdictInv /\ Agreed => HonestRunPasses
  <2> SUFFICES ASSUME VerdictInv, Agreed, stage = "done", base = "passed",
                      Judging(globals) # {} => shown = Promised(globals.argv),
                      "capture" \in globals.argv.flags => capture = "new"
               PROVE  record.status = "pass"
    BY DEF HonestRunPasses
  <2>1. AsksNoMore(globals)
    BY DEF Agreed, Agree
  <2>2. shown.clean \/ Judging(globals) = {}
    BY DEF Promised
  <2>3. ASSUME NEW layer \in Judging(globals) PROVE Accepts(layer)
    BY <2>1, <2>2, <2>3 DEF AsksNoMore, Accepts
  <2> QED
    BY <2>3 DEF VerdictInv, RecordInv, Passes
<1> QED
  BY <1>1, AllHolds, PTL

(* A key opens one guard, and the result is that guard's.                  *)
THEOREM ClientsAreAnswered == Spec /\ []FilesAgree => []AnswersOwnClient
<1>1. VerdictInv /\ Agreed => AnswersOwnClient
  BY DEF VerdictInv, AnswerInv, Served, Agreed, Agree, AnswersFor,
     AnswersOwnClient
<1> QED
  BY <1>1, AllHolds, PTL

(* A client outlasts its guard's watchdog, termination and mandatory       *)
(* cooldown: it gives up only when the cards needed longer than that.      *)
THEOREM ClientsOutlast == Spec /\ []FilesAgree => []ClientOutlastsMinimum
<1>1. VerdictInv /\ Agreed => ClientOutlastsMinimum
  <2> SUFFICES ASSUME VerdictInv, Agreed, Over, GaveUp
               PROVE  cooled > MinCooldown
    BY DEF ClientOutlastsMinimum
  <2>1. client \in Clients
    BY DEF VerdictInv, ClientInv, GaveUp
  <2>2. PICK waits \in Nat : waits = client.waits
    <3>1. client.waits \in Nat
      BY <2>1, ClientsWait
    <3> QED
      BY <3>1
  <2>3. spent > waits
    BY <2>2 DEF GaveUp
  <2>4. stage # "rejected"
    BY <2>3 DEF VerdictInv, EarlyInv
  <2>5. client.asks = globals.identity /\ stage # "idle"
    BY <2>4 DEF Over, VerdictInv, AnswerInv, Served
  <2>6. IsOutwaited(globals)
    BY <2>5 DEF Agreed, Agree
  <2>7. PICK w \in Nat : w = globals.watchdog
    BY <2>6 DEF IsOutwaited
  <2>8. waits >= w + 304
    BY <2>1, <2>2, <2>5, <2>6, <2>7 DEF IsOutwaited, TerminateSeconds,
       MinCooldown
  <2>9. PICK s \in Durations : spent = s + cooled \/ (spent = s /\ cooled = 0)
    BY DEF VerdictInv, TimeInv
  <2>10. s = 0 \/ s = w \/ s = w + 4
    BY <2>7 DEF Durations, TerminateSeconds
  <2>11. cooled \in {0, 300, 900}
    BY DEF VerdictInv, TimeInv, MinCooldown, MaxCooldown
  <2>12. s \in Nat /\ s <= w + 4
    BY <2>7, <2>10
  <2>13. cooled # 0
    BY <2>3, <2>8, <2>9, <2>12
  <2>14. cooled # 300
    BY <2>3, <2>8, <2>9, <2>12
  <2> QED
    BY <2>11, <2>13, <2>14 DEF MinCooldown
<1> QED
  BY <1>1, AllHolds, PTL
=============================================================================
