-------------------------- MODULE SwarmController --------------------------
(***************************************************************************)
(* The search controller in swarm/: corpus runs (swarm_s5_text_edit_       *)
(* corpus.py with harness.py) produce artifacts, ingest.py maps an         *)
(* artifact into an attempt and its evidence, the API promotes a branch,   *)
(* and scoring.py ranks it.  Ingesting processes and the API server have   *)
(* connections of their own to one SQLite file: every store call reads     *)
(* outside a transaction, and its writes are one transaction.              *)
(***************************************************************************)
EXTENDS Sequences, Naturals

CONSTANTS Runners,     \* processes that run the corpus and ingest the result
          Branches,
          NoBranch,
          MaxAttempts, \* bound on the attempts of a branch
          Faults       \* "abort": a runner dies; "overlap": two processes
                       \* work on one branch at the same time

ASSUME ConstantsAssumption ==
    /\ NoBranch \notin Branches
    /\ MaxAttempts \in Nat \ {0}
    /\ Faults \subseteq {"abort", "overlap"}

Profiles == {"git-diff-check", "python-unittest"}
KindOf == [p \in Profiles |-> IF p = "git-diff-check" THEN "static" ELSE "test"]
Required == {"static", "test"}
Kinds == Required \cup {"harness", "model"}

VARIABLES branch,   \* status of each row in branches
          attempts, \* the attempts of each branch, in the order of ordinal
          pc,       \* where each runner is
          result,   \* the artifact it builds and then ingests
          on,       \* the branch it ingests for
          ordinal,  \* the ordinal of its attempt
          api,      \* the promote request the server handles
          mishaps   \* the faults that have happened

storeVars == <<branch, attempts>>
runnerVars == <<pc, result, on, ordinal>>
vars == <<branch, attempts, pc, result, on, ordinal, api, mishaps>>

NoResult == [baseline |-> "none", proposal |-> FALSE, validation |-> <<>>,
             passed |-> FALSE]
NoRequest == [at |-> "idle", branch |-> NoBranch]

Init ==
    /\ branch = [b \in Branches |-> "absent"]
    /\ attempts = [b \in Branches |-> <<>>]
    /\ pc = [r \in Runners |-> "idle"]
    /\ result = [r \in Runners |-> NoResult]
    /\ on = [r \in Runners |-> NoBranch]
    /\ ordinal = [r \in Runners |-> 0]
    /\ api = NoRequest
    /\ mishaps = {}

Goto(r, s) == pc' = [pc EXCEPT ![r] = s]

-----------------------------------------------------------------------------
(* A corpus run.  Any step may raise: the exception is noted in the        *)
(* payload, which is written all the same.                                 *)

\* the unmodified fixture must fail its tests
Baseline(r) ==
    /\ pc[r] = "idle"
    /\ \E exit \in {"none", "green", "red"} :
          /\ result' = [result EXCEPT ![r].baseline = exit]
          /\ Goto(r, IF exit = "red" THEN "request" ELSE "payload")
    /\ UNCHANGED <<on, ordinal, api, mishaps, storeVars>>

\* the model proposes an edit, which must be one exact replacement
RequestEdit(r) ==
    /\ pc[r] = "request"
    /\ \E proposed \in BOOLEAN :
          /\ result' = [result EXCEPT ![r].proposal = proposed]
          /\ Goto(r, IF proposed THEN "apply" ELSE "payload")
    /\ UNCHANGED <<on, ordinal, api, mishaps, storeVars>>

\* in a worktree of its own, which may no longer match
ApplyEdit(r) ==
    /\ pc[r] = "apply"
    /\ \E s \in {"git-diff-check", "payload"} : Goto(r, s)
    /\ UNCHANGED <<result, on, ordinal, api, mishaps, storeVars>>

\* run_profile records an exit code, or raises: so does a time limit that
\* ends a command which has printed something
RunProfile(r) ==
    /\ pc[r] \in Profiles
    /\ \/ \E ok \in BOOLEAN :
             result' = [result EXCEPT ![r].validation =
                [p \in DOMAIN @ \cup {pc[r]} |-> IF p = pc[r] THEN ok ELSE @[p]]]
          /\ Goto(r, IF pc[r] = "git-diff-check" THEN "python-unittest"
                                                 ELSE "payload")
       \/ Goto(r, "payload") /\ UNCHANGED result
    /\ UNCHANGED <<on, ordinal, api, mishaps, storeVars>>

\* passed, as the corpus runner computes it from what was recorded
Payload(r) ==
    /\ pc[r] = "payload"
    /\ LET res == result[r] IN
         result' = [result EXCEPT ![r].passed =
            /\ res.baseline = "red"
            /\ DOMAIN res.validation # {}
            /\ \A p \in DOMAIN res.validation : res.validation[p]]
    /\ Goto(r, "artifact")
    /\ UNCHANGED <<on, ordinal, api, mishaps, storeVars>>

-----------------------------------------------------------------------------
(* Ingestion of the artifact *)

\* the process ends
Exits(r) ==
    /\ Goto(r, "idle")
    /\ result' = [result EXCEPT ![r] = NoResult]
    /\ on' = [on EXCEPT ![r] = NoBranch]
    /\ ordinal' = [ordinal EXCEPT ![r] = 0]

\* faulty variant: a profile that was not recorded is skipped
DerivedPassOfRecorded(res) ==
    /\ res.baseline = "red"
    /\ \A p \in DOMAIN res.validation : res.validation[p]

DerivedPass(res) ==
    /\ res.baseline = "red"
    /\ DOMAIN res.validation = Profiles
    /\ \A p \in DOMAIN res.validation : res.validation[p]

\* some process works on the branch
Busy(b) == api.branch = b \/ \E r \in Runners : on[r] = b

NoteOverlap(b) ==
    /\ Busy(b) => "overlap" \in Faults
    /\ mishaps' = mishaps \cup (IF Busy(b) THEN {"overlap"} ELSE {})

\* an artifact without a baseline, or whose claim differs, is refused
Refuse(r) ==
    /\ pc[r] = "artifact"
    /\ \/ result[r].baseline = "none"
       \/ result[r].passed # DerivedPass(result[r])
    /\ Exits(r)
    /\ UNCHANGED <<api, mishaps, storeVars>>

Accept(r, b) ==
    /\ pc[r] = "artifact"
    /\ branch[b] # "absent"
    /\ result[r].baseline # "none"
    /\ result[r].passed = DerivedPass(result[r])
    /\ NoteOverlap(b)
    /\ on' = [on EXCEPT ![r] = b]
    /\ Goto(r, "status")
    /\ UNCHANGED <<result, ordinal, api, storeVars>>

\* faulty variant: a promoted branch takes another attempt
ReadStatusOpen(r) ==
    /\ pc[r] = "status"
    /\ \/ branch[on[r]] # "pruned" /\ Goto(r, "ordinal")
                                   /\ UNCHANGED <<result, on, ordinal>>
       \/ branch[on[r]] = "pruned" /\ Exits(r)
    /\ UNCHANGED <<api, mishaps, storeVars>>

\* create_attempt reads the status of the branch ...
ReadStatus(r) ==
    /\ pc[r] = "status"
    /\ LET open == branch[on[r]] \in {"queued", "running", "evaluating"} IN
         \/ open /\ Goto(r, "ordinal") /\ UNCHANGED <<result, on, ordinal>>
         \/ ~open /\ Exits(r)
    /\ UNCHANGED <<api, mishaps, storeVars>>

\* ... then the highest ordinal ...
ReadOrdinal(r) ==
    /\ pc[r] = "ordinal"
    /\ ordinal' = [ordinal EXCEPT ![r] = Len(attempts[on[r]]) + 1]
    /\ Goto(r, "insert")
    /\ UNCHANGED <<result, on, api, mishaps, storeVars>>

\* faulty variant: the row of an ordinal taken meanwhile is replaced
InsertAttemptAnyway(r) ==
    LET b == on[r]
        fresh == [status |-> "created", evidence |-> {}]
    IN /\ pc[r] = "insert"
       /\ IF ordinal[r] <= MaxAttempts
          THEN /\ attempts' = [attempts EXCEPT ![b] =
                      IF ordinal[r] \in DOMAIN @ THEN [@ EXCEPT ![ordinal[r]] = fresh]
                                                 ELSE Append(@, fresh)]
               /\ branch' = [branch EXCEPT ![b] = "running"]
               /\ Goto(r, "harness")
               /\ UNCHANGED <<result, on, ordinal>>
          ELSE Exits(r) /\ UNCHANGED storeVars
       /\ UNCHANGED <<api, mishaps>>

\* ... and inserts; an ordinal taken meanwhile violates UNIQUE and raises
InsertAttempt(r) ==
    LET b == on[r] IN
    /\ pc[r] = "insert"
    /\ \/ /\ ordinal[r] = Len(attempts[b]) + 1
          /\ ordinal[r] <= MaxAttempts
          /\ attempts' = [attempts EXCEPT ![b] =
                Append(@, [status |-> "created", evidence |-> {}])]
          /\ branch' = [branch EXCEPT ![b] = "running"]
          /\ Goto(r, "harness")
          /\ UNCHANGED <<result, on, ordinal>>
       \/ ordinal[r] <= Len(attempts[b]) /\ Exits(r) /\ UNCHANGED storeVars
       \* the bound: a runner gives up where the program would go on
       \/ ordinal[r] > MaxAttempts /\ Exits(r) /\ UNCHANGED storeVars
    /\ UNCHANGED <<api, mishaps>>

\* append_evidence on the runner's own attempt, which no one else closes
AppendEvidence(r, records, next) ==
    /\ attempts[on[r]][ordinal[r]].status = "created"
    /\ attempts' = [attempts EXCEPT ![on[r]][ordinal[r]].evidence = @ \cup records]
    /\ Goto(r, next)
    /\ UNCHANGED <<branch, result, on, ordinal, api, mishaps>>

Record(kind, passes) == [kind |-> kind, ok |-> passes]

IngestBaseline(r) ==
    /\ pc[r] = "harness"
    /\ AppendEvidence(r, {Record("harness", TRUE)}, "proposal")

\* a model record, or a failed executor contract
IngestProposal(r) ==
    /\ pc[r] = "proposal"
    /\ AppendEvidence(r, {IF result[r].proposal THEN Record("model", TRUE)
                                                ELSE Record("harness", FALSE)},
                      "static")

\* the recorded profiles, in the order of PROFILES
IngestProfile(r, p) ==
    /\ pc[r] = KindOf[p]
    /\ AppendEvidence(r, IF p \in DOMAIN result[r].validation
                         THEN {Record(KindOf[p], result[r].validation[p])} ELSE {},
                      IF KindOf[p] = "static" THEN "test" ELSE "finish")

\* faulty variant: a failed attempt does not prune its branch
FinishAttemptUnpruned(r) ==
    LET ok == DerivedPass(result[r]) IN
    /\ pc[r] = "finish"
    /\ attempts[on[r]][ordinal[r]].status = "created"
    /\ attempts' = [attempts EXCEPT ![on[r]][ordinal[r]].status =
          IF ok THEN "completed" ELSE "failed"]
    /\ branch' = [branch EXCEPT ![on[r]] = "evaluating"]
    /\ Exits(r)
    /\ UNCHANGED <<api, mishaps>>

\* the status of the branch is overwritten whatever it is by now
FinishAttempt(r) ==
    LET ok == DerivedPass(result[r]) IN
    /\ pc[r] = "finish"
    /\ attempts[on[r]][ordinal[r]].status = "created"
    /\ attempts' = [attempts EXCEPT ![on[r]][ordinal[r]].status =
          IF ok THEN "completed" ELSE "failed"]
    /\ branch' = [branch EXCEPT ![on[r]] = IF ok THEN "evaluating" ELSE "pruned"]
    /\ Exits(r)
    /\ UNCHANGED <<api, mishaps>>

\* an exception or a kill between two store calls: what is open stays open
Abort(r) ==
    /\ "abort" \in Faults
    /\ on[r] # NoBranch
    /\ mishaps' = mishaps \cup {"abort"}
    /\ Exits(r)
    /\ UNCHANGED <<api, storeVars>>

-----------------------------------------------------------------------------
(* The API server: one request at a time *)

CreateBranch(b) ==
    /\ api = NoRequest
    /\ branch[b] = "absent"
    /\ branch' = [branch EXCEPT ![b] = "queued"]
    /\ UNCHANGED <<attempts, api, mishaps, runnerVars>>

Evidence(b) == UNION {attempts[b][i].evidence : i \in DOMAIN attempts[b]}
PassedKinds(b) == {e.kind : e \in {x \in Evidence(b) : x.ok}}
FailedKinds(b) == {e.kind : e \in {x \in Evidence(b) : ~x.ok}}

\* promote reads the status, refusing all but evaluated branches ...
Promote(b) ==
    /\ api = NoRequest
    /\ branch[b] = "evaluating"
    /\ NoteOverlap(b)
    /\ api' = [at |-> "gate", branch |-> b]
    /\ UNCHANGED <<storeVars, runnerVars>>

\* ... then the evidence of all attempts ...
PromoteGate ==
    /\ api.at = "gate"
    /\ api' = IF Required \subseteq PassedKinds(api.branch)
              THEN [api EXCEPT !.at = "write"] ELSE NoRequest
    /\ UNCHANGED <<mishaps, storeVars, runnerVars>>

\* ... and writes, whatever the status is by now
PromoteWrite ==
    /\ api.at = "write"
    /\ branch' = [branch EXCEPT ![api.branch] = "promoted"]
    /\ api' = NoRequest
    /\ UNCHANGED <<attempts, mishaps, runnerVars>>

\* score_branch and rank_task: a failed required record outweighs the rest
Decision(b) ==
    CASE branch[b] = "pruned" -> "prune"
      [] Required \cap FailedKinds(b) # {} -> "prune"
      [] Required \subseteq PassedKinds(b) -> "promote-ready"
      [] OTHER -> "expand"

RunnerStep(r) ==
    \/ Baseline(r)
    \/ RequestEdit(r)
    \/ ApplyEdit(r)
    \/ RunProfile(r)
    \/ Payload(r)
    \/ Refuse(r)
    \/ \E b \in Branches : Accept(r, b)
    \/ ReadStatus(r)
    \/ ReadOrdinal(r)
    \/ InsertAttempt(r)
    \/ IngestBaseline(r)
    \/ IngestProposal(r)
    \/ \E p \in Profiles : IngestProfile(r, p)
    \/ FinishAttempt(r)
    \/ Abort(r)

Next ==
    \/ \E r \in Runners : RunnerStep(r)
    \/ \E b \in Branches : CreateBranch(b) \/ Promote(b)
    \/ PromoteGate
    \/ PromoteWrite

Spec == Init /\ [][Next]_vars

-----------------------------------------------------------------------------
Stages == {"idle", "request", "apply", "payload", "artifact", "status",
           "ordinal", "insert", "harness", "proposal", "static", "test", "finish"} \cup Profiles

TypeOK ==
    /\ branch \in [Branches ->
          {"absent", "queued", "running", "evaluating", "promoted", "pruned"}]
    /\ attempts \in [Branches -> Seq([status: {"created", "completed", "failed"},
                                      evidence: SUBSET [kind: Kinds, ok: BOOLEAN]])]
    /\ pc \in [Runners -> Stages]
    /\ result \in [Runners ->
          [baseline: {"none", "green", "red"}, proposal: BOOLEAN,
           validation: UNION {[d -> BOOLEAN] : d \in SUBSET Profiles},
           passed: BOOLEAN]]
    /\ on \in [Runners -> Branches \cup {NoBranch}]
    /\ ordinal \in [Runners -> 0 .. MaxAttempts + 1]
    /\ api \in [at: {"idle", "gate", "write"}, branch: Branches \cup {NoBranch}]
    /\ mishaps \subseteq {"abort", "overlap"}

\* every check of the attempt passed
Whole(attempt) ==
    /\ attempt.status = "completed"
    /\ attempt.evidence = [kind: Kinds, ok: {TRUE}]

(* promote looks at the evidence of all attempts together, of those that   *)
(* were cut short too, and at a status other processes overwrite: even so, *)
(* a promoted branch has one completed attempt that passed every check.    *)
PromotionIsEarned ==
    \A b \in Branches : branch[b] = "promoted" =>
        \E i \in DOMAIN attempts[b] : Whole(attempts[b][i])

(* "pruned" and "promoted" are verdicts: create_attempt and promote refuse *)
(* such a branch, in whatever order attempts fail, pass and are aborted.   *)
(* This holds as long as no two processes work on a branch at the same     *)
(* time; finish_attempt and promote write over whatever they find.         *)
SettledIsFinal ==
    [][\A b \in Branches :
         /\ branch[b] \in {"pruned", "promoted"}
         /\ "overlap" \notin mishaps
         => branch'[b] = branch[b]]_vars

(* tests/test_swarm_scoring.py: a failed required check prunes "even when  *)
(* other checks pass".  promote does not look for failures, but as long as *)
(* no ingestion is cut short and none overlap, what it promotes is what    *)
(* the ranking calls ready.                                                *)
PromotedIsReady ==
    \A b \in Branches :
        branch[b] = "promoted" /\ mishaps = {} => Decision(b) = "promote-ready"

(* swarm/store.py: "Evidence is append-only; an executor cannot mark its   *)
(* own branch promoted."  The store's calls, each of which reads first and *)
(* writes later, are those of AttemptLedger, whoever dies or overlaps.     *)
Ledger == INSTANCE AttemptLedger WITH
    Records   <- [kind: Kinds, ok: BOOLEAN],
    AllPassed <- [kind: Kinds, ok: {TRUE}],
    status    <- branch,
    ledger    <- attempts,
    alone     <- "overlap" \notin mishaps

ImplementsLedger == Ledger!Spec

=============================================================================
