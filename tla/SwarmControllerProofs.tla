----------------------- MODULE SwarmControllerProofs -----------------------
(***************************************************************************)
(* Proofs about SwarmController for every set of runners and branches and  *)
(* every bound on the attempts.  The argument: an attempt is written by    *)
(* the one runner that inserted it, up to its end (AttemptInv); an attempt *)
(* that ended with a pass is never touched again; and whatever makes a     *)
(* branch "evaluating" has just completed such an attempt (EarnedInv).     *)
(***************************************************************************)
EXTENDS SwarmController, TLAPS

Attempt == [status: {"created", "completed", "failed"},
            evidence: SUBSET [kind: Kinds, ok: BOOLEAN]]

\* the stages of a runner that has an attempt of its own
Writing == {"harness", "proposal", "static", "test", "finish"}
Ingesting == {"status", "ordinal", "insert"} \cup Writing

Own(r) == attempts[on[r]][ordinal[r]]

\* the evidence of a passing attempt, stage by stage
Collected(s) ==
    CASE s = "harness"  -> {}
      [] s = "proposal" -> {Record("harness", TRUE)}
      [] s = "static"   -> {Record("harness", TRUE), Record("model", TRUE)}
      [] s = "test"     -> {Record("harness", TRUE), Record("model", TRUE),
                            Record("static", TRUE)}
      [] s = "finish"   -> [kind: Kinds, ok: {TRUE}]

\* the checks are run only for a proposal
ResultInv(r) ==
    /\ pc[r] \in {"apply"} \cup Profiles => result[r].proposal
    /\ DOMAIN result[r].validation # {} => result[r].proposal
    /\ pc[r] \in {"idle", "request"} => DOMAIN result[r].validation = {}

PlaceInv(r) == pc[r] \in Ingesting <=> on[r] # NoBranch

\* a runner's attempt is open, and its own
AttemptInv(r) ==
    pc[r] \in Writing =>
       /\ ordinal[r] \in DOMAIN attempts[on[r]]
       /\ Own(r).status = "created"
       /\ DerivedPass(result[r]) => Own(r).evidence = Collected(pc[r])
       /\ \A q \in Runners \ {r} :
             pc[q] \in Writing /\ on[q] = on[r] => ordinal[q] # ordinal[r]

BoundInv == \A b \in Branches : Len(attempts[b]) <= MaxAttempts

HasWhole(b) == \E i \in DOMAIN attempts[b] : Whole(attempts[b][i])

\* the promote request that is handled has seen its branch evaluated
EarnedInv ==
    \A b \in Branches :
       branch[b] \in {"evaluating", "promoted"} \/ api.branch = b => HasWhole(b)

ApiInv == api.at = "idle" <=> api.branch = NoBranch

SwarmInv ==
    /\ TypeOK
    /\ \A r \in Runners : ResultInv(r) /\ PlaceInv(r)
    /\ \A r \in Runners : AttemptInv(r)
    /\ BoundInv
    /\ EarnedInv
    /\ ApiInv

-----------------------------------------------------------------------------
\* Replacing one attempt of a branch by another.
LEMMA ReplaceAttempt ==
    ASSUME attempts \in [Branches -> Seq(Attempt)], NEW b \in Branches,
           NEW i \in DOMAIN attempts[b], NEW a \in Attempt,
           attempts' = [attempts EXCEPT ![b] = [attempts[b] EXCEPT ![i] = a]]
    PROVE  /\ attempts' \in [Branches -> Seq(Attempt)]
           /\ attempts'[b][i] = a
           /\ \A c \in Branches : /\ Len(attempts'[c]) = Len(attempts[c])
                                  /\ DOMAIN attempts'[c] = DOMAIN attempts[c]
           /\ \A c \in Branches : c # b => attempts'[c] = attempts[c]
           /\ \A j \in DOMAIN attempts[b] : j # i => attempts'[b][j] = attempts[b][j]
<1>1. attempts[b] \in Seq(Attempt)
  OBVIOUS
<1>2. [attempts[b] EXCEPT ![i] = a] \in Seq(Attempt)
  BY <1>1
<1>3. /\ Len([attempts[b] EXCEPT ![i] = a]) = Len(attempts[b])
      /\ DOMAIN [attempts[b] EXCEPT ![i] = a] = DOMAIN attempts[b]
  BY <1>1
<1> QED
  BY <1>1, <1>2, <1>3

\* Adding one.
LEMMA AddAttempt ==
    ASSUME attempts \in [Branches -> Seq(Attempt)], NEW b \in Branches,
           NEW a \in Attempt,
           attempts' = [attempts EXCEPT ![b] = Append(@, a)]
    PROVE  /\ attempts' \in [Branches -> Seq(Attempt)]
           /\ Len(attempts'[b]) = Len(attempts[b]) + 1
           /\ DOMAIN attempts'[b] = DOMAIN attempts[b] \cup {Len(attempts[b]) + 1}
           /\ attempts'[b][Len(attempts[b]) + 1] = a
           /\ \A c \in Branches : c # b => attempts'[c] = attempts[c]
           /\ \A j \in DOMAIN attempts[b] : attempts'[b][j] = attempts[b][j]
<1>1. attempts[b] \in Seq(Attempt) /\ Len(attempts[b]) \in Nat
  OBVIOUS
<1>2. attempts'[b] = Append(attempts[b], a)
  OBVIOUS
<1>3. /\ Append(attempts[b], a) \in Seq(Attempt)
      /\ Len(Append(attempts[b], a)) = Len(attempts[b]) + 1
  BY <1>1
<1>4. /\ DOMAIN attempts[b] = 1 .. Len(attempts[b])
      /\ DOMAIN Append(attempts[b], a) = 1 .. Len(attempts[b]) + 1
  BY <1>1, <1>3
<1>5. /\ Append(attempts[b], a)[Len(attempts[b]) + 1] = a
      /\ \A j \in DOMAIN attempts[b] : Append(attempts[b], a)[j] = attempts[b][j]
  BY <1>1, <1>4
<1> QED
  BY <1>1, <1>2, <1>3, <1>4, <1>5

\* A runner replaces its own attempt by a.
Updates(r, a) ==
    /\ a \in Attempt
    /\ attempts' = [attempts EXCEPT ![on[r]] =
                       [attempts[on[r]] EXCEPT ![ordinal[r]] = a]]

Ingests(r) ==
    \/ IngestBaseline(r)
    \/ IngestProposal(r)
    \/ \E p \in Profiles : IngestProfile(r, p)

LEMMA OwnAttempt ==
    ASSUME SwarmInv, NEW r \in Runners, pc[r] \in Writing
    PROVE  /\ on[r] \in Branches /\ ordinal[r] \in DOMAIN attempts[on[r]]
           /\ attempts \in [Branches -> Seq(Attempt)]
           /\ attempts[on[r]] \in Seq(Attempt) /\ Own(r) \in Attempt
<1>1. /\ on[r] \in Branches /\ ordinal[r] \in DOMAIN attempts[on[r]]
      /\ attempts \in [Branches -> Seq(Attempt)]
  BY DEF SwarmInv, TypeOK, PlaceInv, AttemptInv, Ingesting, Attempt
<1> QED
  BY <1>1 DEF Own

LEMMA AppendUpdates ==
    ASSUME SwarmInv, NEW r \in Runners, pc[r] \in Writing, NEW next,
           NEW records \in SUBSET [kind: Kinds, ok: BOOLEAN],
           AppendEvidence(r, records, next)
    PROVE  Updates(r, [Own(r) EXCEPT !.evidence = @ \cup records])
<1>1. Own(r) \in Attempt /\ attempts[on[r]] \in Seq(Attempt)
  BY OwnAttempt
<1>2. [Own(r) EXCEPT !.evidence = @ \cup records] \in Attempt
  BY <1>1 DEF Attempt
<1> QED
  BY <1>1, <1>2 DEF AppendEvidence, Updates, Own

\* Each stage adds one record of its own.
LEMMA CollectedGrows ==
    /\ Collected("harness") \cup {Record("harness", TRUE)} = Collected("proposal")
    /\ Collected("proposal") \cup {Record("model", TRUE)} = Collected("static")
    /\ Collected("static") \cup {Record("static", TRUE)} = Collected("test")
    /\ Collected("test") \cup {Record("test", TRUE)} = Collected("finish")
<1>1. /\ Collected("harness") = {}
      /\ Collected("proposal") = {Record("harness", TRUE)}
      /\ Collected("static") = {Record("harness", TRUE), Record("model", TRUE)}
      /\ Collected("test") = {Record("harness", TRUE), Record("model", TRUE),
                              Record("static", TRUE)}
      /\ Collected("finish") = [kind: Kinds, ok: {TRUE}]
  BY DEF Collected
<1>2. ASSUME NEW x \in [kind: Kinds, ok: {TRUE}]
      PROVE  x \in {Record("harness", TRUE), Record("model", TRUE),
                    Record("static", TRUE), Record("test", TRUE)}
  <2>1. x = Record(x.kind, TRUE) /\ x.kind \in Kinds
    BY DEF Record
  <2> QED
    BY <2>1 DEF Kinds, Required
<1>3. \A k \in Kinds : Record(k, TRUE) \in [kind: Kinds, ok: {TRUE}]
  BY DEF Record
<1>4. {Record("harness", TRUE), Record("model", TRUE), Record("static", TRUE),
       Record("test", TRUE)} = [kind: Kinds, ok: {TRUE}]
  <2> DEFINE All == {Record("harness", TRUE), Record("model", TRUE),
                     Record("static", TRUE), Record("test", TRUE)}
  <2>1. {"harness", "model", "static", "test"} \subseteq Kinds
    BY DEF Kinds, Required
  <2>2. All \subseteq [kind: Kinds, ok: {TRUE}]
    BY <1>3, <2>1
  <2>3. [kind: Kinds, ok: {TRUE}] \subseteq All
    BY <1>2
  <2> HIDE DEF All
  <2>4. All = [kind: Kinds, ok: {TRUE}]
    BY <2>2, <2>3
  <2> QED
    BY <2>4 DEF All
<1> QED
  BY <1>1, <1>4

LEMMA IngestUpdates ==
    ASSUME SwarmInv, NEW r \in Runners, Ingests(r)
    PROVE  \E records \in SUBSET [kind: Kinds, ok: BOOLEAN], s \in Stages :
              /\ AppendEvidence(r, records, s)
              /\ s \in Writing /\ pc[r] \in Writing
              /\ DerivedPass(result[r]) =>
                    Collected(pc[r]) \cup records = Collected(s)
<1> USE DEF Stages, Writing
<1>1. CASE IngestBaseline(r)
  <2>1. {Record("harness", TRUE)} \in SUBSET [kind: Kinds, ok: BOOLEAN]
    BY DEF Kinds, Record
  <2>2. /\ pc[r] = "harness"
        /\ AppendEvidence(r, {Record("harness", TRUE)}, "proposal")
    BY <1>1 DEF IngestBaseline
  <2> QED
    BY <2>1, <2>2, CollectedGrows
<1>2. CASE IngestProposal(r)
  <2>1. DerivedPass(result[r]) => result[r].proposal
    BY DEF DerivedPass, SwarmInv, ResultInv, Profiles
  <2> DEFINE records == {IF result[r].proposal THEN Record("model", TRUE)
                                               ELSE Record("harness", FALSE)}
  <2>2. records \in SUBSET [kind: Kinds, ok: BOOLEAN]
    BY DEF Kinds, Record
  <2>3. pc[r] = "proposal" /\ AppendEvidence(r, records, "static")
    BY <1>2 DEF IngestProposal
  <2>4. DerivedPass(result[r]) => Collected(pc[r]) \cup records = Collected("static")
    BY <2>1, <2>3, CollectedGrows
  <2> HIDE DEF records
  <2> QED
    BY <2>2, <2>3, <2>4
<1>3. ASSUME NEW p \in Profiles, IngestProfile(r, p)
      PROVE  \E records \in SUBSET [kind: Kinds, ok: BOOLEAN], s \in Stages :
              /\ AppendEvidence(r, records, s)
              /\ s \in Writing /\ pc[r] \in Writing
              /\ DerivedPass(result[r]) =>
                    Collected(pc[r]) \cup records = Collected(s)
  <2> DEFINE records == IF p \in DOMAIN result[r].validation
                        THEN {Record(KindOf[p], result[r].validation[p])} ELSE {}
  <2> DEFINE s == IF KindOf[p] = "static" THEN "test" ELSE "finish"
  <2>1. p \in DOMAIN result[r].validation => result[r].validation[p] \in BOOLEAN
    BY DEF SwarmInv, TypeOK
  <2>2. records \in SUBSET [kind: Kinds, ok: BOOLEAN]
    BY <2>1 DEF Kinds, Required, Record, KindOf
  <2>3. AppendEvidence(r, records, s) /\ pc[r] = KindOf[p]
    BY <1>3 DEF IngestProfile
  <2>4. DerivedPass(result[r]) => records = {Record(KindOf[p], TRUE)}
    BY <2>1 DEF DerivedPass
  <2>5. \/ KindOf[p] = "static" /\ s = "test"
        \/ KindOf[p] = "test" /\ s = "finish"
    BY DEF KindOf, Profiles
  <2>6. DerivedPass(result[r]) => Collected(pc[r]) \cup records = Collected(s)
    <3> HIDE DEF records, s
    <3> QED
      BY <2>3, <2>4, <2>5, CollectedGrows
  <2> HIDE DEF records, s
  <2> QED
    BY <2>2, <2>3, <2>5, <2>6
<1> QED
  BY <1>1, <1>2, <1>3 DEF Ingests

-----------------------------------------------------------------------------
Result == [baseline: {"none", "green", "red"}, proposal: BOOLEAN,
           validation: UNION {[d -> BOOLEAN] : d \in SUBSET Profiles},
           passed: BOOLEAN]

LEMMA NoResultType == NoResult \in Result
<1>1. <<>> \in [{} -> BOOLEAN]
  OBVIOUS
<1>2. <<>> \in UNION {[d -> BOOLEAN] : d \in SUBSET Profiles}
  BY <1>1
<1> QED
  BY <1>2 DEF NoResult, Result

\* What a corpus run and the end of a process leave of the types.
LEMMA ExitsType ==
    ASSUME SwarmInv, NEW r \in Runners, Exits(r)
    PROVE  /\ pc' \in [Runners -> Stages] /\ pc'[r] = "idle"
           /\ result' \in [Runners -> Result] /\ result'[r] = NoResult
           /\ on' \in [Runners -> Branches \cup {NoBranch}] /\ on'[r] = NoBranch
           /\ ordinal' \in [Runners -> 0 .. MaxAttempts + 1]
<1> USE DEF SwarmInv, TypeOK, Exits, Goto
<1>1. pc' \in [Runners -> Stages] /\ pc'[r] = "idle"
  BY DEF Stages
<1>2. result' \in [Runners -> Result] /\ result'[r] = NoResult
  BY NoResultType DEF Result
<1>3. on' \in [Runners -> Branches \cup {NoBranch}] /\ on'[r] = NoBranch
  OBVIOUS
<1>4. ordinal' \in [Runners -> 0 .. MaxAttempts + 1]
  BY ConstantsAssumption
<1> QED
  BY <1>1, <1>2, <1>3, <1>4

\* run_profile adds one profile to the record.
Noted(v, q, ok) == [p \in DOMAIN v \cup {q} |-> IF p = q THEN ok ELSE v[p]]

LEMMA ProfileType ==
    ASSUME NEW v \in UNION {[d -> BOOLEAN] : d \in SUBSET Profiles},
           NEW q \in Profiles, NEW ok \in BOOLEAN
    PROVE  Noted(v, q, ok) \in UNION {[d -> BOOLEAN] : d \in SUBSET Profiles}
<1>1. PICK d \in SUBSET Profiles : v \in [d -> BOOLEAN]
  OBVIOUS
<1>2. Noted(v, q, ok) \in [d \cup {q} -> BOOLEAN]
  BY <1>1 DEF Noted
<1>3. d \cup {q} \in SUBSET Profiles
  OBVIOUS
<1> QED
  BY <1>2, <1>3

LEMMA NoteType ==
    ASSUME SwarmInv, NEW b, NoteOverlap(b)
    PROVE  mishaps' \subseteq {"abort", "overlap"}
BY DEF SwarmInv, TypeOK, NoteOverlap

\* No step leaves the types of the variables.
LEMMA TypeStep == SwarmInv /\ [Next]_vars => TypeOK'
<1> SUFFICES ASSUME SwarmInv, [Next]_vars PROVE TypeOK'
  OBVIOUS
<1> TypeOK
  BY DEF SwarmInv
<1> USE DEF storeVars, runnerVars
<1>1. ASSUME NEW r \in Runners, NEW v \in Result, NEW s \in Stages,
             result' = [result EXCEPT ![r] = v] \/ result' = result,
             Goto(r, s), UNCHANGED <<on, ordinal, api, mishaps, storeVars>>
      PROVE  TypeOK'
  <2>1. result \in [Runners -> Result]
    BY DEF TypeOK, Result
  <2>2. result' \in [Runners -> Result]
    BY <1>1, <2>1
  <2>3. pc' \in [Runners -> Stages]
    BY <1>1 DEF TypeOK, Goto
  <2> QED
    BY <1>1, <2>2, <2>3 DEF TypeOK, Result
<1>2. ASSUME NEW r \in Runners, Exits(r), UNCHANGED <<api, storeVars>>,
             mishaps' \subseteq {"abort", "overlap"}
      PROVE  TypeOK'
  BY <1>2, ExitsType DEF TypeOK, Result
<1>3. ASSUME NEW r \in Runners, RunnerStep(r) PROVE TypeOK'
  <2>1. result[r] \in Result
    BY DEF TypeOK, Result
  <2>2. CASE Baseline(r)
    <3>1. PICK exit \in {"none", "green", "red"} :
             /\ result' = [result EXCEPT ![r].baseline = exit]
             /\ Goto(r, IF exit = "red" THEN "request" ELSE "payload")
      BY <2>2 DEF Baseline
    <3>2. [result[r] EXCEPT !.baseline = exit] \in Result
      BY <2>1 DEF Result
    <3> QED
      BY <1>1, <2>2, <3>1, <3>2 DEF Baseline, Stages
  <2>3. CASE RequestEdit(r)
    <3>1. PICK proposed \in BOOLEAN :
             /\ result' = [result EXCEPT ![r].proposal = proposed]
             /\ Goto(r, IF proposed THEN "apply" ELSE "payload")
      BY <2>3 DEF RequestEdit
    <3>2. [result[r] EXCEPT !.proposal = proposed] \in Result
      BY <2>1 DEF Result
    <3> QED
      BY <1>1, <2>3, <3>1, <3>2 DEF RequestEdit, Stages
  <2>4. CASE ApplyEdit(r)
    BY <1>1, <2>1, <2>4 DEF ApplyEdit, Stages, Profiles
  <2>5. CASE RunProfile(r)
    <3>1. pc[r] \in Profiles
      BY <2>5 DEF RunProfile
    <3>2. CASE UNCHANGED result
      BY <1>1, <2>1, <2>5, <3>2 DEF RunProfile, Stages, Profiles
    <3>3. ASSUME NEW ok \in BOOLEAN,
                 result' = [result EXCEPT ![r].validation =
                    [p \in DOMAIN @ \cup {pc[r]} |-> IF p = pc[r] THEN ok ELSE @[p]]]
          PROVE  TypeOK'
      <4> DEFINE v == Noted(result[r].validation, pc[r], ok)
      <4>1. v \in UNION {[d -> BOOLEAN] : d \in SUBSET Profiles}
        <5>1. result[r].validation \in UNION {[d -> BOOLEAN] : d \in SUBSET Profiles}
          BY <2>1 DEF Result
        <5> QED
          BY <3>1, <3>3, <5>1, ProfileType
      <4>2. result' = [result EXCEPT ![r] = [result[r] EXCEPT !.validation = v]]
        BY <3>3 DEF Noted
      <4> HIDE DEF v
      <4>3. [result[r] EXCEPT !.validation = v] \in Result
        BY <2>1, <4>1 DEF Result
      <4>4. \E s \in Stages : Goto(r, s)
        BY <2>5 DEF RunProfile, Stages, Profiles
      <4> QED
        BY <1>1, <2>5, <4>2, <4>3, <4>4 DEF RunProfile
    <3> QED
      BY <2>5, <3>2, <3>3 DEF RunProfile
  <2>6. CASE Payload(r)
    <3> DEFINE pass == /\ result[r].baseline = "red"
                       /\ DOMAIN result[r].validation # {}
                       /\ \A p \in DOMAIN result[r].validation :
                             result[r].validation[p]
    <3>1. result' = [result EXCEPT ![r] = [result[r] EXCEPT !.passed = pass]]
      BY <2>6 DEF Payload
    <3>2. pass \in BOOLEAN
      OBVIOUS
    <3> HIDE DEF pass
    <3>3. [result[r] EXCEPT !.passed = pass] \in Result
      BY <2>1, <3>2 DEF Result
    <3> QED
      BY <1>1, <2>6, <3>1, <3>3 DEF Payload, Stages
  <2>7. CASE Refuse(r)
    BY <1>2, <2>7 DEF Refuse, TypeOK
  <2>8. ASSUME NEW b \in Branches, Accept(r, b) PROVE TypeOK'
    BY <2>8, NoteType DEF Accept, Goto, TypeOK, Stages
  <2>9. CASE ReadStatus(r)
    BY <1>1, <1>2, <2>1, <2>9 DEF ReadStatus, Stages, TypeOK
  <2>10. CASE ReadOrdinal(r)
    <3>1. on[r] \in Branches
      BY <2>10 DEF ReadOrdinal, SwarmInv, PlaceInv, TypeOK, Ingesting
    <3>2. Len(attempts[on[r]]) + 1 \in 0 .. MaxAttempts + 1
      BY <3>1, ConstantsAssumption DEF SwarmInv, BoundInv, TypeOK
    <3> QED
      BY <2>10, <3>2 DEF ReadOrdinal, Goto, TypeOK, Stages
  <2>11. CASE InsertAttempt(r)
    <3>1. CASE Exits(r) /\ UNCHANGED storeVars
      BY <1>2, <2>11, <3>1 DEF InsertAttempt, TypeOK
    <3>2. CASE /\ attempts' = [attempts EXCEPT ![on[r]] =
                     Append(@, [status |-> "created", evidence |-> {}])]
               /\ branch' = [branch EXCEPT ![on[r]] = "running"]
               /\ Goto(r, "harness")
               /\ UNCHANGED <<result, on, ordinal>>
      <4>1. on[r] \in Branches
        BY <2>11 DEF InsertAttempt, SwarmInv, PlaceInv, TypeOK, Ingesting
      <4>2. attempts \in [Branches -> Seq(Attempt)]
        BY DEF TypeOK, Attempt
      <4>3. [status |-> "created", evidence |-> {}] \in Attempt
        BY DEF Attempt
      <4>4. attempts' \in [Branches -> Seq(Attempt)]
        BY <3>2, <4>1, <4>2, <4>3, AddAttempt
      <4> QED
        BY <2>11, <3>2, <4>4 DEF InsertAttempt, Goto, TypeOK, Stages, Attempt
    <3> QED
      BY <2>11, <3>1, <3>2 DEF InsertAttempt
  <2>12. CASE Ingests(r)
    <3>1. PICK records \in SUBSET [kind: Kinds, ok: BOOLEAN], s \in Stages :
             AppendEvidence(r, records, s) /\ pc[r] \in Writing
      BY <2>12, IngestUpdates
    <3>2. attempts' \in [Branches -> Seq(Attempt)]
      <4> DEFINE a == [Own(r) EXCEPT !.evidence = @ \cup records]
      <4>1. Updates(r, a)
        BY <3>1, AppendUpdates
      <4> HIDE DEF a
      <4> QED
        BY <3>1, <4>1, OwnAttempt, ReplaceAttempt DEF Updates
    <3> QED
      BY <3>1, <3>2 DEF AppendEvidence, Goto, TypeOK, Attempt
  <2>13. CASE FinishAttempt(r)
    <3>1. PICK st \in {"completed", "failed"} :
             attempts' = [attempts EXCEPT ![on[r]][ordinal[r]].status = st]
      BY <2>13 DEF FinishAttempt
    <3>2. pc[r] \in Writing
      BY <2>13 DEF FinishAttempt, Writing
    <3>3. [Own(r) EXCEPT !.status = st] \in Attempt
      BY <3>2, OwnAttempt DEF Attempt
    <3>4. attempts' = [attempts EXCEPT ![on[r]] =
              [attempts[on[r]] EXCEPT ![ordinal[r]] = [Own(r) EXCEPT !.status = st]]]
      BY <3>1, <3>2, OwnAttempt DEF Own
    <3>5. attempts' \in [Branches -> Seq(Attempt)]
      BY <3>2, <3>3, <3>4, OwnAttempt, ReplaceAttempt
    <3>6. branch' \in [Branches ->
             {"absent", "queued", "running", "evaluating", "promoted", "pruned"}]
      BY <2>13 DEF FinishAttempt, TypeOK
    <3> QED
      BY <2>13, <3>5, <3>6, ExitsType DEF FinishAttempt, TypeOK, Attempt, Result
  <2>14. CASE Abort(r)
    BY <1>2, <2>14 DEF Abort, TypeOK
  <2> QED
    BY <1>3, <2>2, <2>3, <2>4, <2>5, <2>6, <2>7, <2>8, <2>9, <2>10, <2>11,
       <2>12, <2>13, <2>14 DEF RunnerStep, Ingests
<1>4. ASSUME NEW b \in Branches, CreateBranch(b) PROVE TypeOK'
  BY <1>4 DEF CreateBranch, TypeOK
<1>5. ASSUME NEW b \in Branches, Promote(b) PROVE TypeOK'
  BY <1>5, NoteType DEF Promote, TypeOK
<1>6. CASE PromoteGate
  BY <1>6 DEF PromoteGate, TypeOK, NoRequest
<1>7. CASE PromoteWrite
  BY <1>7 DEF PromoteWrite, TypeOK, NoRequest
<1>8. CASE UNCHANGED vars
  BY <1>8 DEF vars, TypeOK
<1> QED
  BY <1>3, <1>4, <1>5, <1>6, <1>7, <1>8 DEF Next

-----------------------------------------------------------------------------
\* A step of a runner leaves the other runners alone.
LEMMA RunnerFrame ==
    ASSUME SwarmInv, NEW r \in Runners, NEW q \in Runners, q # r, RunnerStep(r)
    PROVE  /\ pc'[q] = pc[q] /\ result'[q] = result[q]
           /\ on'[q] = on[q] /\ ordinal'[q] = ordinal[q]
<1> TypeOK
  BY DEF SwarmInv
<1> USE DEF TypeOK, Exits, Goto
<1>1. CASE Ingests(r)
  BY <1>1, IngestUpdates DEF AppendEvidence
<1>2. CASE ~Ingests(r)
  BY <1>2 DEF RunnerStep, Ingests, Baseline, RequestEdit, ApplyEdit,
     RunProfile, Payload, Refuse, Accept, ReadStatus, ReadOrdinal,
     InsertAttempt, FinishAttempt, Abort
<1> QED
  BY <1>1, <1>2

\* How a runner's step moves it, on its branch or away from it.
LEMMA OwnPlace ==
    ASSUME SwarmInv, NEW r \in Runners, RunnerStep(r)
    PROVE  PlaceInv(r)'
<1> TypeOK /\ PlaceInv(r)
  BY DEF SwarmInv
<1> USE DEF TypeOK, Goto, PlaceInv, Ingesting, Writing, Profiles
<1>1. CASE Exits(r)
  BY <1>1, ExitsType
<1>2. CASE Ingests(r)
  BY <1>2, IngestUpdates DEF AppendEvidence
<1>3. CASE Baseline(r) \/ RequestEdit(r) \/ ApplyEdit(r) \/ RunProfile(r)
           \/ Payload(r)
  BY <1>3 DEF Baseline, RequestEdit, ApplyEdit, RunProfile, Payload
<1>4. ASSUME NEW b \in Branches, Accept(r, b) PROVE PlaceInv(r)'
  BY <1>4, ConstantsAssumption DEF Accept
<1>5. CASE ReadStatus(r) \/ ReadOrdinal(r) \/ InsertAttempt(r)
  BY <1>1, <1>5 DEF ReadStatus, ReadOrdinal, InsertAttempt
<1>6. CASE Refuse(r) \/ FinishAttempt(r) \/ Abort(r)
  BY <1>1, <1>6 DEF Refuse, FinishAttempt, Abort
<1> QED
  BY <1>2, <1>3, <1>4, <1>5, <1>6 DEF RunnerStep, Ingests

LEMMA OwnResult ==
    ASSUME SwarmInv, NEW r \in Runners, RunnerStep(r)
    PROVE  ResultInv(r)'
<1> TypeOK
  BY DEF SwarmInv
<1> ResultInv(r)
  BY Zenon DEF SwarmInv
<1> USE DEF TypeOK, Goto, ResultInv, Profiles
<1>1. CASE Exits(r)
  <2>1. result'[r] = NoResult /\ pc'[r] = "idle"
    BY <1>1, ExitsType
  <2> QED
    BY <2>1 DEF NoResult
<1>2. CASE Ingests(r)
  <2>1. PICK records \in SUBSET [kind: Kinds, ok: BOOLEAN], s \in Stages :
           AppendEvidence(r, records, s) /\ s \in Writing
    BY <1>2, IngestUpdates
  <2>2. UNCHANGED result /\ pc' = [pc EXCEPT ![r] = s]
    BY <2>1 DEF AppendEvidence
  <2>3. pc'[r] \in Writing /\ pc[r] \in Writing
    BY <1>2, <2>1, <2>2, IngestUpdates
  <2> QED
    BY <2>2, <2>3 DEF Writing
<1>3. CASE Baseline(r) \/ ApplyEdit(r)
  <2>1. /\ result'[r].proposal = result[r].proposal
        /\ result'[r].validation = result[r].validation
    BY <1>3 DEF Baseline, ApplyEdit
  <2> QED
    BY <1>3, <2>1 DEF Baseline, ApplyEdit
<1>9. CASE RequestEdit(r)
  <2>1. PICK proposed \in BOOLEAN :
           /\ result' = [result EXCEPT ![r].proposal = proposed]
           /\ Goto(r, IF proposed THEN "apply" ELSE "payload")
    BY <1>9 DEF RequestEdit
  <2>2. /\ result'[r].proposal = proposed
        /\ result'[r].validation = result[r].validation
    BY <2>1
  <2>3. DOMAIN result[r].validation = {}
    BY <1>9 DEF RequestEdit
  <2>4. pc'[r] = IF proposed THEN "apply" ELSE "payload"
    BY <2>1
  <2> QED
    BY <2>2, <2>3, <2>4
<1>4. CASE RunProfile(r)
  <2>1. result'[r].proposal = result[r].proposal /\ result[r].proposal
    BY <1>4 DEF RunProfile
  <2> QED
    BY <1>4, <2>1 DEF RunProfile
<1>5. CASE Payload(r)
  <2>1. /\ result'[r].proposal = result[r].proposal
        /\ result'[r].validation = result[r].validation
    BY <1>5 DEF Payload
  <2> QED
    BY <1>5, <2>1 DEF Payload
<1>6. ASSUME NEW b \in Branches, Accept(r, b) PROVE ResultInv(r)'
  BY <1>6 DEF Accept
<1>7. CASE ReadStatus(r) \/ ReadOrdinal(r) \/ InsertAttempt(r)
  BY <1>1, <1>7 DEF ReadStatus, ReadOrdinal, InsertAttempt
<1>8. CASE Refuse(r) \/ FinishAttempt(r) \/ Abort(r)
  BY <1>1, <1>8 DEF Refuse, FinishAttempt, Abort
<1> QED
  BY <1>2, <1>3, <1>4, <1>5, <1>6, <1>7, <1>8, <1>9 DEF RunnerStep, Ingests

-----------------------------------------------------------------------------
\* What a runner's step does to the attempts: it inserts one, replaces its
\* own, or leaves them alone.
Inserts(r) ==
    /\ pc[r] = "insert" /\ pc'[r] = "harness"
    /\ on[r] \in Branches
    /\ ordinal[r] = Len(attempts[on[r]]) + 1 /\ ordinal[r] <= MaxAttempts
    /\ attempts' = [attempts EXCEPT ![on[r]] =
                       Append(@, [status |-> "created", evidence |-> {}])]
    /\ UNCHANGED <<result, on, ordinal>>

Replaces(r) ==
    /\ pc[r] \in Writing
    /\ \E a \in Attempt :
          /\ Updates(r, a)
          /\ pc'[r] \in Writing =>
                /\ a.status = "created"
                /\ DerivedPass(result[r]) => a.evidence = Collected(pc'[r])
                /\ UNCHANGED <<result, on, ordinal>>
          /\ pc'[r] \notin Writing =>
                FinishAttempt(r) /\ (DerivedPass(result[r]) => Whole(a))

LEMMA AttemptChanges ==
    ASSUME SwarmInv, NEW r \in Runners, RunnerStep(r)
    PROVE  \/ Inserts(r)
           \/ Replaces(r)
           \/ attempts' = attempts /\ pc'[r] \notin Writing
<1> TypeOK /\ PlaceInv(r) /\ AttemptInv(r)
  BY DEF SwarmInv
<1>1. CASE Exits(r) /\ attempts' = attempts
  BY <1>1, ExitsType DEF Writing
<1>2. CASE InsertAttempt(r) /\ ~Exits(r)
  <2>1. on[r] \in Branches
    BY <1>2 DEF InsertAttempt, TypeOK, PlaceInv, Ingesting
  <2> QED
    BY <1>2, <2>1 DEF InsertAttempt, Inserts, Goto, TypeOK
<1>3. CASE Ingests(r)
  <2>1. PICK records \in SUBSET [kind: Kinds, ok: BOOLEAN], s \in Stages :
              /\ AppendEvidence(r, records, s)
              /\ s \in Writing /\ pc[r] \in Writing
              /\ DerivedPass(result[r]) =>
                    Collected(pc[r]) \cup records = Collected(s)
    BY <1>3, IngestUpdates
  <2> DEFINE a == [Own(r) EXCEPT !.evidence = @ \cup records]
  <2>2. Updates(r, a)
    BY <2>1, AppendUpdates
  <2>3. Own(r) \in Attempt
    BY <2>1, OwnAttempt
  <2>4. a.status = Own(r).status /\ a.evidence = Own(r).evidence \cup records
    BY <2>3 DEF Attempt
  <2>5. a.status = "created" /\ (DerivedPass(result[r]) => a.evidence = Collected(s))
    BY <2>1, <2>4 DEF AttemptInv
  <2> HIDE DEF a
  <2>6. pc'[r] = s /\ UNCHANGED <<result, on, ordinal>>
    BY <2>1 DEF AppendEvidence, Goto, TypeOK
  <2> QED
    BY <2>1, <2>2, <2>5, <2>6 DEF Replaces, Updates
<1>4. CASE FinishAttempt(r)
  <2> DEFINE st == IF DerivedPass(result[r]) THEN "completed" ELSE "failed"
  <2> DEFINE a == [Own(r) EXCEPT !.status = st]
  <2>1. pc[r] = "finish" /\ pc[r] \in Writing
    BY <1>4 DEF FinishAttempt, Writing
  <2>2. Own(r) \in Attempt
    BY <2>1, OwnAttempt
  <2>3. a \in Attempt /\ a.status = st /\ a.evidence = Own(r).evidence
    BY <2>2 DEF Attempt
  <2>4. attempts' = [attempts EXCEPT ![on[r]] =
                        [attempts[on[r]] EXCEPT ![ordinal[r]] = a]]
    BY <1>4, <2>1, OwnAttempt DEF FinishAttempt, Own
  <2>5. DerivedPass(result[r]) => Whole(a)
    BY <2>1, <2>3 DEF AttemptInv, Whole, Collected
  <2>6. pc'[r] \notin Writing
    BY <1>4, ExitsType DEF FinishAttempt, Writing
  <2> HIDE DEF a
  <2> QED
    BY <1>4, <2>1, <2>3, <2>4, <2>5, <2>6 DEF Replaces, Updates
<1>5. CASE Baseline(r) \/ RequestEdit(r) \/ ApplyEdit(r) \/ RunProfile(r)
           \/ Payload(r) \/ ReadOrdinal(r) \/ (ReadStatus(r) /\ ~Exits(r))
  BY <1>5 DEF Baseline, RequestEdit, ApplyEdit, RunProfile, Payload,
     ReadOrdinal, ReadStatus, Goto, TypeOK, Writing, Profiles, storeVars
<1>6. ASSUME NEW b \in Branches, Accept(r, b)
      PROVE  attempts' = attempts /\ pc'[r] \notin Writing
  BY <1>6 DEF Accept, Goto, TypeOK, Writing, storeVars
<1>7. CASE Refuse(r) \/ Abort(r) \/ (ReadStatus(r) /\ Exits(r))
           \/ (InsertAttempt(r) /\ Exits(r))
  BY <1>1, <1>7, ExitsType DEF Refuse, Abort, ReadStatus, InsertAttempt,
     storeVars, Goto, TypeOK
<1> QED
  BY <1>2, <1>3, <1>4, <1>5, <1>6, <1>7 DEF RunnerStep, Ingests

-----------------------------------------------------------------------------
\* The attempts there were keep their places; only a runner's own is another.
LEMMA AttemptsKept ==
    ASSUME SwarmInv, NEW r \in Runners, RunnerStep(r), NEW b \in Branches,
           NEW i \in DOMAIN attempts[b]
    PROVE  /\ i \in DOMAIN attempts'[b]
           /\ attempts'[b][i] # attempts[b][i] =>
                 pc[r] \in Writing /\ b = on[r] /\ i = ordinal[r]
<1>1. attempts \in [Branches -> Seq(Attempt)]
  BY DEF SwarmInv, TypeOK, Attempt
<1>2. CASE Inserts(r)
  <2>1. [status |-> "created", evidence |-> {}] \in Attempt
    BY DEF Attempt
  <2> QED
    BY <1>1, <1>2, <2>1, AddAttempt DEF Inserts
<1>3. CASE Replaces(r)
  BY <1>1, <1>3, OwnAttempt, ReplaceAttempt DEF Replaces, Updates
<1> QED
  BY <1>2, <1>3, AttemptChanges

\* Every runner's attempt stays open and its own.
LEMMA AttemptStep ==
    ASSUME SwarmInv, NEW r \in Runners, RunnerStep(r), NEW q \in Runners
    PROVE  AttemptInv(q)'
<1>1. attempts \in [Branches -> Seq(Attempt)]
  BY DEF SwarmInv, TypeOK, Attempt
<1>2. CASE q # r
  <2> SUFFICES ASSUME pc[q] \in Writing
               PROVE  AttemptInv(q)'
    BY <1>2, RunnerFrame DEF AttemptInv
  <2>1. /\ AttemptInv(q) /\ on[q] \in Branches
        /\ ordinal[q] \in DOMAIN attempts[on[q]]
    BY OwnAttempt DEF SwarmInv
  <2>2. /\ pc'[q] = pc[q] /\ result'[q] = result[q]
        /\ on'[q] = on[q] /\ ordinal'[q] = ordinal[q]
    BY <1>2, RunnerFrame
  <2>3. ~(pc[r] \in Writing /\ on[q] = on[r] /\ ordinal[q] = ordinal[r])
    BY <1>2, <2>1 DEF AttemptInv
  <2>4. /\ ordinal[q] \in DOMAIN attempts'[on[q]]
        /\ attempts'[on[q]][ordinal[q]] = attempts[on[q]][ordinal[q]]
    BY <2>1, <2>3, AttemptsKept
  <2>5. ASSUME NEW p \in Runners \ {q}, pc'[p] \in Writing, on'[p] = on'[q]
        PROVE  ordinal'[p] # ordinal'[q]
    <3>1. CASE p # r
      BY <2>1, <2>2, <2>5, <3>1, RunnerFrame DEF AttemptInv
    <3>2. CASE p = r /\ Inserts(r)
      <4>1. ordinal'[r] = Len(attempts[on[q]]) + 1
        BY <2>2, <2>5, <3>2 DEF Inserts
      <4>2. DOMAIN attempts[on[q]] = 1 .. Len(attempts[on[q]])
        BY <1>1, <2>1
      <4>3. Len(attempts[on[q]]) \in Nat
        BY <1>1, <2>1
      <4> QED
        BY <2>1, <2>2, <3>2, <4>1, <4>2, <4>3
    <3>3. CASE p = r /\ Replaces(r)
      BY <2>1, <2>2, <2>5, <3>3 DEF Replaces, AttemptInv
    <3> QED
      BY <2>5, <3>1, <3>2, <3>3, AttemptChanges
  <2> QED
    BY <2>1, <2>2, <2>4, <2>5 DEF AttemptInv, Own, DerivedPass
<1>3. CASE q = r /\ Inserts(r)
  <2> DEFINE n == [status |-> "created", evidence |-> {}]
  <2>1. n \in Attempt
    BY DEF Attempt
  <2>2. /\ ordinal'[r] \in DOMAIN attempts'[on'[r]] /\ Own(r)' = n
    BY <1>1, <1>3, <2>1, AddAttempt DEF Inserts, Own
  <2>3. ASSUME NEW p \in Runners \ {r}, pc'[p] \in Writing, on'[p] = on'[r]
        PROVE  ordinal'[p] # ordinal'[r]
    <3>1. /\ pc[p] \in Writing /\ on[p] = on[r]
          /\ ordinal'[p] = ordinal[p] /\ ordinal'[r] = ordinal[r]
      BY <1>3, <2>3, RunnerFrame DEF Inserts
    <3>2. ordinal[p] \in DOMAIN attempts[on[r]]
      BY <3>1, OwnAttempt
    <3>3. on[r] \in Branches /\ ordinal[r] = Len(attempts[on[r]]) + 1
      BY <1>3 DEF Inserts
    <3>4. /\ DOMAIN attempts[on[r]] = 1 .. Len(attempts[on[r]])
          /\ Len(attempts[on[r]]) \in Nat
      BY <1>1, <3>3
    <3> QED
      BY <3>1, <3>2, <3>3, <3>4
  <2>4. pc'[r] = "harness"
    BY <1>3 DEF Inserts
  <2> QED
    BY <1>3, <2>2, <2>3, <2>4 DEF AttemptInv, Collected
<1>4. CASE q = r /\ Replaces(r)
  <2> SUFFICES ASSUME pc'[r] \in Writing
               PROVE  AttemptInv(r)'
    BY <1>4 DEF AttemptInv
  <2>1. PICK a \in Attempt :
           /\ Updates(r, a)
           /\ a.status = "created"
           /\ DerivedPass(result[r]) => a.evidence = Collected(pc'[r])
           /\ UNCHANGED <<result, on, ordinal>>
    BY <1>4 DEF Replaces
  <2>2. ordinal'[r] \in DOMAIN attempts'[on'[r]] /\ Own(r)' = a
    BY <1>4, <2>1, OwnAttempt, ReplaceAttempt DEF Replaces, Updates, Own
  <2>3. ASSUME NEW p \in Runners \ {r}, pc'[p] \in Writing, on'[p] = on'[r]
        PROVE  ordinal'[p] # ordinal'[r]
    BY <1>4, <2>1, <2>3, RunnerFrame DEF Replaces, SwarmInv, AttemptInv
  <2> QED
    BY <2>1, <2>2, <2>3 DEF AttemptInv, DerivedPass
<1>5. CASE q = r /\ pc'[r] \notin Writing
  BY <1>5 DEF AttemptInv
<1> QED
  BY <1>2, <1>3, <1>4, <1>5, AttemptChanges

\* A passing attempt is never touched again.
LEMMA WholeKept ==
    ASSUME SwarmInv, NEW r \in Runners, RunnerStep(r), NEW b \in Branches,
           HasWhole(b)
    PROVE  HasWhole(b)'
<1>1. PICK i \in DOMAIN attempts[b] : Whole(attempts[b][i])
  BY DEF HasWhole
<1>2. i \in DOMAIN attempts'[b]
  BY AttemptsKept
<1>3. attempts'[b][i] = attempts[b][i]
  <2> SUFFICES ASSUME pc[r] \in Writing, b = on[r], i = ordinal[r]
               PROVE  FALSE
    BY AttemptsKept
  <2>1. attempts[b][i].status = "created"
    BY DEF SwarmInv, AttemptInv, Own
  <2> QED
    BY <1>1, <2>1 DEF Whole
<1> QED
  BY <1>1, <1>2, <1>3 DEF HasWhole, Whole

LEMMA BoundStep ==
    ASSUME SwarmInv, NEW r \in Runners, RunnerStep(r)
    PROVE  BoundInv'
<1>1. attempts \in [Branches -> Seq(Attempt)]
  BY DEF SwarmInv, TypeOK, Attempt
<1>2. CASE Inserts(r)
  <2>1. [status |-> "created", evidence |-> {}] \in Attempt
    BY DEF Attempt
  <2>2. /\ Len(attempts'[on[r]]) = Len(attempts[on[r]]) + 1
        /\ \A c \in Branches : c # on[r] => attempts'[c] = attempts[c]
    BY <1>1, <1>2, <2>1, AddAttempt DEF Inserts
  <2> QED
    BY <1>2, <2>2 DEF Inserts, BoundInv, SwarmInv
<1>3. CASE Replaces(r)
  <2>1. \A c \in Branches : Len(attempts'[c]) = Len(attempts[c])
    BY <1>1, <1>3, OwnAttempt, ReplaceAttempt DEF Replaces, Updates
  <2> QED
    BY <2>1 DEF BoundInv, SwarmInv
<1> QED
  BY <1>2, <1>3, AttemptChanges DEF BoundInv, SwarmInv

\* A runner's step sets a branch to running, or its own to the verdict.
LEMMA BranchChanges ==
    ASSUME SwarmInv, NEW r \in Runners, RunnerStep(r), NEW b \in Branches,
           branch'[b] # branch[b]
    PROVE  /\ b = on[r] /\ pc[r] \in Ingesting
           /\ \/ branch'[b] = "running" /\ pc[r] = "insert" /\ Inserts(r)
              \/ /\ pc[r] \in Writing /\ FinishAttempt(r)
                 /\ branch'[b] = IF DerivedPass(result[r]) THEN "evaluating"
                                                           ELSE "pruned"
<1> TypeOK
  BY DEF SwarmInv
<1>1. CASE InsertAttempt(r)
  <2>1. ~UNCHANGED storeVars
    BY DEF storeVars
  <2> QED
    BY <1>1, <2>1 DEF InsertAttempt, Inserts, TypeOK, Goto, Ingesting,
       SwarmInv, PlaceInv
<1>2. CASE FinishAttempt(r)
  BY <1>2 DEF FinishAttempt, TypeOK, Ingesting, Writing
<1>3. CASE Ingests(r)
  BY <1>3, IngestUpdates DEF AppendEvidence
<1>4. CASE ~(InsertAttempt(r) \/ FinishAttempt(r) \/ Ingests(r))
  BY <1>4 DEF RunnerStep, Ingests, Baseline, RequestEdit, ApplyEdit,
     RunProfile, Payload, Refuse, Accept, ReadStatus, ReadOrdinal, Abort,
     storeVars
<1> QED
  BY <1>1, <1>2, <1>3, <1>4

LEMMA RunnerApi ==
    ASSUME NEW r \in Runners, SwarmInv, RunnerStep(r)
    PROVE  api' = api
<1>1. CASE Ingests(r)
  BY <1>1, IngestUpdates DEF AppendEvidence
<1>2. CASE ~Ingests(r)
  BY <1>2 DEF RunnerStep, Ingests, Baseline, RequestEdit, ApplyEdit,
     RunProfile, Payload, Refuse, Accept, ReadStatus, ReadOrdinal,
     InsertAttempt, FinishAttempt, Abort
<1> QED
  BY <1>1, <1>2

\* What is evaluated has a passing attempt: the one that just ended, or an
\* earlier one.
LEMMA EarnedStep ==
    ASSUME SwarmInv, NEW r \in Runners, RunnerStep(r)
    PROVE  EarnedInv'
<1> SUFFICES ASSUME NEW b \in Branches,
                    branch'[b] \in {"evaluating", "promoted"} \/ api'.branch = b
             PROVE  HasWhole(b)'
  BY DEF EarnedInv
<1>1. CASE branch'[b] = branch[b] \/ api'.branch = b
  BY <1>1, RunnerApi, WholeKept DEF SwarmInv, EarnedInv
<1>2. CASE branch'[b] # branch[b] /\ api'.branch # b
  <2>1. /\ b = on[r] /\ pc[r] \in Writing /\ FinishAttempt(r)
        /\ DerivedPass(result[r])
    BY <1>2, BranchChanges
  <2>2. pc'[r] \notin Writing
    BY <2>1, ExitsType DEF FinishAttempt, Writing
  <2>3. Replaces(r)
    <3>1. attempts' # attempts
      <4>1. Own(r).status = "created"
        BY <2>1 DEF SwarmInv, AttemptInv
      <4>2. attempts'[on[r]][ordinal[r]].status = "completed"
        <5>1. attempts' = [attempts EXCEPT ![on[r]] =
                 [attempts[on[r]] EXCEPT ![ordinal[r]] =
                     [Own(r) EXCEPT !.status = "completed"]]]
          BY <2>1, OwnAttempt DEF FinishAttempt, Own
        <5>2. [Own(r) EXCEPT !.status = "completed"] \in Attempt
          BY <2>1, OwnAttempt DEF Attempt
        <5>3. attempts'[on[r]][ordinal[r]] = [Own(r) EXCEPT !.status = "completed"]
          BY <2>1, <5>1, <5>2, OwnAttempt, ReplaceAttempt
        <5> QED
          BY <2>1, <5>3, OwnAttempt DEF Attempt
      <4> QED
        BY <4>1, <4>2 DEF Own
    <3>2. ~Inserts(r)
      BY <2>1 DEF Inserts, Writing
    <3> QED
      BY <3>1, <3>2, AttemptChanges
  <2>4. PICK a \in Attempt : Updates(r, a) /\ Whole(a)
    BY <2>1, <2>2, <2>3 DEF Replaces
  <2>5. ordinal[r] \in DOMAIN attempts'[b] /\ attempts'[b][ordinal[r]] = a
    BY <2>1, <2>4, OwnAttempt, ReplaceAttempt DEF Updates
  <2> QED
    BY <2>4, <2>5 DEF HasWhole, Whole
<1> QED
  BY <1>1, <1>2

-----------------------------------------------------------------------------
ApiStep ==
    \/ \E b \in Branches : CreateBranch(b) \/ Promote(b)
    \/ PromoteGate
    \/ PromoteWrite

\* The API server leaves the runners and the attempts alone ...
LEMMA ApiFrame == ApiStep => UNCHANGED <<attempts, runnerVars>>
BY DEF ApiStep, CreateBranch, Promote, PromoteGate, PromoteWrite, storeVars

\* ... and its request is for a branch that was evaluated.
LEMMA ApiEarns == SwarmInv /\ ApiStep => EarnedInv' /\ ApiInv'
<1> SUFFICES ASSUME SwarmInv, ApiStep PROVE EarnedInv' /\ ApiInv'
  OBVIOUS
<1> TypeOK /\ EarnedInv /\ ApiInv
  BY DEF SwarmInv
<1>1. \A b \in Branches : HasWhole(b)' <=> HasWhole(b)
  BY ApiFrame DEF HasWhole, Whole
<1>2. ASSUME NEW b \in Branches, CreateBranch(b) PROVE EarnedInv' /\ ApiInv'
  BY <1>1, <1>2 DEF CreateBranch, TypeOK, EarnedInv, ApiInv
<1>3. ASSUME NEW b \in Branches, Promote(b) PROVE EarnedInv' /\ ApiInv'
  BY <1>1, <1>3, ConstantsAssumption
     DEF Promote, TypeOK, EarnedInv, ApiInv, storeVars, NoRequest
<1>4. CASE PromoteGate
  BY <1>1, <1>4, ConstantsAssumption
     DEF PromoteGate, TypeOK, EarnedInv, ApiInv, storeVars, NoRequest
<1>5. CASE PromoteWrite
  BY <1>1, <1>5, ConstantsAssumption
     DEF PromoteWrite, TypeOK, EarnedInv, ApiInv, NoRequest
<1> QED
  BY <1>2, <1>3, <1>4, <1>5 DEF ApiStep

LEMMA InitSwarm == Init => SwarmInv
<1> SUFFICES ASSUME Init PROVE SwarmInv
  OBVIOUS
<1>1. TypeOK
  <2>1. \A b \in Branches : <<>> \in Seq(Attempt)
    OBVIOUS
  <2>2. attempts \in [Branches -> Seq(Attempt)]
    BY <2>1 DEF Init
  <2>3. result \in [Runners -> Result]
    BY NoResultType DEF Init
  <2>4. ordinal \in [Runners -> 0 .. MaxAttempts + 1]
    BY ConstantsAssumption DEF Init
  <2> QED
    BY <2>2, <2>3, <2>4 DEF Init, TypeOK, Attempt, Result, Stages, NoRequest
<1>2. \A r \in Runners : ResultInv(r) /\ PlaceInv(r) /\ AttemptInv(r)
  <2> TAKE r \in Runners
  <2>1. pc[r] = "idle" /\ result[r] = NoResult /\ on[r] = NoBranch
    BY DEF Init
  <2>2. DOMAIN NoResult.validation = {}
    BY DEF NoResult
  <2>3. pc[r] \notin Ingesting \cup Profiles
    BY <2>1 DEF Ingesting, Writing, Profiles
  <2> QED
    BY <2>1, <2>2, <2>3 DEF ResultInv, PlaceInv, AttemptInv, Ingesting
<1>3. BoundInv
  BY ConstantsAssumption DEF Init, BoundInv
<1>4. EarnedInv /\ ApiInv
  BY ConstantsAssumption DEF Init, EarnedInv, ApiInv, NoRequest
<1> QED
  BY <1>1, <1>2, <1>3, <1>4 DEF SwarmInv

LEMMA StepSwarm == SwarmInv /\ [Next]_vars => SwarmInv'
<1> SUFFICES ASSUME SwarmInv, [Next]_vars PROVE SwarmInv'
  OBVIOUS
<1>1. TypeOK'
  BY TypeStep
<1>2. ASSUME NEW r \in Runners, RunnerStep(r) PROVE SwarmInv'
  <2>1. \A q \in Runners : ResultInv(q)' /\ PlaceInv(q)'
    <3> TAKE q \in Runners
    <3>1. CASE q = r
      BY <1>2, <3>1, OwnPlace, OwnResult
    <3>2. CASE q # r
      BY <1>2, <3>2, RunnerFrame DEF SwarmInv, ResultInv, PlaceInv
    <3> QED
      BY <3>1, <3>2
  <2>2. \A q \in Runners : AttemptInv(q)'
    BY <1>2, AttemptStep
  <2>3. BoundInv' /\ EarnedInv' /\ ApiInv'
    BY <1>2, BoundStep, EarnedStep, RunnerApi DEF SwarmInv, ApiInv
  <2> QED
    BY <1>1, <2>1, <2>2, <2>3 DEF SwarmInv
<1>3. CASE ApiStep
  <2>1. UNCHANGED <<attempts, pc, result, on, ordinal>>
    BY <1>3, ApiFrame DEF runnerVars
  <2>2. EarnedInv' /\ ApiInv'
    BY <1>3, ApiEarns
  <2> QED
    BY <1>1, <2>1, <2>2 DEF SwarmInv, ResultInv, PlaceInv, AttemptInv,
       BoundInv, Own, DerivedPass
<1>4. CASE UNCHANGED vars
  BY <1>1, <1>4 DEF vars, SwarmInv, ResultInv, PlaceInv, AttemptInv, BoundInv,
     EarnedInv, ApiInv, HasWhole, Whole, Own, DerivedPass
<1> QED
  BY <1>2, <1>3, <1>4 DEF Next, ApiStep

LEMMA SwarmHolds == Spec => []SwarmInv
<1> QED
  BY InitSwarm, StepSwarm, PTL DEF Spec

-----------------------------------------------------------------------------
(* The store, the runners and the API server keep the shape of their data. *)
THEOREM TypeCorrect == Spec => []TypeOK
<1>1. SwarmInv => TypeOK
  BY DEF SwarmInv
<1> QED
  BY <1>1, SwarmHolds, PTL

(* promote reads a status that others overwrite and the evidence of all    *)
(* attempts together (swarm/store.py): still, a promoted branch has one    *)
(* completed attempt that passed every check.                              *)
THEOREM PromotionsAreEarned == Spec => []PromotionIsEarned
<1>1. SwarmInv => PromotionIsEarned
  BY DEF SwarmInv, EarnedInv, PromotionIsEarned, HasWhole
<1> QED
  BY <1>1, SwarmHolds, PTL

-----------------------------------------------------------------------------
(* As long as no two processes have met on a branch, the one that works on *)
(* it finds the status it has read.                                        *)
Holds(r) == pc[r] \in {"ordinal", "insert"} \cup Writing

Alone ==
    /\ \A p, q \in Runners : p # q /\ on[p] = on[q] => on[p] = NoBranch
    /\ \A r \in Runners : on[r] = api.branch => on[r] = NoBranch
    /\ \A r \in Runners :
          Holds(r) => branch[on[r]] \in {"queued", "running", "evaluating"}
    /\ api.branch \in Branches => branch[api.branch] = "evaluating"

AloneInv == "overlap" \notin mishaps => Alone

LEMMA MishapsGrow == SwarmInv /\ [Next]_vars => mishaps \subseteq mishaps'
<1> SUFFICES ASSUME SwarmInv, [Next]_vars PROVE mishaps \subseteq mishaps'
  OBVIOUS
<1>1. ASSUME NEW r \in Runners, Ingests(r) PROVE mishaps \subseteq mishaps'
  BY <1>1, IngestUpdates DEF AppendEvidence
<1>2. ASSUME NEW r \in Runners, RunnerStep(r), ~Ingests(r)
      PROVE  mishaps \subseteq mishaps'
  BY <1>2 DEF RunnerStep, Ingests, Baseline, RequestEdit, ApplyEdit,
     RunProfile, Payload, Refuse, Accept, ReadStatus, ReadOrdinal,
     InsertAttempt, FinishAttempt, Abort, NoteOverlap
<1>3. ASSUME ApiStep PROVE mishaps \subseteq mishaps'
  BY <1>3 DEF ApiStep, CreateBranch, Promote, PromoteGate, PromoteWrite,
     NoteOverlap
<1> QED
  BY <1>1, <1>2, <1>3 DEF Next, ApiStep, vars

\* A runner stays on its branch, leaves it, or takes one nobody works on.
LEMMA OnChanges ==
    ASSUME SwarmInv, NEW r \in Runners, RunnerStep(r)
    PROVE  \/ on'[r] = on[r]
           \/ on'[r] = NoBranch
           \/ \E b \in Branches : Accept(r, b) /\ on'[r] = b
<1> TypeOK
  BY DEF SwarmInv
<1>1. CASE Ingests(r)
  BY <1>1, IngestUpdates DEF AppendEvidence
<1>2. CASE Exits(r)
  BY <1>2, ExitsType
<1>3. ASSUME NEW b \in Branches, Accept(r, b) PROVE on'[r] = b
  BY <1>3 DEF Accept, TypeOK
<1>4. CASE ~Ingests(r) /\ ~Exits(r) /\ ~\E b \in Branches : Accept(r, b)
  BY <1>4 DEF RunnerStep, Ingests, Baseline, RequestEdit, ApplyEdit,
     RunProfile, Payload, Refuse, ReadStatus, ReadOrdinal, InsertAttempt,
     FinishAttempt, Abort
<1> QED
  BY <1>1, <1>2, <1>3, <1>4

\* It holds a branch from the step that reads an open status on.
LEMMA HoldsStep ==
    ASSUME SwarmInv, NEW r \in Runners, RunnerStep(r), Holds(r)'
    PROVE  /\ on'[r] = on[r] /\ on[r] \in Branches
           /\ \/ Holds(r) /\ branch'[on[r]] = branch[on[r]]
              \/ branch'[on[r]] = "running"
              \/ branch'[on[r]] \in {"queued", "running", "evaluating"}
<1> TypeOK /\ PlaceInv(r)
  BY DEF SwarmInv
<1> USE DEF Holds, Writing, Goto, TypeOK, PlaceInv, Ingesting
<1>1. CASE Exits(r)
  BY <1>1, ExitsType
<1>2. CASE Ingests(r)
  BY <1>2, IngestUpdates DEF AppendEvidence
<1>3. CASE ReadStatus(r) /\ ~Exits(r)
  BY <1>3 DEF ReadStatus, storeVars
<1>4. CASE ReadOrdinal(r)
  BY <1>4 DEF ReadOrdinal, storeVars
<1>5. CASE InsertAttempt(r) /\ ~Exits(r)
  BY <1>5 DEF InsertAttempt
<1>6. CASE Baseline(r) \/ RequestEdit(r) \/ ApplyEdit(r) \/ RunProfile(r)
           \/ Payload(r)
  BY <1>6 DEF Baseline, RequestEdit, ApplyEdit, RunProfile, Payload, Profiles
<1>7. ASSUME NEW b \in Branches, Accept(r, b) PROVE FALSE
  BY <1>7 DEF Accept
<1> QED
  BY <1>1, <1>2, <1>3, <1>4, <1>5, <1>6, <1>7
     DEF RunnerStep, Ingests, Refuse, FinishAttempt, Abort

LEMMA AloneStep == SwarmInv /\ AloneInv /\ [Next]_vars => AloneInv'
<1> SUFFICES ASSUME SwarmInv, Alone, [Next]_vars, "overlap" \notin mishaps'
             PROVE  Alone'
  BY MishapsGrow DEF AloneInv
<1> TypeOK /\ ApiInv
  BY DEF SwarmInv
<1>1. ASSUME NEW r \in Runners, RunnerStep(r) PROVE Alone'
  <2>1. ASSUME NEW b \in Branches, Accept(r, b) PROVE ~Busy(b)
    BY <2>1 DEF Accept, NoteOverlap
  <2>2. api' = api
    BY <1>1, RunnerApi
  <2>3. ASSUME NEW p \in Runners, NEW q \in Runners, p # q, on'[p] = on'[q]
        PROVE  on'[p] = NoBranch
    <3>1. CASE p = r
      BY <1>1, <2>1, <2>3, <3>1, OnChanges, RunnerFrame DEF Alone, Busy
    <3>2. CASE q = r
      BY <1>1, <2>1, <2>3, <3>2, OnChanges, RunnerFrame DEF Alone, Busy
    <3>3. CASE p # r /\ q # r
      BY <1>1, <2>3, <3>3, RunnerFrame DEF Alone
    <3> QED
      BY <3>1, <3>2, <3>3
  <2>4. ASSUME NEW q \in Runners, on'[q] = api'.branch PROVE on'[q] = NoBranch
    <3>1. CASE q = r
      BY <1>1, <2>1, <2>2, <2>4, <3>1, OnChanges DEF Alone, Busy
    <3>2. CASE q # r
      BY <1>1, <2>2, <2>4, <3>2, RunnerFrame DEF Alone
    <3> QED
      BY <3>1, <3>2
  <2>5. ASSUME NEW q \in Runners, Holds(q)'
        PROVE  branch'[on'[q]] \in {"queued", "running", "evaluating"}
    <3>1. CASE q = r
      BY <1>1, <2>5, <3>1, HoldsStep DEF Alone
    <3>2. CASE q # r
      <4>1. Holds(q) /\ on'[q] = on[q]
        BY <1>1, <2>5, <3>2, RunnerFrame DEF Holds
      <4>2. on[q] \in Branches
        BY <4>1 DEF Holds, SwarmInv, TypeOK, PlaceInv, Ingesting
      <4>3. on[q] # on[r]
        BY <3>2, <4>2, ConstantsAssumption DEF Alone
      <4> QED
        BY <1>1, <4>1, <4>2, <4>3, BranchChanges DEF Alone
    <3> QED
      BY <3>1, <3>2
  <2>6. ASSUME api'.branch \in Branches
        PROVE  branch'[api'.branch] = "evaluating"
    <3>1. on[r] # api.branch
      BY <2>2, <2>6, ConstantsAssumption DEF Alone
    <3> QED
      BY <1>1, <2>2, <2>6, <3>1, BranchChanges DEF Alone
  <2> QED
    BY <2>3, <2>4, <2>5, <2>6 DEF Alone
<1>2. CASE ApiStep
  <2>1. UNCHANGED <<attempts, pc, result, on, ordinal>>
    BY <1>2, ApiFrame DEF runnerVars
  <2>2. \A r \in Runners : Holds(r)' = Holds(r)
    BY <2>1 DEF Holds
  <2>3. \A r \in Runners : Holds(r) => on[r] \in Branches
    BY DEF Holds, SwarmInv, TypeOK, PlaceInv, Ingesting
  <2>4. ASSUME NEW b \in Branches, CreateBranch(b) PROVE Alone'
    BY <2>1, <2>2, <2>3, <2>4 DEF CreateBranch, Alone, TypeOK
  <2>5. ASSUME NEW b \in Branches, Promote(b) PROVE Alone'
    <3>1. ~Busy(b) /\ UNCHANGED branch /\ branch[b] = "evaluating"
      BY <2>5 DEF Promote, NoteOverlap, storeVars
    <3>2. api'.branch = b
      BY <2>5 DEF Promote
    <3> QED
      BY <2>1, <2>2, <3>1, <3>2 DEF Alone, Busy
  <2>6. CASE PromoteGate
    <3>1. UNCHANGED branch /\ api'.branch \in {api.branch, NoBranch}
      BY <2>6 DEF PromoteGate, storeVars, TypeOK, NoRequest
    <3> QED
      BY <2>1, <2>2, <3>1, ConstantsAssumption DEF Alone
  <2>7. CASE PromoteWrite
    <3>1. api'.branch = NoBranch
      BY <2>7 DEF PromoteWrite, NoRequest
    <3>2. api.branch \in Branches
      BY <2>7 DEF PromoteWrite, ApiInv, TypeOK
    <3>3. \A r \in Runners : on[r] # api.branch
      BY <3>2, ConstantsAssumption DEF Alone
    <3>4. \A b \in Branches : b # api.branch => branch'[b] = branch[b]
      BY <2>7 DEF PromoteWrite, TypeOK
    <3> QED
      BY <2>1, <2>2, <2>3, <3>1, <3>3, <3>4, ConstantsAssumption DEF Alone
  <2> QED
    BY <1>2, <2>4, <2>5, <2>6, <2>7 DEF ApiStep
<1>3. CASE UNCHANGED vars
  BY <1>3 DEF vars, Alone, Holds
<1> QED
  BY <1>1, <1>2, <1>3 DEF Next, ApiStep

LEMMA AloneHolds == Spec => []AloneInv
<1>1. Init => AloneInv
  BY ConstantsAssumption
     DEF Init, AloneInv, Alone, Holds, Writing, NoRequest
<1> QED
  BY <1>1, AloneStep, SwarmHolds, PTL DEF Spec

\* A verdict is not written over.
Settles ==
    \A b \in Branches :
       branch[b] \in {"pruned", "promoted"} /\ "overlap" \notin mishaps =>
          branch'[b] = branch[b]

LEMMA SettlesStep == SwarmInv /\ AloneInv /\ [Next]_vars => Settles
<1> SUFFICES ASSUME SwarmInv, Alone, [Next]_vars, NEW b \in Branches,
                    branch[b] \in {"pruned", "promoted"}
             PROVE  branch'[b] = branch[b]
  BY DEF AloneInv, Settles
<1>1. ASSUME NEW r \in Runners, RunnerStep(r) PROVE branch'[b] = branch[b]
  BY <1>1, BranchChanges DEF Alone, Holds
<1>2. CASE ApiStep
  <2>1. api.at = "write" => api.branch \in Branches
    BY DEF SwarmInv, TypeOK, ApiInv
  <2> QED
    BY <1>2, <2>1 DEF ApiStep, CreateBranch, Promote, PromoteGate,
       PromoteWrite, storeVars, Alone, SwarmInv, TypeOK
<1>3. CASE UNCHANGED vars
  BY <1>3 DEF vars
<1> QED
  BY <1>1, <1>2, <1>3 DEF Next, ApiStep

(* create_attempt and promote refuse a pruned or promoted branch: without  *)
(* two processes on one branch, such a verdict stays, in whatever order    *)
(* attempts fail, pass and are cut short.                                  *)
THEOREM VerdictsAreFinal == Spec => SettledIsFinal
<1>1. SwarmInv /\ AloneInv /\ [Next]_vars =>
         [\A b \in Branches :
            /\ branch[b] \in {"pruned", "promoted"}
            /\ "overlap" \notin mishaps
            => branch'[b] = branch[b]]_vars
  BY SettlesStep DEF Settles
<1> QED
  BY <1>1, SwarmHolds, AloneHolds, PTL DEF Spec, SettledIsFinal

-----------------------------------------------------------------------------
(* Without a mishap, an attempt of a branch that was not pruned has passed *)
(* or is still being written.                                              *)
Writes(r, b, i) == pc[r] \in Writing /\ on[r] = b /\ ordinal[r] = i

Sound(b) ==
    \A i \in DOMAIN attempts[b] :
       Whole(attempts[b][i]) \/ \E r \in Runners : Writes(r, b, i)

SoundInv ==
    mishaps = {} => \A b \in Branches : branch[b] # "pruned" => Sound(b)

\* An attempt is left by its end or by an abort.
LEMMA WriterStep ==
    ASSUME SwarmInv, NEW r \in Runners, RunnerStep(r), pc[r] \in Writing
    PROVE  \/ pc'[r] \in Writing /\ on'[r] = on[r] /\ ordinal'[r] = ordinal[r]
           \/ FinishAttempt(r) /\ Replaces(r) /\ pc'[r] \notin Writing
           \/ "abort" \in mishaps'
<1> TypeOK /\ AttemptInv(r)
  BY DEF SwarmInv
<1>1. CASE Ingests(r)
  BY <1>1, IngestUpdates DEF AppendEvidence, Goto, TypeOK
<1>2. CASE FinishAttempt(r)
  <2>1. pc'[r] \notin Writing
    BY <1>2, ExitsType DEF FinishAttempt, Writing
  <2>2. attempts' # attempts
    <3>1. /\ on[r] \in Branches /\ ordinal[r] \in DOMAIN attempts[on[r]]
          /\ Own(r) \in Attempt /\ attempts[on[r]] \in Seq(Attempt)
      BY OwnAttempt
    <3>2. PICK st \in {"completed", "failed"} :
             attempts' = [attempts EXCEPT ![on[r]] =
                 [attempts[on[r]] EXCEPT ![ordinal[r]] =
                     [Own(r) EXCEPT !.status = st]]]
      BY <1>2, <3>1 DEF FinishAttempt, Own
    <3>3. attempts'[on[r]][ordinal[r]] = [Own(r) EXCEPT !.status = st]
      BY <3>1, <3>2 DEF TypeOK
    <3>4. [Own(r) EXCEPT !.status = st].status = st
      BY <3>1 DEF Attempt
    <3> QED
      BY <3>3, <3>4 DEF AttemptInv, Own
  <2>3. Replaces(r)
    BY <2>2, AttemptChanges DEF Inserts, Writing
  <2> QED
    BY <1>2, <2>1, <2>3
<1>3. CASE Abort(r)
  BY <1>3 DEF Abort
<1> QED
  BY <1>1, <1>2, <1>3 DEF RunnerStep, Ingests, Baseline, RequestEdit,
     ApplyEdit, RunProfile, Payload, Refuse, Accept, ReadStatus, ReadOrdinal,
     InsertAttempt, Writing, Profiles

LEMMA SoundStep == SwarmInv /\ AloneInv /\ SoundInv /\ [Next]_vars => SoundInv'
<1> SUFFICES ASSUME SwarmInv, AloneInv, SoundInv, [Next]_vars, mishaps' = {},
                    NEW b \in Branches, branch'[b] # "pruned"
             PROVE  Sound(b)'
  BY DEF SoundInv
<1>1. mishaps = {}
  BY MishapsGrow
<1>2. branch[b] # "pruned" /\ Sound(b)
  BY <1>1, SettlesStep DEF Settles, SoundInv
<1>3. ASSUME NEW r \in Runners, RunnerStep(r) PROVE Sound(b)'
  <2>1. attempts \in [Branches -> Seq(Attempt)]
    BY DEF SwarmInv, TypeOK, Attempt
  <2> SUFFICES ASSUME NEW i \in DOMAIN attempts'[b],
                      \A q \in Runners : ~Writes(q, b, i)'
               PROVE  Whole(attempts'[b][i])
    BY DEF Sound, Whole
  <2>2. ASSUME NEW q \in Runners, q # r PROVE ~Writes(q, b, i)
    BY <1>3, <2>2, RunnerFrame DEF Writes
  <2>3. CASE i \in DOMAIN attempts[b]
    <3>1. CASE Writes(r, b, i)
      <4>1. FinishAttempt(r) /\ Replaces(r) /\ pc'[r] \notin Writing
        BY <1>3, <3>1, WriterStep DEF Writes
      <4>2. DerivedPass(result[r])
        BY <3>1, <4>1 DEF FinishAttempt, Writes, SwarmInv, TypeOK
      <4>3. PICK a \in Attempt : Updates(r, a) /\ Whole(a)
        BY <4>1, <4>2 DEF Replaces
      <4>4. attempts'[b][i] = a
        BY <2>1, <3>1, <4>3, OwnAttempt, ReplaceAttempt DEF Updates, Writes
      <4> QED
        BY <4>3, <4>4
    <3>2. CASE ~Writes(r, b, i)
      <4>1. Whole(attempts[b][i])
        BY <1>2, <2>2, <2>3, <3>2 DEF Sound
      <4>2. attempts'[b][i] = attempts[b][i]
        BY <1>3, <2>3, <3>2, AttemptsKept DEF Writes
      <4> QED
        BY <4>1, <4>2
    <3> QED
      BY <3>1, <3>2
  <2>4. CASE i \notin DOMAIN attempts[b]
    <3>1. Inserts(r)
      <4>1. CASE Replaces(r)
        BY <2>1, <2>4, <4>1, OwnAttempt, ReplaceAttempt DEF Replaces, Updates
      <4> QED
        BY <1>3, <2>4, <4>1, AttemptChanges
    <3>2. b = on[r] /\ i = ordinal[r]
      <4>1. [status |-> "created", evidence |-> {}] \in Attempt
        BY DEF Attempt
      <4> QED
        BY <2>1, <2>4, <3>1, <4>1, AddAttempt DEF Inserts
    <3>3. Writes(r, b, i)'
      BY <3>1, <3>2 DEF Inserts, Writes, Writing
    <3> QED
      BY <3>3
  <2> QED
    BY <2>3, <2>4
<1>4. CASE ApiStep
  BY <1>2, <1>4, ApiFrame DEF Sound, Whole, Writes, runnerVars
<1>5. CASE UNCHANGED vars
  BY <1>2, <1>5 DEF vars, Sound, Whole, Writes
<1> QED
  BY <1>3, <1>4, <1>5 DEF Next, ApiStep

LEMMA SoundHolds == Spec => []SoundInv
<1>1. Init => SoundInv
  BY DEF Init, SoundInv, Sound
<1> QED
  BY <1>1, SoundStep, SwarmHolds, AloneHolds, PTL DEF Spec

\* A branch whose attempts all passed has no failed record.
LEMMA ReadyWhenSound ==
    SwarmInv /\ AloneInv /\ SoundInv => PromotedIsReady
<1> SUFFICES ASSUME SwarmInv, AloneInv, SoundInv, mishaps = {},
                    NEW b \in Branches, branch[b] = "promoted"
             PROVE  Decision(b) = "promote-ready"
  BY DEF PromotedIsReady
<1>1. \A i \in DOMAIN attempts[b] : Whole(attempts[b][i])
  <2>1. \A r \in Runners : pc[r] \in Writing => on[r] # b
    BY DEF AloneInv, Alone, Holds
  <2> QED
    BY <2>1 DEF SoundInv, Sound, Writes
<1>2. \A e \in Evidence(b) : e.ok
  <2> TAKE e \in Evidence(b)
  <2>1. PICK i \in DOMAIN attempts[b] : e \in attempts[b][i].evidence
    BY DEF Evidence
  <2>2. e \in [kind: Kinds, ok: {TRUE}]
    BY <1>1, <2>1 DEF Whole
  <2> QED
    BY <2>2
<1>3. FailedKinds(b) = {}
  BY <1>2 DEF FailedKinds
<1>4. Required \subseteq PassedKinds(b)
  <2>1. PICK i \in DOMAIN attempts[b] : Whole(attempts[b][i])
    BY DEF SwarmInv, EarnedInv, HasWhole
  <2>2. \A k \in Kinds : Record(k, TRUE) \in Evidence(b)
    BY <2>1 DEF Whole, Evidence, Record
  <2>3. \A k \in Kinds : Record(k, TRUE).kind = k /\ Record(k, TRUE).ok
    BY DEF Record
  <2>4. Kinds \subseteq PassedKinds(b)
    BY <2>2, <2>3 DEF PassedKinds
  <2> QED
    BY <2>4 DEF Kinds
<1> QED
  BY <1>3, <1>4 DEF Decision

(* promote does not look for failed records (swarm/store.py) and the       *)
(* ranking does (swarm/scoring.py): when no ingestion was cut short and    *)
(* none overlapped, what was promoted is what the ranking calls ready.     *)
THEOREM PromotionsAreReady == Spec => []PromotedIsReady
BY ReadyWhenSound, SwarmHolds, AloneHolds, SoundHolds, PTL

-----------------------------------------------------------------------------
(* The store implements AttemptLedger.  Two more facts are needed: a       *)
(* runner's branch has a row, and as long as no two processes have met on  *)
(* a branch, the attempt that is written is the last one of a running      *)
(* branch.                                                                 *)
ExistsInv == \A r \in Runners : on[r] # NoBranch => branch[on[r]] # "absent"

Makes(r) ==
    pc[r] \in Writing =>
       ordinal[r] = Len(attempts[on[r]]) /\ branch[on[r]] = "running"

MakesInv == "overlap" \notin mishaps => \A r \in Runners : Makes(r)

\* What an inserting step does besides.
LEMMA InsertsRuns ==
    ASSUME SwarmInv, NEW r \in Runners, RunnerStep(r), Inserts(r)
    PROVE  /\ branch' = [branch EXCEPT ![on[r]] = "running"]
           /\ UNCHANGED mishaps
<1> TypeOK
  BY DEF SwarmInv
<1>1. pc[r] = "insert" /\ pc'[r] = "harness"
  BY DEF Inserts
<1>2. ~Exits(r)
  BY <1>1 DEF Exits, Goto, TypeOK
<1>3. InsertAttempt(r)
  BY <1>1, <1>2 DEF RunnerStep, Baseline, RequestEdit, ApplyEdit, RunProfile,
     Payload, Refuse, Accept, ReadStatus, ReadOrdinal, IngestBaseline,
     IngestProposal, IngestProfile, KindOf, FinishAttempt, Abort, Profiles
<1> QED
  BY <1>2, <1>3 DEF InsertAttempt

\* A runner's step leaves the attempts of other branches alone.
LEMMA OtherAttempts ==
    ASSUME SwarmInv, NEW r \in Runners, RunnerStep(r), NEW b \in Branches,
           b # on[r]
    PROVE  attempts'[b] = attempts[b]
<1>1. attempts \in [Branches -> Seq(Attempt)]
  BY DEF SwarmInv, TypeOK, Attempt
<1>2. CASE Inserts(r)
  BY <1>1, <1>2 DEF Inserts
<1>3. CASE Replaces(r)
  BY <1>1, <1>3 DEF Replaces, Updates
<1> QED
  BY <1>2, <1>3, AttemptChanges

LEMMA ExistsStep == SwarmInv /\ ExistsInv /\ [Next]_vars => ExistsInv'
<1> SUFFICES ASSUME SwarmInv, ExistsInv, [Next]_vars PROVE ExistsInv'
  OBVIOUS
<1> TypeOK
  BY DEF SwarmInv
<1>1. ASSUME NEW r \in Runners, RunnerStep(r) PROVE ExistsInv'
  <2> SUFFICES ASSUME NEW q \in Runners, on'[q] # NoBranch
               PROVE  branch'[on'[q]] # "absent"
    BY DEF ExistsInv
  <2>1. on'[q] \in Branches /\ branch[on'[q]] # "absent"
    <3>1. CASE on'[q] = on[q]
      BY <3>1 DEF ExistsInv, TypeOK
    <3>2. CASE on'[q] # on[q]
      <4>1. q = r
        BY <1>1, <3>2, RunnerFrame
      <4>2. PICK b \in Branches : Accept(r, b) /\ on'[r] = b
        BY <1>1, <3>2, <4>1, OnChanges
      <4> QED
        BY <4>1, <4>2 DEF Accept
    <3> QED
      BY <3>1, <3>2
  <2> QED
    BY <1>1, <2>1, BranchChanges
<1>2. CASE ApiStep
  <2>1. \A b \in Branches : branch[b] # "absent" => branch'[b] # "absent"
    BY <1>2 DEF ApiStep, CreateBranch, Promote, PromoteGate, PromoteWrite,
       storeVars, TypeOK
  <2>2. on' = on
    BY <1>2, ApiFrame DEF runnerVars
  <2> QED
    BY <2>1, <2>2 DEF ExistsInv, TypeOK
<1>3. CASE UNCHANGED vars
  BY <1>3 DEF vars, ExistsInv
<1> QED
  BY <1>1, <1>2, <1>3 DEF Next, ApiStep

\* The runner that steps makes the last attempt of its branch.
LEMMA OwnMakes ==
    ASSUME SwarmInv, NEW r \in Runners, RunnerStep(r), Makes(r)
    PROVE  Makes(r)'
<1> SUFFICES ASSUME pc'[r] \in Writing
             PROVE  /\ ordinal'[r] = Len(attempts'[on'[r]])
                    /\ branch'[on'[r]] = "running"
  BY DEF Makes
<1> TypeOK
  BY DEF SwarmInv
<1>1. attempts \in [Branches -> Seq(Attempt)]
  BY DEF SwarmInv, TypeOK, Attempt
<1>2. CASE Inserts(r)
  <2>1. [status |-> "created", evidence |-> {}] \in Attempt
    BY DEF Attempt
  <2>2. ordinal'[r] = Len(attempts'[on'[r]])
    BY <1>1, <1>2, <2>1, AddAttempt DEF Inserts
  <2>3. branch'[on'[r]] = "running"
    <3>1. on[r] \in Branches /\ on'[r] = on[r]
      BY <1>2 DEF Inserts
    <3>2. branch' = [branch EXCEPT ![on[r]] = "running"]
      BY <1>2, InsertsRuns
    <3> QED
      BY <3>1, <3>2 DEF TypeOK
  <2> QED
    BY <2>2, <2>3
<1>3. CASE Replaces(r)
  <2>1. /\ pc[r] \in Writing /\ on'[r] = on[r] /\ ordinal'[r] = ordinal[r]
        /\ \E a \in Attempt : Updates(r, a)
    BY <1>3 DEF Replaces
  <2>2. Len(attempts'[on[r]]) = Len(attempts[on[r]])
    BY <1>1, <2>1, OwnAttempt, ReplaceAttempt DEF Updates
  <2>3. branch'[on[r]] = branch[on[r]]
    <3>1. ~FinishAttempt(r)
      BY ExitsType DEF FinishAttempt, Writing
    <3>2. pc[r] # "insert" /\ on[r] \in Branches
      BY <2>1, OwnAttempt DEF Writing
    <3> QED
      BY <3>1, <3>2, BranchChanges
  <2> QED
    BY <2>1, <2>2, <2>3 DEF Makes
<1> QED
  BY <1>2, <1>3, AttemptChanges

LEMMA MakesStep ==
    SwarmInv /\ AloneInv /\ MakesInv /\ [Next]_vars => MakesInv'
<1> SUFFICES ASSUME SwarmInv, AloneInv, MakesInv, [Next]_vars,
                    "overlap" \notin mishaps', NEW q \in Runners
             PROVE  Makes(q)'
  BY DEF MakesInv
<1> TypeOK
  BY DEF SwarmInv
<1>1. Alone /\ Makes(q)
  BY MishapsGrow DEF AloneInv, MakesInv
<1>2. ASSUME NEW r \in Runners, RunnerStep(r) PROVE Makes(q)'
  <2>1. CASE q = r
    BY <1>1, <1>2, <2>1, OwnMakes
  <2>2. CASE q # r
    <3> SUFFICES ASSUME pc[q] \in Writing
                 PROVE  /\ attempts'[on[q]] = attempts[on[q]]
                        /\ branch'[on[q]] = branch[on[q]]
      BY <1>1, <1>2, <2>2, RunnerFrame DEF Makes
    <3>1. on[q] \in Branches
      BY OwnAttempt
    <3>2. on[q] # on[r]
      BY <1>1, <2>2, <3>1, ConstantsAssumption DEF Alone
    <3> QED
      BY <1>2, <3>1, <3>2, OtherAttempts, BranchChanges
  <2> QED
    BY <2>1, <2>2
<1>3. CASE ApiStep
  <2>1. UNCHANGED <<attempts, pc, on, ordinal>>
    BY <1>3, ApiFrame DEF runnerVars
  <2>2. pc[q] \in Writing => branch'[on[q]] = branch[on[q]]
    <3> SUFFICES ASSUME pc[q] \in Writing
                 PROVE  branch'[on[q]] = branch[on[q]]
      OBVIOUS
    <3>1. on[q] \in Branches /\ on[q] # api.branch /\ branch[on[q]] = "running"
      BY <1>1, OwnAttempt, ConstantsAssumption DEF Alone, Makes
    <3> QED
      BY <1>3, <3>1 DEF ApiStep, CreateBranch, Promote, PromoteGate,
         PromoteWrite, storeVars, TypeOK
  <2> QED
    BY <1>1, <2>1, <2>2 DEF Makes
<1>4. CASE UNCHANGED vars
  BY <1>1, <1>4 DEF vars, Makes
<1> QED
  BY <1>2, <1>3, <1>4 DEF Next, ApiStep

LedgerInv == SwarmInv /\ AloneInv /\ ExistsInv /\ MakesInv

LEMMA LedgerHolds == Spec => []LedgerInv
<1>1. Init => ExistsInv /\ MakesInv
  BY DEF Init, ExistsInv, MakesInv, Makes, Writing
<1>2. SwarmInv /\ AloneInv /\ ExistsInv /\ MakesInv /\ [Next]_vars =>
         ExistsInv' /\ MakesInv'
  BY ExistsStep, MakesStep
<1> QED
  BY <1>1, <1>2, SwarmHolds, AloneHolds, PTL DEF Spec, LedgerInv

\* What the ledger sees of a step that writes nothing: at most that two
\* processes meet.
LEMMA SilentLedger ==
    ASSUME SwarmInv, [Next]_vars, UNCHANGED storeVars
    PROVE  [Ledger!Next]_(Ledger!ledgerVars)
<1>1. ("overlap" \notin mishaps') = ("overlap" \notin mishaps)
      \/ ("overlap" \notin mishaps') = FALSE
  BY MishapsGrow
<1> QED
  BY <1>1 DEF Ledger!Next, Ledger!Meet, Ledger!ledgerVars, storeVars

LEMMA InsertBegins ==
    ASSUME LedgerInv, NEW r \in Runners, InsertAttempt(r), ~Exits(r)
    PROVE  \E b \in Branches : Ledger!Begin(b)
<1>1. /\ SwarmInv /\ TypeOK /\ ExistsInv /\ AloneInv
      /\ pc[r] = "insert" /\ on[r] \in Branches
  BY DEF LedgerInv, InsertAttempt, SwarmInv, TypeOK, PlaceInv, Ingesting
<1>2. PICK b \in Branches : b = on[r]
  BY <1>1
<1>3. branch[b] # "absent"
  BY <1>1, <1>2, ConstantsAssumption DEF ExistsInv
<1>4. "overlap" \notin mishaps => Ledger!IsOpen(b)
  BY <1>1, <1>2 DEF AloneInv, Alone, Holds, Ledger!IsOpen
<1>5. /\ attempts' = [attempts EXCEPT ![b] =
             Append(@, [status |-> "created", evidence |-> {}])]
      /\ branch' = [branch EXCEPT ![b] = "running"]
      /\ UNCHANGED mishaps
  BY <1>2 DEF InsertAttempt
<1>6. Ledger!Begin(b)
  BY <1>3, <1>4, <1>5 DEF Ledger!Begin
<1> QED
  BY <1>6

\* The attempt of a runner is one the ledger lets it write.
LEMMA OwnIsMade ==
    ASSUME LedgerInv, NEW r \in Runners, pc[r] \in Writing,
           NEW b \in Branches, NEW i \in DOMAIN attempts[b],
           b = on[r], i = ordinal[r]
    PROVE  Ledger!IsMade(b, i)
<1>1. AttemptInv(r) /\ MakesInv
  BY DEF LedgerInv, SwarmInv
<1>2. attempts[b][i].status = "created"
  BY <1>1 DEF AttemptInv, Own
<1>3. "overlap" \notin mishaps => i = Len(attempts[b]) /\ branch[b] = "running"
  BY <1>1 DEF MakesInv, Makes
<1> QED
  BY <1>2, <1>3 DEF Ledger!IsMade

\* One record at a time, or none when a profile was not recorded.
LEMMA IngestRecords ==
    ASSUME SwarmInv, NEW r \in Runners, Ingests(r)
    PROVE  \E records \in SUBSET [kind: Kinds, ok: BOOLEAN], s \in Stages :
              /\ AppendEvidence(r, records, s)
              /\ \/ records = {}
                 \/ \E e \in [kind: Kinds, ok: BOOLEAN] : records = {e}
<1> USE DEF Stages
<1>1. CASE IngestBaseline(r)
  <2>1. Record("harness", TRUE) \in [kind: Kinds, ok: BOOLEAN]
    BY DEF Kinds, Record
  <2> QED
    BY <1>1, <2>1 DEF IngestBaseline
<1>2. CASE IngestProposal(r)
  <2> DEFINE e == IF result[r].proposal THEN Record("model", TRUE)
                                        ELSE Record("harness", FALSE)
  <2>1. e \in [kind: Kinds, ok: BOOLEAN]
    BY DEF Kinds, Record
  <2>2. AppendEvidence(r, {e}, "static")
    BY <1>2 DEF IngestProposal
  <2> HIDE DEF e
  <2> QED
    BY <2>1, <2>2
<1>3. ASSUME NEW p \in Profiles, IngestProfile(r, p)
      PROVE  \E records \in SUBSET [kind: Kinds, ok: BOOLEAN], s \in Stages :
                /\ AppendEvidence(r, records, s)
                /\ \/ records = {}
                   \/ \E e \in [kind: Kinds, ok: BOOLEAN] : records = {e}
  <2> DEFINE e == Record(KindOf[p], result[r].validation[p])
  <2> DEFINE records == IF p \in DOMAIN result[r].validation THEN {e} ELSE {}
  <2> DEFINE s == IF KindOf[p] = "static" THEN "test" ELSE "finish"
  <2>1. p \in DOMAIN result[r].validation => result[r].validation[p] \in BOOLEAN
    BY DEF SwarmInv, TypeOK
  <2>2. p \in DOMAIN result[r].validation => e \in [kind: Kinds, ok: BOOLEAN]
    BY <2>1 DEF Kinds, Required, Record, KindOf
  <2>3. AppendEvidence(r, records, s) /\ s \in Stages
    BY <1>3 DEF IngestProfile
  <2>4. records = {} \/ (e \in [kind: Kinds, ok: BOOLEAN] /\ records = {e})
    BY <2>2
  <2> HIDE DEF e, records, s
  <2> QED
    BY <2>3, <2>4
<1> QED
  BY <1>1, <1>2, <1>3 DEF Ingests

LEMMA IngestNotes ==
    ASSUME LedgerInv, NEW r \in Runners, Ingests(r)
    PROVE  \/ UNCHANGED <<storeVars, mishaps>>
           \/ \E b \in Branches : \E i \in DOMAIN attempts[b] :
                 \E e \in [kind: Kinds, ok: BOOLEAN] : Ledger!Note(b, i, e)
<1>1. SwarmInv
  BY DEF LedgerInv
<1>2. PICK records \in SUBSET [kind: Kinds, ok: BOOLEAN], s \in Stages :
         /\ AppendEvidence(r, records, s)
         /\ \/ records = {}
            \/ \E e \in [kind: Kinds, ok: BOOLEAN] : records = {e}
  BY <1>1, IngestRecords
<1>3. pc[r] \in Writing
  BY <1>1, IngestUpdates
<1>4. /\ on[r] \in Branches /\ ordinal[r] \in DOMAIN attempts[on[r]]
      /\ attempts \in [Branches -> Seq(Attempt)]
      /\ attempts[on[r]] \in Seq(Attempt) /\ Own(r) \in Attempt
  BY <1>1, <1>3, OwnAttempt
<1>5. PICK b \in Branches : b = on[r]
  BY <1>4
<1>6. PICK i \in DOMAIN attempts[b] : i = ordinal[r]
  BY <1>4, <1>5
<1>7. /\ attempts' = [attempts EXCEPT ![b][i].evidence = @ \cup records]
      /\ UNCHANGED <<branch, mishaps>>
  BY <1>2, <1>5, <1>6 DEF AppendEvidence
<1>8. CASE records = {}
  <2>1. attempts' = attempts
    <3>1. Updates(r, [Own(r) EXCEPT !.evidence = @ \cup records])
      BY <1>1, <1>2, <1>3, AppendUpdates
    <3>2. [Own(r) EXCEPT !.evidence = @ \cup records] = Own(r)
      BY <1>4, <1>8 DEF Attempt
    <3>3. attempts' = [attempts EXCEPT ![b] = [attempts[b] EXCEPT ![i] =
                          attempts[b][i]]]
      BY <1>5, <1>6, <3>1, <3>2 DEF Updates, Own
    <3>4. [attempts[b] EXCEPT ![i] = attempts[b][i]] = attempts[b]
      BY <1>4, <1>5
    <3> QED
      BY <1>4, <3>3, <3>4
  <2> QED
    BY <1>7, <2>1 DEF storeVars
<1>9. ASSUME NEW e \in [kind: Kinds, ok: BOOLEAN], records = {e}
      PROVE  Ledger!Note(b, i, e)
  <2>1. Ledger!IsMade(b, i)
    BY <1>3, <1>5, <1>6, OwnIsMade
  <2>2. attempts' = [attempts EXCEPT ![b][i].evidence = @ \cup {e}]
    BY <1>7, <1>9
  <2> QED
    BY <1>7, <2>1, <2>2 DEF Ledger!Note
<1> QED
  BY <1>2, <1>8, <1>9

LEMMA FinishCloses ==
    ASSUME LedgerInv, NEW r \in Runners, FinishAttempt(r)
    PROVE  \E b \in Branches : \E i \in DOMAIN attempts[b] :
              \E passes \in BOOLEAN : Ledger!Close(b, i, passes)
<1>1. SwarmInv /\ pc[r] = "finish" /\ pc[r] \in Writing
  BY DEF LedgerInv, FinishAttempt, Writing
<1>2. /\ on[r] \in Branches /\ ordinal[r] \in DOMAIN attempts[on[r]]
  BY <1>1, OwnAttempt
<1>3. PICK b \in Branches : b = on[r]
  BY <1>2
<1>4. PICK i \in DOMAIN attempts[b] : i = ordinal[r]
  BY <1>2, <1>3
<1>5. PICK passes \in BOOLEAN : passes = DerivedPass(result[r])
  <2>1. DerivedPass(result[r]) \in BOOLEAN
    BY DEF DerivedPass
  <2> QED
    BY <2>1
<1>6. passes => attempts[b][i].evidence = [kind: Kinds, ok: {TRUE}]
  BY <1>1, <1>3, <1>4, <1>5 DEF SwarmInv, AttemptInv, Own, Collected
<1>7. Ledger!IsMade(b, i)
  BY <1>1, <1>3, <1>4, OwnIsMade
<1>8. /\ attempts' = [attempts EXCEPT ![b][i].status =
            IF passes THEN "completed" ELSE "failed"]
      /\ branch' = [branch EXCEPT ![b] = IF passes THEN "evaluating" ELSE "pruned"]
      /\ UNCHANGED mishaps
  BY <1>3, <1>4, <1>5 DEF FinishAttempt
<1>9. Ledger!Close(b, i, passes)
  BY <1>6, <1>7, <1>8 DEF Ledger!Close
<1> QED
  BY <1>9

LEMMA WritePromotes ==
    ASSUME LedgerInv, PromoteWrite
    PROVE  \E b \in Branches : Ledger!Promote(b)
<1>1. SwarmInv /\ AloneInv /\ TypeOK /\ api.branch \in Branches
  BY DEF LedgerInv, SwarmInv, TypeOK, ApiInv, PromoteWrite
<1>2. PICK b \in Branches : b = api.branch
  BY <1>1
<1>3. "overlap" \notin mishaps => branch[b] = "evaluating"
  BY <1>1, <1>2 DEF AloneInv, Alone
<1>4. PICK i \in DOMAIN attempts[b] : Whole(attempts[b][i])
  BY <1>1, <1>2 DEF SwarmInv, EarnedInv, HasWhole
<1>5. attempts[b][i] =
         [status |-> "completed", evidence |-> [kind: Kinds, ok: {TRUE}]]
  <2>1. attempts[b] \in Seq(Attempt)
    BY <1>1 DEF TypeOK, Attempt
  <2>2. attempts[b][i] \in Attempt
    BY <2>1
  <2> QED
    BY <1>4, <2>2 DEF Whole, Attempt
<1>6. /\ branch' = [branch EXCEPT ![b] = "promoted"]
      /\ UNCHANGED <<attempts, mishaps>>
  BY <1>2 DEF PromoteWrite, runnerVars
<1>7. Ledger!Promote(b)
  BY <1>3, <1>5, <1>6 DEF Ledger!Promote
<1> QED
  BY <1>7

\* Every step is a call of the ledger, or none.
LEMMA LedgerRefined ==
    LedgerInv /\ [Next]_vars => [Ledger!Next]_(Ledger!ledgerVars)
<1> SUFFICES ASSUME LedgerInv, [Next]_vars
             PROVE  [Ledger!Next]_(Ledger!ledgerVars)
  OBVIOUS
<1> SwarmInv
  BY DEF LedgerInv
<1>1. CASE UNCHANGED storeVars
  BY <1>1, SilentLedger
<1>2. ASSUME NEW r \in Runners, RunnerStep(r), ~UNCHANGED storeVars
      PROVE  Ledger!Next
  <2>1. CASE InsertAttempt(r)
    <3>1. ~Exits(r)
      BY <1>2, <2>1 DEF InsertAttempt, Exits, Goto, SwarmInv, TypeOK
    <3> QED
      BY <2>1, <3>1, InsertBegins DEF Ledger!Next
  <2>2. CASE Ingests(r)
    BY <1>2, <2>2, IngestNotes DEF Ledger!Next
  <2>3. CASE FinishAttempt(r)
    BY <2>3, FinishCloses DEF Ledger!Next
  <2> QED
    BY <1>2, <2>1, <2>2, <2>3 DEF RunnerStep, Ingests, Baseline, RequestEdit,
       ApplyEdit, RunProfile, Payload, Refuse, Accept, ReadStatus,
       ReadOrdinal, Abort
<1>3. ASSUME NEW b \in Branches, CreateBranch(b) PROVE Ledger!Next
  <2>1. Ledger!Create(b)
    BY <1>3 DEF CreateBranch, Ledger!Create
  <2> QED
    BY <2>1 DEF Ledger!Next
<1>4. CASE PromoteWrite
  BY <1>4, WritePromotes DEF Ledger!Next
<1>5. ASSUME NEW b \in Branches, Promote(b) \/ PromoteGate
      PROVE  UNCHANGED storeVars
  BY <1>5 DEF Promote, PromoteGate
<1>6. CASE PromoteGate \/ UNCHANGED vars
  BY <1>1, <1>6 DEF PromoteGate, vars, storeVars
<1> QED
  BY <1>1, <1>2, <1>3, <1>4, <1>5, <1>6 DEF Next

(* "Evidence is append-only; an executor cannot mark its own branch        *)
(* promoted" (swarm/store.py): calls that read first and write later, from *)
(* processes that die and overlap, are still the calls of AttemptLedger.   *)
THEOREM StoreImplementsLedger == Spec => ImplementsLedger
<1>1. Init => Ledger!Init
  BY DEF Init, Ledger!Init
<1>2. LedgerInv /\ [Next]_vars => [Ledger!Next]_(Ledger!ledgerVars)
  BY LedgerRefined
<1> QED
  BY <1>1, <1>2, LedgerHolds, PTL DEF Spec, ImplementsLedger, Ledger!Spec
=============================================================================
