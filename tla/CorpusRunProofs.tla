--------------------------- MODULE CorpusRunProofs ---------------------------
(***************************************************************************)
(* Proofs about CorpusRun for every set of tasks, texts and faults.  The   *)
(* argument: until the proposal is applied the worktree is what was        *)
(* supplied, and what is applied leaves the tests alone, unless S3's patch *)
(* names them (TreeInv); the exit codes on record are those of the         *)
(* worktree as it is (RecordInv); and without an error every profile of    *)
(* the driver is on record (CompleteInv).                                  *)
(***************************************************************************)
EXTENDS CorpusRun, FiniteSetTheorems, TLAPS

Unapplied == {"baseline", "request", "worktree", "apply"}
Applied == {"validate", "payload", "done"}

\* the proposal has passed validation
ProposalInv ==
    /\ driver = "S3" /\ proposal # NoProposal =>
          proposal.profile \in Profiles
    /\ driver # "S3" /\ proposal # NoProposal => ValidEdit(proposal)
    /\ pc \in {"worktree", "apply", "validate"} => proposal # NoProposal

TestsKept == driver = "S3" => "test" \notin proposal.paths

\* what the worktree is
TreeInv ==
    /\ DOMAIN worktree = DOMAIN Supplied
    /\ pc \in Unapplied => worktree = Supplied
    /\ DOMAIN validation # {} =>
          /\ proposal # NoProposal
          /\ TestsKept => worktree["test"] = Supplied["test"]
          /\ driver = "S3" =>
                \A p \in DOMAIN worktree : "blank" \notin Range(worktree[p])
    /\ pc = "validate" =>
          /\ TestsKept => worktree["test"] = Supplied["test"]
          /\ driver = "S3" =>
                \A p \in DOMAIN worktree : "blank" \notin Range(worktree[p])

\* what is on record is true of the worktree
RecordInv ==
    /\ pc \in Unapplied => DOMAIN validation = {}
    /\ \A p \in DOMAIN validation :
          validation[p] \in {Exit(p, worktree), "expired"}
    /\ baseline = "failed" => Exit("python-unittest", Supplied) = "failed"
    /\ pc # "baseline" /\ ~error => baseline # "none"
    /\ driver # "S3" /\ ~error => baseline # "ok"

\* without an error, all there is to run was run
CompleteInv ==
    /\ error => pc \in {"payload", "done"}
    /\ pc = "validate" =>
          \/ DOMAIN validation = {}
          \/ driver # "S3" /\ DOMAIN validation = {"git-diff-check"}
    /\ pc \in {"payload", "done"} /\ ~error =>
          IF driver = "S3" THEN DOMAIN validation = {proposal.profile}
          ELSE DOMAIN validation = Profiles
    /\ output = "pass" => Passed
    /\ output = "fail" => ~Passed
    /\ output # "none" => pc = "done"

RunInv ==
    /\ TypeOK
    /\ ProposalInv
    /\ TreeInv
    /\ RecordInv
    /\ CompleteInv

-----------------------------------------------------------------------------
\* What a file is left as, whatever else a step does.
LEMMA Others ==
    ASSUME NEW files, NEW path, NEW text
    PROVE  LET new == [files EXCEPT ![path] = text]
           IN /\ DOMAIN new = DOMAIN files
              /\ \A p \in DOMAIN files : p # path => new[p] = files[p]
OBVIOUS

LEMMA ExitIsVerdict ==
    ASSUME NEW p, NEW files
    PROVE  Exit(p, files) \in {"ok", "failed"}
BY DEF Exit

\* S3 runs one profile, the others run both, the diff check first.
LEMMA NextProfile ==
    ASSUME RunInv, pc = "validate"
    PROVE  LET done == Cardinality(DOMAIN validation)
               profile == ToRun[done + 1]
           IN /\ profile \in Profiles
              /\ done + 1 = Len(ToRun) =>
                    IF driver = "S3"
                    THEN DOMAIN validation \cup {profile} = {proposal.profile}
                    ELSE DOMAIN validation \cup {profile} = Profiles
              /\ done + 1 # Len(ToRun) =>
                    /\ driver # "S3"
                    /\ DOMAIN validation \cup {profile} = {"git-diff-check"}
<1>1. /\ Cardinality({}) = 0
      /\ Cardinality({"git-diff-check"}) = 1
  BY FS_EmptySet, FS_Singleton
<1>2. CASE driver = "S3"
  <2>1. /\ ToRun = <<proposal.profile>> /\ DOMAIN validation = {}
        /\ proposal.profile \in Profiles
    BY <1>2 DEF ToRun, RunInv, CompleteInv, ProposalInv
  <2>2. ToRun[1] = proposal.profile /\ Len(ToRun) = 1
    BY <2>1
  <2> QED
    BY <1>1, <1>2, <2>1, <2>2
<1>3. CASE driver # "S3"
  <2>1. /\ ToRun = <<"git-diff-check", "python-unittest">>
        /\ DOMAIN validation \in {{}, {"git-diff-check"}}
    BY <1>3 DEF ToRun, RunInv, CompleteInv
  <2>2. /\ ToRun[1] = "git-diff-check" /\ ToRun[2] = "python-unittest"
        /\ Len(ToRun) = 2
    BY <2>1
  <2>3. CASE DOMAIN validation = {}
    BY <1>1, <1>3, <2>2, <2>3 DEF Profiles
  <2>4. CASE DOMAIN validation = {"git-diff-check"}
    BY <1>1, <1>3, <2>2, <2>4 DEF Profiles
  <2> QED
    BY <2>1, <2>3, <2>4
<1> QED
  BY <1>2, <1>3

\* Every edit that is valid has its text once in the supplied file.
LEMMA EditFits ==
    ASSUME RunInv, driver # "S3", pc = "apply"
    PROVE  /\ ValidEdit(proposal)
           /\ OccursOnce(worktree[proposal.path], proposal.old)
           /\ proposal.path \in DOMAIN worktree /\ proposal.path # "test"
BY DEF RunInv, ProposalInv, TreeInv, Unapplied, ValidEdit, Editable, Sources

LEMMA TypeStep == RunInv /\ [Next]_vars => TypeOK'
<1> SUFFICES ASSUME RunInv, [Next]_vars PROVE TypeOK'
  OBVIOUS
<1> TypeOK
  BY DEF RunInv
<1> USE DEF TypeOK, inputs, records, Goes, Raises, MayRaise, RunRaises
<1>1. CASE Baseline
  BY <1>1, ExitIsVerdict DEF Baseline, ExitCodes
<1>2. CASE Request
  BY <1>2 DEF Request
<1>3. CASE PrepareCandidate
  BY <1>3 DEF PrepareCandidate
<1>4. CASE ApplyPatch \/ ApplyEdit
  <2>1. DOMAIN worktree' = DOMAIN worktree
    BY <1>4 DEF ApplyPatch, Patched, ApplyEdit
  <2> QED
    BY <1>4, <2>1 DEF ApplyPatch, ApplyEdit
<1>5. CASE Validate
  BY <1>5, NextProfile DEF Validate
<1>6. CASE Payload
  BY <1>6 DEF Payload
<1>7. CASE UNCHANGED vars
  BY <1>7 DEF vars
<1> QED
  BY <1>1, <1>2, <1>3, <1>4, <1>5, <1>6, <1>7 DEF Next

\* The steps of main() that write no profile and no file.
LEMMA ProposalStep == RunInv /\ [Next]_vars => ProposalInv'
<1> SUFFICES ASSUME RunInv, [Next]_vars PROVE ProposalInv'
  OBVIOUS
<1> ProposalInv /\ TypeOK
  BY DEF RunInv
<1> USE DEF ProposalInv, inputs, records, Goes, Raises, MayRaise, RunRaises,
            ValidEdit, Editable, Supplied
<1>1. CASE Baseline
  BY <1>1 DEF Baseline
<1>2. CASE Request
  <2>1. CASE driver = "S3" /\ proposal' # proposal
    <3>1. PICK p \in Patches : proposal' = p /\ Goes("worktree")
      BY <1>2, <2>1 DEF Request
    <3>2. p.profile \in Profiles /\ p # NoProposal
      BY DEF Patches, NoProposal
    <3> QED
      BY <1>2, <2>1, <3>1, <3>2 DEF Request
  <2>2. CASE driver # "S3" /\ proposal' # proposal
    <3>1. PICK e \in Edits :
             ValidEdit(e) /\ proposal' = e /\ Goes("worktree")
      BY <1>2, <2>2 DEF Request
    <3>2. e # NoProposal
      BY DEF Edits, NoProposal
    <3> QED
      BY <1>2, <2>2, <3>1, <3>2 DEF Request
  <2>3. CASE proposal' = proposal
    <3>1. \A p \in Patches \cup Edits : p # NoProposal
      BY DEF Patches, Edits, NoProposal
    <3> QED
      BY <1>2, <2>3, <3>1 DEF Request
  <2> QED
    BY <2>1, <2>2, <2>3
<1>3. CASE PrepareCandidate
  BY <1>3 DEF PrepareCandidate
<1>4. CASE ApplyPatch \/ ApplyEdit
  BY <1>4 DEF ApplyPatch, ApplyEdit
<1>5. CASE Validate
  BY <1>5 DEF Validate
<1>6. CASE Payload
  BY <1>6 DEF Payload
<1>7. CASE UNCHANGED vars
  BY <1>7 DEF vars
<1> QED
  BY <1>1, <1>2, <1>3, <1>4, <1>5, <1>6, <1>7 DEF Next

\* The candidate's files.
LEMMA TreeStep == RunInv /\ [Next]_vars => TreeInv'
<1> SUFFICES ASSUME RunInv, [Next]_vars PROVE TreeInv'
  OBVIOUS
<1> ProposalInv /\ TreeInv /\ TypeOK /\ RecordInv
  BY DEF RunInv
<1> USE DEF TreeInv, TestsKept, Unapplied, Supplied, inputs, records, Goes,
            Raises, MayRaise, RunRaises
<1>1. CASE Baseline \/ PrepareCandidate
  BY <1>1 DEF Baseline, PrepareCandidate
<1>2. CASE Request
  BY <1>2 DEF Request, RecordInv
<1>3. CASE ApplyPatch
  <2>1. /\ worktree = Supplied /\ DOMAIN validation = {}
        /\ \A p \in DOMAIN worktree : "blank" \notin Range(worktree[p])
        /\ "test" \in DOMAIN worktree
    BY <1>3, FilesAssumption DEF ApplyPatch, RecordInv, TypeOK
  <2> QED
    BY <1>3, <2>1 DEF ApplyPatch, Patched
<1>4. CASE ApplyEdit
  <2>1. driver # "S3" /\ pc = "apply"
    BY <1>4 DEF ApplyEdit
  <2>2. /\ worktree = Supplied /\ DOMAIN validation = {}
        /\ proposal.path # "test" /\ "test" \in DOMAIN worktree
    BY <2>1, EditFits, FilesAssumption DEF RecordInv, TypeOK
  <2>3. /\ DOMAIN worktree' = DOMAIN worktree
        /\ worktree'["test"] = worktree["test"]
    BY <1>4, <2>2 DEF ApplyEdit
  <2> QED
    BY <1>4, <2>1, <2>2, <2>3 DEF ApplyEdit
<1>5. CASE Validate
  BY <1>5 DEF Validate, ProposalInv
<1>6. CASE Payload
  BY <1>6 DEF Payload
<1>7. CASE UNCHANGED vars
  BY <1>7 DEF vars
<1> QED
  BY <1>1, <1>2, <1>3, <1>4, <1>5, <1>6, <1>7 DEF Next

LEMMA RecordStep == RunInv /\ [Next]_vars => RecordInv'
<1> SUFFICES ASSUME RunInv, [Next]_vars PROVE RecordInv'
  OBVIOUS
<1> RecordInv /\ TypeOK
  BY DEF RunInv
<1> USE DEF RecordInv, Unapplied, Supplied, inputs, records, Goes, Raises,
            MayRaise, RunRaises
<1>1. CASE Baseline
  <2>1. /\ Exit("python-unittest", Supplied) \in {"ok", "failed"}
        /\ UNCHANGED <<driver, task, worktree, validation>>
    BY <1>1, ExitIsVerdict DEF Baseline
  <2>2. CASE UNCHANGED baseline /\ Raises
    BY <1>1, <2>1, <2>2
  <2>3. CASE ~(UNCHANGED baseline /\ Raises)
    <3>1. PICK exit \in ExitCodes("python-unittest", Supplied) :
             /\ baseline' = exit
             /\ IF exit = "ok" /\ driver # "S3" THEN Raises
                ELSE Goes("request")
      BY <1>1, <2>3 DEF Baseline
    <3>2. exit \in {Exit("python-unittest", Supplied), "expired"}
      BY DEF ExitCodes
    <3>3. pc = "baseline"
      BY <1>1 DEF Baseline
    <3> QED
      BY <2>1, <3>1, <3>2, <3>3
  <2> QED
    BY <2>2, <2>3
<1>2. CASE Request \/ PrepareCandidate
  BY <1>2 DEF Request, PrepareCandidate
<1>3. CASE ApplyPatch \/ ApplyEdit
  BY <1>3 DEF ApplyPatch, ApplyEdit
<1>4. CASE Validate
  <2>1. CASE UNCHANGED validation
    BY <1>4, <2>1 DEF Validate
  <2>2. CASE validation' # validation
    <3> DEFINE q == ToRun[Cardinality(DOMAIN validation) + 1]
    <3>1. PICK exit \in ExitCodes(q, worktree) :
             validation' = [p \in DOMAIN validation \cup {q} |->
                               IF p = q THEN exit ELSE validation[p]]
      BY <1>4, <2>2 DEF Validate
    <3> HIDE DEF q
    <3>2. exit \in {Exit(q, worktree), "expired"}
      BY DEF ExitCodes
    <3>3. /\ UNCHANGED <<driver, worktree, baseline, task>>
          /\ pc # "baseline" /\ pc' \notin Unapplied
          /\ ~error' => ~error
      BY <1>4 DEF Validate
    <3> QED
      BY <3>1, <3>2, <3>3
  <2> QED
    BY <2>1, <2>2
<1>5. CASE Payload
  BY <1>5 DEF Payload
<1>6. CASE UNCHANGED vars
  BY <1>6 DEF vars
<1> QED
  BY <1>1, <1>2, <1>3, <1>4, <1>5, <1>6 DEF Next

LEMMA CompleteStep == RunInv /\ [Next]_vars => CompleteInv'
<1> SUFFICES ASSUME RunInv, [Next]_vars PROVE CompleteInv'
  OBVIOUS
<1> CompleteInv /\ RecordInv /\ TypeOK
  BY DEF RunInv
<1> USE DEF CompleteInv, Passed, inputs, records, Goes, Raises, MayRaise,
            RunRaises
<1>1. CASE Baseline
  BY <1>1 DEF Baseline
<1>2. CASE Request \/ PrepareCandidate
  BY <1>2 DEF Request, PrepareCandidate
<1>3. CASE ApplyPatch \/ ApplyEdit
  BY <1>3 DEF ApplyPatch, ApplyEdit, RecordInv, Unapplied
<1>4. CASE Validate
  <2>1. CASE Raises
    BY <1>4, <2>1 DEF Validate
  <2>2. CASE ~Raises
    <3> DEFINE q == ToRun[Cardinality(DOMAIN validation) + 1]
               last == Cardinality(DOMAIN validation) + 1 = Len(ToRun)
    <3>1. /\ DOMAIN validation' = DOMAIN validation \cup {q}
          /\ pc' = IF last THEN "payload" ELSE "validate"
          /\ UNCHANGED <<error, output, driver, proposal>>
      BY <1>4, <2>2 DEF Validate
    <3>2. /\ last => IF driver = "S3"
                     THEN DOMAIN validation \cup {q} = {proposal.profile}
                     ELSE DOMAIN validation \cup {q} = Profiles
          /\ ~last => /\ driver # "S3"
                      /\ DOMAIN validation \cup {q} = {"git-diff-check"}
      BY <1>4, NextProfile DEF Validate
    <3>3. ~error /\ output = "none"
      BY <1>4 DEF Validate
    <3> HIDE DEF q, last
    <3> QED
      BY <3>1, <3>2, <3>3
  <2> QED
    BY <2>1, <2>2
<1>5. CASE Payload
  BY <1>5 DEF Payload, LacksResponse
<1>6. CASE UNCHANGED vars
  BY <1>6 DEF vars
<1> QED
  BY <1>1, <1>2, <1>3, <1>4, <1>5, <1>6 DEF Next

LEMMA RunHolds == Spec => []RunInv
<1>1. Init => RunInv
  <2> SUFFICES ASSUME Init PROVE RunInv
    OBVIOUS
  <2>1. task \in DOMAIN Files /\ driver \in Drivers
    BY FilesAssumption DEF Init
  <2>2. DOMAIN validation = {}
    BY DEF Init
  <2> QED
    BY <2>1, <2>2 DEF Init, RunInv, TypeOK, ProposalInv, TreeInv, RecordInv,
       CompleteInv, Supplied
<1>2. RunInv /\ [Next]_vars => RunInv'
  BY TypeStep, ProposalStep, TreeStep, RecordStep, CompleteStep DEF RunInv
<1> QED
  BY <1>1, <1>2, PTL DEF Spec

-----------------------------------------------------------------------------
(* The steps, records and exit codes of a run keep their types.            *)
THEOREM TypeCorrect == Spec => []TypeOK
<1>1. RunInv => TypeOK
  BY DEF RunInv
<1> QED
  BY <1>1, RunHolds, PTL

(* What S4 and S5 pass is a repair under the tests as supplied, of files   *)
(* whose tests had failed or not ended (swarm_s5_text_edit_corpus.py), but *)
(* for a pass that comes with an error; S3's model may choose its profile  *)
(* and patch the test.                                                     *)
THEOREM PassesAreRepairs == Spec => []PassIsARepair
<1>1. RunInv => PassIsARepair
  <2> SUFFICES ASSUME RunInv, output = "pass", ~error,
                      driver = "S3" => /\ "python-unittest" \in DOMAIN validation
                                       /\ "test" \notin proposal.paths
               PROVE  Repaired
    <3>1. RunInv /\ output = "pass" => baseline \in {"failed", "expired"}
      BY DEF RunInv, CompleteInv, Passed, TypeOK
    <3> QED
      BY <3>1 DEF PassIsARepair, RunInv, RecordInv
  <2>1. pc = "done" /\ Passed
    BY DEF RunInv, CompleteInv
  <2>2. /\ "python-unittest" \in DOMAIN validation
        /\ driver # "S3" => "git-diff-check" \in DOMAIN validation
    BY <2>1 DEF RunInv, CompleteInv, Profiles
  <2>3. \A p \in DOMAIN validation : Exit(p, worktree) = "ok"
    BY <2>1 DEF RunInv, RecordInv, Passed
  <2>4. worktree["test"] = Supplied["test"]
    BY <2>2 DEF RunInv, TreeInv, TestsKept
  <2>5. "check" \in Range(worktree["test"])
    BY <2>4, FilesAssumption DEF RunInv, TypeOK, Supplied
  <2>6. \A p \in Sources(worktree) : Works(worktree[p])
    BY <2>2, <2>3, <2>5 DEF Exit
  <2>7. \A p \in DOMAIN worktree : "blank" \notin Range(worktree[p])
    <3>1. CASE driver = "S3"
      BY <2>2, <3>1 DEF RunInv, TreeInv
    <3>2. CASE driver # "S3"
      BY <2>2, <2>3, <3>2 DEF Exit
    <3> QED
      BY <3>1, <3>2
  <2> QED
    BY <2>4, <2>6, <2>7 DEF Repaired
<1> QED
  BY <1>1, RunHolds, PTL

(* An artifact that names no error has all its evidence, and fails no      *)
(* repair that was tried on failing tests but for a profile that ran out   *)
(* of time (swarm_s5_text_edit_corpus.py, after the handler).              *)
THEOREM VerdictsAreComplete == Spec => []VerdictIsComplete
<1>1. RunInv => VerdictIsComplete
  <2> SUFFICES ASSUME RunInv, output \in {"pass", "fail"}, ~error
               PROVE  /\ baseline # "none"
                      /\ DOMAIN validation = Range(ToRun)
                      /\ output = "fail" =>
                            \/ ~Repaired
                            \/ "expired" \in Range(validation)
                            \/ driver = "S3" /\ baseline = "ok"
    BY DEF VerdictIsComplete
  <2>1. pc = "done" /\ baseline # "none"
    BY DEF RunInv, CompleteInv, RecordInv
  <2>2. DOMAIN validation = IF driver = "S3" THEN {proposal.profile}
                            ELSE Profiles
    BY <2>1 DEF RunInv, CompleteInv
  <2>3. Range(ToRun) = IF driver = "S3" THEN {proposal.profile} ELSE Profiles
    <3>1. CASE driver = "S3"
      <4>1. ToRun = <<proposal.profile>>
        BY <3>1 DEF ToRun
      <4> QED
        BY <3>1, <4>1 DEF Range
    <3>2. CASE driver # "S3"
      <4>1. ToRun = <<"git-diff-check", "python-unittest">>
        BY <3>2 DEF ToRun
      <4>2. /\ DOMAIN ToRun = {1, 2}
            /\ ToRun[1] = "git-diff-check" /\ ToRun[2] = "python-unittest"
        BY <4>1
      <4> QED
        BY <3>2, <4>2 DEF Range, Profiles
    <3> QED
      BY <3>1, <3>2
  <2>4. ASSUME output = "fail", Repaired, "expired" \notin Range(validation),
               driver = "S3" => baseline # "ok"
        PROVE  FALSE
    <3>1. ~Passed /\ baseline \notin {"none", "ok"}
      BY <2>1, <2>4 DEF RunInv, CompleteInv, RecordInv
    <3>2. DOMAIN validation # {}
      BY <2>2 DEF Profiles
    <3>3. PICK q \in DOMAIN validation : validation[q] # "ok"
      BY <3>1, <3>2 DEF Passed
    <3>4. validation[q] # "expired"
      BY <2>4 DEF Range
    <3>5. Exit(q, worktree) # "ok"
      BY <3>3, <3>4 DEF RunInv, RecordInv
    <3> QED
      BY <2>4, <3>5 DEF Repaired, Exit
  <2> QED
    BY <2>1, <2>2, <2>3, <2>4
<1> QED
  BY <1>1, RunHolds, PTL

-----------------------------------------------------------------------------
\* An edit that was accepted holds texts that a model may propose.
TextInv ==
    driver # "S3" /\ proposal # NoProposal =>
        proposal.old \in Texts /\ proposal.new \in Texts

LEMMA TextsHold == Spec => []TextInv
<1>1. Init => TextInv
  BY DEF Init, TextInv
<1>2. TextInv /\ [Next]_vars => TextInv'
  <2> USE DEF TextInv, inputs, records
  <2>1. CASE Request /\ driver # "S3" /\ proposal' # proposal
    <3>1. PICK e \in Edits : proposal' = e
      BY <2>1 DEF Request
    <3>2. e.old \in Texts /\ e.new \in Texts
      BY DEF Edits
    <3> QED
      BY <3>1, <3>2
  <2>2. CASE Request /\ (driver = "S3" \/ proposal' = proposal)
    BY <2>2 DEF Request
  <2>3. CASE [Next]_vars /\ ~Request
    BY <2>3 DEF Next, Baseline, PrepareCandidate, ApplyPatch, ApplyEdit,
       Validate, Payload, vars
  <2> QED
    BY <2>1, <2>2, <2>3
<1> QED
  BY <1>1, <1>2, PTL DEF Spec

\* A part of a text, and a part put between two others.
LEMMA Part ==
    ASSUME NEW text \in Seq(Pieces), NEW m \in 1 .. Len(text) + 1,
           NEW n \in 0 .. Len(text)
    PROVE  /\ SubSeq(text, m, n) \in Seq(Pieces)
           /\ Len(SubSeq(text, m, n)) = IF m <= n THEN n - m + 1 ELSE 0
           /\ \A j \in 1 .. n - m + 1 : SubSeq(text, m, n)[j] = text[m + j - 1]
OBVIOUS

LEMMA Joined ==
    ASSUME NEW s \in Seq(Pieces), NEW t \in Seq(Pieces)
    PROVE  /\ s \o t \in Seq(Pieces) /\ Len(s \o t) = Len(s) + Len(t)
           /\ Len(s) \in Nat /\ Len(t) \in Nat
           /\ \A j \in 1 .. Len(s) : (s \o t)[j] = s[j]
           /\ \A j \in 1 .. Len(t) : (s \o t)[Len(s) + j] = t[j]
OBVIOUS

LEMMA Between ==
    ASSUME NEW a \in Seq(Pieces), NEW new \in Seq(Pieces),
           NEW z \in Seq(Pieces)
    PROVE  /\ Len((a \o new) \o z) = (Len(a) + Len(new)) + Len(z)
           /\ Len(a) \in Nat /\ Len(new) \in Nat /\ Len(z) \in Nat
           /\ \A j \in 1 .. Len(new) : ((a \o new) \o z)[Len(a) + j] = new[j]
<1>1. /\ a \o new \in Seq(Pieces) /\ Len(a \o new) = Len(a) + Len(new)
      /\ Len(a) \in Nat /\ Len(new) \in Nat
      /\ \A j \in 1 .. Len(new) : (a \o new)[Len(a) + j] = new[j]
  BY Joined
<1> DEFINE s == a \o new
<1>2. /\ Len(s \o z) = Len(s) + Len(z) /\ Len(z) \in Nat
      /\ \A j \in 1 .. Len(s) : (s \o z)[j] = s[j]
  BY <1>1, Joined
<1> HIDE DEF s
<1>3. ASSUME NEW j \in 1 .. Len(new) PROVE (s \o z)[Len(a) + j] = new[j]
  <2>1. Len(a) + j \in 1 .. Len(s)
    BY <1>1 DEF s
  <2>2. s[Len(a) + j] = new[j]
    BY <1>1 DEF s
  <2> QED
    BY <1>2, <2>1, <2>2
<1>4. Len(s \o z) = (Len(a) + Len(new)) + Len(z)
  BY <1>1, <1>2 DEF s
<1> QED
  BY <1>1, <1>2, <1>3, <1>4 DEF s

\* Sequences with the same elements.
LEMMA SameText ==
    ASSUME NEW s \in Seq(Pieces), NEW t \in Seq(Pieces), Len(s) = Len(t),
           \A j \in 1 .. Len(s) : s[j] = t[j]
    PROVE  s = t
OBVIOUS

\* Replacing a part by something else changes the text.
LEMMA ReplacedDiffers ==
    ASSUME NEW text \in Seq(Pieces), NEW old \in Seq(Pieces),
           NEW new \in Seq(Pieces), old # <<>>, new # old,
           OccursOnce(text, old)
    PROVE  Replaced(text, old, new) # text
<1> DEFINE i == CHOOSE n \in Positions(text, old) : IsFirst(n, text, old)
<1>1. \E n \in Positions(text, old) : IsFirst(n, text, old)
  BY DEF OccursOnce
<1>2. i \in Positions(text, old)
  BY <1>1
<1> HIDE DEF i
<1>3. /\ i \in 1 .. (Len(text) - Len(old) + 1)
      /\ SubSeq(text, i, i + Len(old) - 1) = old
  BY <1>2 DEF Positions
<1>4. Len(text) \in Nat /\ Len(old) \in Nat \ {0} /\ Len(new) \in Nat
  OBVIOUS
<1>5. /\ i \in 1 .. Len(text) /\ i - 1 \in 0 .. Len(text)
      /\ i + Len(old) \in 1 .. Len(text) + 1
      /\ i + Len(old) - 1 \in 0 .. Len(text)
  BY <1>3, <1>4
<1> DEFINE a == SubSeq(text, 1, i - 1)
           z == SubSeq(text, i + Len(old), Len(text))
<1>6. a \in Seq(Pieces) /\ Len(a) = i - 1
  <2>1. 1 \in 1 .. Len(text) + 1
    BY <1>4
  <2>2. /\ a \in Seq(Pieces)
        /\ Len(a) = IF 1 <= i - 1 THEN (i - 1) - 1 + 1 ELSE 0
    BY <1>5, <2>1, Part
  <2> QED
    BY <1>5, <2>2
<1>7. z \in Seq(Pieces) /\ Len(z) = Len(text) - (i + Len(old)) + 1
  <2>1. Len(text) \in 0 .. Len(text)
    BY <1>4
  <2>2. /\ z \in Seq(Pieces)
        /\ Len(z) = IF i + Len(old) <= Len(text)
                    THEN Len(text) - (i + Len(old)) + 1 ELSE 0
    BY <1>5, <2>1, Part
  <2>3. CASE i + Len(old) <= Len(text)
    BY <2>2, <2>3
  <2>4. CASE ~(i + Len(old) <= Len(text))
    <3>1. Len(text) - (i + Len(old)) + 1 = 0
      BY <1>4, <1>5, <2>4
    <3> QED
      BY <2>2, <2>4, <3>1
  <2> QED
    BY <2>3, <2>4
<1>8. Replaced(text, old, new) = (a \o new) \o z
  BY DEF Replaced, i
<1> HIDE DEF a, z
<1>9. SUFFICES ASSUME (a \o new) \o z = text PROVE FALSE
  BY <1>8
<1>10. Len(text) = (Len(a) + Len(new)) + Len(z)
  BY <1>6, <1>7, <1>9, Between
<1>11. Len(new) = Len(old)
  BY <1>4, <1>5, <1>6, <1>7, <1>10
<1>12. \A j \in 1 .. Len(old) : old[j] = text[i + j - 1]
  <2> DEFINE n == i + Len(old) - 1
  <2>1. i \in 1 .. Len(text) + 1 /\ n \in 0 .. Len(text)
    BY <1>4, <1>5
  <2>2. n - i + 1 = Len(old)
    BY <1>4, <1>5
  <2>3. \A j \in 1 .. n - i + 1 : SubSeq(text, i, n)[j] = text[i + j - 1]
    BY <2>1, Part
  <2> QED
    BY <1>3, <2>2, <2>3
<1>13. \A j \in 1 .. Len(new) : text[Len(a) + j] = new[j]
  <2>1. \A j \in 1 .. Len(new) : ((a \o new) \o z)[Len(a) + j] = new[j]
    <3>1. a \in Seq(Pieces) /\ z \in Seq(Pieces)
      BY <1>6, <1>7
    <3>2. /\ Len((a \o new) \o z) = (Len(a) + Len(new)) + Len(z)
          /\ \A j \in 1 .. Len(new) : ((a \o new) \o z)[Len(a) + j] = new[j]
      BY <3>1, Between
    <3> QED
      BY <3>2
  <2> QED
    BY <1>9, <2>1
<1>14. \A j \in 1 .. Len(new) : new[j] = old[j]
  <2> TAKE j \in 1 .. Len(new)
  <2>1. Len(a) + j = i + j - 1
    BY <1>5, <1>6
  <2> QED
    BY <1>11, <1>12, <1>13, <2>1
<1> QED
  BY <1>11, <1>14, SameText

\* What the profiles judge is what was supplied, with a change in one file.
EditInv ==
    driver # "S3" /\ (pc = "validate" \/ DOMAIN validation # {}) =>
        \A p \in DOMAIN worktree :
           worktree[p] # Supplied[p] <=> p = proposal.path

LEMMA EditChanges ==
    ASSUME RunInv, TextInv, driver # "S3", pc = "apply",
           worktree' = [worktree EXCEPT ![proposal.path] =
               Replaced(worktree[proposal.path], proposal.old, proposal.new)]
    PROVE  \A p \in DOMAIN worktree :
              worktree'[p] # Supplied[p] <=> p = proposal.path
<1>1. /\ ValidEdit(proposal)
      /\ OccursOnce(worktree[proposal.path], proposal.old)
      /\ proposal.path \in DOMAIN worktree
  BY EditFits
<1>2. worktree = Supplied
  BY DEF RunInv, TreeInv, Unapplied
<1>3. /\ worktree[proposal.path] \in Seq(Pieces)
      /\ proposal.old \in Seq(Pieces) /\ proposal.new \in Seq(Pieces)
      /\ proposal.old # <<>> /\ proposal.new # proposal.old
  <2>1. worktree = Files[task] /\ task \in DOMAIN Files
    BY <1>2 DEF RunInv, TypeOK, Supplied
  <2>2. proposal # NoProposal
    BY DEF RunInv, ProposalInv
  <2>3. proposal.old \in Texts /\ proposal.new \in Texts
    BY <2>2 DEF TextInv
  <2>4. worktree[proposal.path] \in Seq(Pieces)
    BY <1>1, <2>1, FilesAssumption
  <2>5. proposal.old # <<>> /\ proposal.new # proposal.old
    BY <1>1 DEF ValidEdit, Replaces
  <2> QED
    BY <2>3, <2>4, <2>5, TextsAssumption
<1>4. Replaced(worktree[proposal.path], proposal.old, proposal.new)
         # worktree[proposal.path]
  BY <1>1, <1>3, ReplacedDiffers
<1>5. worktree'[proposal.path] # worktree[proposal.path]
  BY <1>1, <1>4
<1>6. \A p \in DOMAIN worktree :
         p # proposal.path => worktree'[p] = worktree[p]
  BY Others
<1> QED
  BY <1>2, <1>5, <1>6

LEMMA EditStep == RunInv /\ TextInv /\ EditInv /\ [Next]_vars => EditInv'
<1> SUFFICES ASSUME RunInv, TextInv, EditInv, [Next]_vars PROVE EditInv'
  OBVIOUS
<1> RecordInv /\ TreeInv
  BY DEF RunInv
<1> USE DEF EditInv, Supplied, inputs, records, Goes, Raises, MayRaise,
            RunRaises
<1>1. CASE ApplyEdit
  <2>1. DOMAIN validation = {} /\ validation' = validation
    BY <1>1 DEF ApplyEdit, RecordInv, Unapplied
  <2>2. CASE pc' # "validate"
    BY <2>1, <2>2
  <2>3. CASE pc' = "validate"
    <3>1. worktree' = [worktree EXCEPT ![proposal.path] =
              Replaced(worktree[proposal.path], proposal.old, proposal.new)]
      BY <1>1, <2>3 DEF ApplyEdit
    <3>2. DOMAIN worktree' = DOMAIN worktree
      BY <3>1, Others
    <3>3. \A p \in DOMAIN worktree :
             worktree'[p] # Supplied[p] <=> p = proposal.path
      BY <1>1, <3>1, EditChanges DEF ApplyEdit
    <3>4. UNCHANGED <<proposal, task>>
      BY <1>1 DEF ApplyEdit
    <3> QED
      BY <3>2, <3>3, <3>4
  <2> QED
    BY <2>2, <2>3
<1>2. CASE ApplyPatch
  BY <1>2 DEF ApplyPatch
<1>3. CASE Baseline
  BY <1>3 DEF Baseline, RecordInv, Unapplied
<1>4. CASE Request
  BY <1>4 DEF Request, RecordInv, Unapplied
<1>5. CASE PrepareCandidate
  BY <1>5 DEF PrepareCandidate, RecordInv, Unapplied
<1>6. CASE Validate
  BY <1>6 DEF Validate
<1>7. CASE Payload
  BY <1>7 DEF Payload
<1>8. CASE UNCHANGED vars
  BY <1>8 DEF vars
<1> QED
  BY <1>1, <1>2, <1>3, <1>4, <1>5, <1>6, <1>7, <1>8 DEF Next

(* A proposal that was validated against the texts the driver holds is not *)
(* refused for the worktree's (swarm/edit.py), and what is judged then is  *)
(* what was supplied, changed in the file of the proposal and in no other, *)
(* for every text and whatever reads and writes fail.                      *)
THEOREM ValidEditsApply == Spec => []ValidEditApplies
<1>1. Init => EditInv
  BY DEF Init, EditInv
<1>2. RunInv /\ TextInv /\ EditInv /\ [Next]_vars => EditInv'
  BY EditStep
<1>3. RunInv /\ EditInv => ValidEditApplies
  BY EditFits DEF EditInv, ValidEditApplies
<1> QED
  BY <1>1, <1>2, <1>3, RunHolds, TextsHold, PTL DEF Spec
=============================================================================
