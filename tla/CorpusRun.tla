----------------------------- MODULE CorpusRun -----------------------------
(***************************************************************************)
(* One run of a corpus driver: swarm_s3_patch_fixture.py lets the model    *)
(* write a patch, swarm_s4_text_edit_fixture.py and swarm_s5_text_edit_    *)
(* corpus.py let it name one exact replacement.  executor.py with patch.py *)
(* or edit.py validates the proposal, harness.py makes worktrees and runs  *)
(* command profiles.  Module SwarmController takes the artifacts from      *)
(* here.                                                                   *)
(*                                                                         *)
(* A text is a sequence of pieces: "bug" makes the tests fail, "fix" is    *)
(* what belongs there, "check" is an assertion, "blank" is white space at  *)
(* the end of a line, "line" is any other text; several in a row overlap   *)
(* themselves, as the blanks of an indentation do.                         *)
(***************************************************************************)
EXTENDS Naturals, Sequences, FiniteSets, Functions

CONSTANTS Drivers,  \* the drivers: "S3", "S4", "S5"
          Files,    \* the files of a task, for each task
          Texts,    \* the texts a model may propose
          Faults    \* "raise": git, a file or the model fails;
                    \* "timeout": a profile does not end in time

ASSUME DriversAssumption == Drivers \subseteq {"S3", "S4", "S5"}
Pieces == {"bug", "fix", "check", "blank", "line"}

\* every task has a test that asserts something; git diff --check looks at
\* changes only, and the files that are changed have no blanks to begin with
ASSUME FilesAssumption ==
    /\ "parity" \in DOMAIN Files
    /\ \A t \in DOMAIN Files :
         /\ "test" \in DOMAIN Files[t]
         /\ "check" \in Range(Files[t]["test"])
         /\ \A p \in DOMAIN Files[t] : /\ Files[t][p] \in Seq(Pieces)
                                       /\ "blank" \notin Range(Files[t][p])
ASSUME TextsAssumption == Texts \subseteq Seq(Pieces)
ASSUME FaultsAssumption == Faults \subseteq {"raise", "timeout"}

VARIABLES driver, task,
          pc,         \* the step of main() that comes next
          worktree,   \* the candidate's files
          proposal,   \* the response that passed validation
          baseline,   \* how the unmodified files' tests exited
          validation, \* how each profile exited
          error,      \* an exception was caught
          output      \* the artifact: pass or fail, none, or a part of one

inputs == <<driver, task>>
records == <<proposal, baseline, validation>>
vars == <<driver, task, pc, worktree, proposal, baseline, validation, error,
          output>>

Profiles == {"git-diff-check", "python-unittest"}
NoProposal == [kind |-> "none"]

Init ==
    /\ driver \in Drivers
    /\ task \in IF driver = "S5" THEN DOMAIN Files ELSE {"parity"}
    /\ pc = "baseline"
    /\ worktree = Files[task]
    /\ proposal = NoProposal
    /\ baseline = "none"
    /\ validation = <<>>
    /\ error = FALSE
    /\ output = "none"

Supplied == Files[task]

\* the one handler of main(): the payload is written all the same
Raises == pc' = "payload" /\ error' = TRUE

Goes(place) == pc' = place /\ UNCHANGED error

\* a step that asks git or the file system may fail
MayRaise == "raise" \in Faults /\ Raises

-----------------------------------------------------------------------------
\* The harness

Sources(files) == DOMAIN files \ {"test"}
Works(text) == "fix" \in Range(text) /\ "bug" \notin Range(text)

\* what a profile exits with in a worktree
Exit(profile, files) ==
    LET good == IF profile = "git-diff-check"
                THEN \A p \in DOMAIN files : "blank" \notin Range(files[p])
                ELSE \/ "check" \notin Range(files["test"])
                     \/ \A p \in Sources(files) : Works(files[p])
    IN IF good THEN "ok" ELSE "failed"

\* run_profile(): a command that runs out of time exits with 124, expired;
\* if it has printed something, joining its output to a string raises
ExitCodes(profile, files) ==
    {Exit(profile, files)} \cup (IF "timeout" \in Faults THEN {"expired"}
                              ELSE {})

\* faulty variant: a profile that cannot be run is left out
RunIsSkipped == Faults # {} /\ Goes("payload")

RunRaises == Faults # {} /\ Raises

\* a worktree at HEAD, with the tests run in it; S4 and S5 go on only if
\* these fail
Baseline ==
    /\ pc = "baseline"
    /\ \/ \E exit \in ExitCodes("python-unittest", Supplied) :
            /\ baseline' = exit
            /\ IF exit = "ok" /\ driver # "S3" THEN Raises ELSE Goes("request")
       \/ RunRaises /\ UNCHANGED baseline
    /\ UNCHANGED <<inputs, worktree, proposal, validation, output>>

-----------------------------------------------------------------------------
\* The proposal

Positions(text, piece) ==
    {i \in 1..(Len(text) - Len(piece) + 1) :
        SubSeq(text, i, i + Len(piece) - 1) = piece}

IsFirst(i, text, piece) ==
    /\ i \in Positions(text, piece)
    /\ \A j \in Positions(text, piece) : i <= j

\* str.count goes on behind what it has found, so that one occurrence is
\* counted for those that overlap the first
OccursOnce(text, piece) ==
    \E i \in Positions(text, piece) :
        /\ IsFirst(i, text, piece)
        /\ \A j \in Positions(text, piece) : j < i + Len(piece)

\* str.replace, once
Replaced(text, old, new) ==
    LET i == CHOOSE n \in Positions(text, old) : IsFirst(n, text, old)
    IN SubSeq(text, 1, i - 1) \o new
       \o SubSeq(text, i + Len(old), Len(text))

\* the driver gives editable_paths: everything but the tests
Editable == Sources(Supplied)

Replaces(e) == e.old # <<>> /\ e.new # <<>> /\ e.old # e.new

\* faulty variant: every supplied file may be edited
ValidEditAnywhere(e) ==
    /\ e.path \in DOMAIN Supplied
    /\ Replaces(e)
    /\ OccursOnce(Supplied[e.path], e.old)

\* faulty variant: the text may occur more than once
ValidEditOfMany(e) ==
    /\ e.path \in Editable
    /\ Replaces(e)
    /\ Positions(Supplied[e.path], e.old) # {}

\* validate_text_edit_proposal() and validate_exact_text_edit()
ValidEdit(e) ==
    /\ e.path \in Editable
    /\ Replaces(e)
    /\ OccursOnce(Supplied[e.path], e.old)

Edits == [kind : {"edit"}, path : DOMAIN Supplied \cup {"elsewhere"},
          old : Texts, new : Texts, profile : Profiles]

\* validate_patch_proposal(): every file named in a diff header was supplied
ValidPatch(p) == p.paths \subseteq DOMAIN Supplied

\* what a patch would make of each file; its context may not fit
Patches == [kind : {"patch"}, new : Texts, fits : BOOLEAN,
            paths : (SUBSET (DOMAIN Supplied \cup {"elsewhere"})) \ {{}},
            profile : Profiles]

\* the answer breaks the schema, names another profile, or is refused
Request ==
    /\ pc = "request"
    /\ \/ /\ driver = "S3"
          /\ \E p \in Patches :
               IF ValidPatch(p) THEN proposal' = p /\ Goes("worktree")
               ELSE Raises /\ UNCHANGED proposal
       \/ /\ driver # "S3"
          /\ \E e \in Edits :
               IF ValidEdit(e) THEN proposal' = e /\ Goes("worktree")
               ELSE Raises /\ UNCHANGED proposal
       \/ Raises /\ UNCHANGED proposal
    /\ UNCHANGED <<inputs, worktree, baseline, validation, output>>

\* a second worktree at HEAD
PrepareCandidate ==
    /\ pc = "worktree"
    /\ \/ Goes("apply")
       \/ MayRaise
    /\ UNCHANGED <<inputs, records, worktree, output>>

Patched(paths) ==
    [p \in DOMAIN worktree |->
        IF p \in paths THEN proposal.new ELSE worktree[p]]

\* git apply --check --whitespace=error, then git apply, which may fail or be
\* killed by its time-out when it has written some of the files
ApplyPatch ==
    /\ pc = "apply" /\ driver = "S3"
    /\ IF proposal.fits /\ "blank" \notin Range(proposal.new)
       THEN \/ worktree' = Patched(proposal.paths) /\ Goes("validate")
            \/ /\ \E some \in SUBSET proposal.paths : worktree' = Patched(some)
               /\ MayRaise
       ELSE Raises /\ UNCHANGED worktree
    /\ UNCHANGED <<inputs, records, output>>

\* apply_exact_text_edit() counts again, in the file of the worktree; reading
\* it may fail, and so may writing it, which has truncated it by then
ApplyEdit ==
    /\ pc = "apply" /\ driver # "S3"
    /\ LET current == worktree[proposal.path]
           edited == Replaced(current, proposal.old, proposal.new)
           Holds(text) == worktree' = [worktree EXCEPT ![proposal.path] = text]
       IN \/ MayRaise /\ UNCHANGED worktree
          \/ ~OccursOnce(current, proposal.old) /\ Raises /\ UNCHANGED worktree
          \/ /\ OccursOnce(current, proposal.old)
             /\ \/ Holds(edited) /\ Goes("validate")
                \/ /\ \E n \in 0 .. Len(edited) : Holds(SubSeq(edited, 1, n))
                   /\ MayRaise
    /\ UNCHANGED <<inputs, records, output>>

-----------------------------------------------------------------------------
\* The evidence

\* S3 runs the profile the model asked for, S4 and S5 run both
ToRun == IF driver = "S3" THEN <<proposal.profile>>
         ELSE <<"git-diff-check", "python-unittest">>

Validate ==
    /\ pc = "validate"
    /\ LET done == Cardinality(DOMAIN validation)
           profile == ToRun[done + 1]
       IN \/ \E exit \in ExitCodes(profile, worktree) :
               /\ validation' =
                    [q \in DOMAIN validation \cup {profile} |->
                        IF q = profile THEN exit ELSE validation[q]]
               /\ Goes(IF done + 1 = Len(ToRun) THEN "payload" ELSE pc)
          \/ RunRaises /\ UNCHANGED validation
    /\ UNCHANGED <<inputs, worktree, proposal, baseline, output>>

Passed ==
    /\ baseline \notin {"none", "ok"}
    /\ DOMAIN validation # {}
    /\ \A p \in DOMAIN validation : validation[p] = "ok"

\* S3 takes the model's name from the response, which it may not have
LacksResponse == driver = "S3" /\ proposal = NoProposal

\* the end of main(), outside the handler: writing the artifact may fail too
Payload ==
    /\ pc = "payload"
    /\ \/ ~LacksResponse /\ output' = IF Passed THEN "pass" ELSE "fail"
       \/ LacksResponse /\ output' = "none"
       \/ "raise" \in Faults /\ output' \in {"none", "torn"}
    /\ pc' = "done"
    /\ UNCHANGED <<inputs, records, worktree, error>>

Next ==
    \/ Baseline
    \/ Request
    \/ PrepareCandidate
    \/ ApplyPatch
    \/ ApplyEdit
    \/ Validate
    \/ Payload

Spec == Init /\ [][Next]_vars

-----------------------------------------------------------------------------
TypeOK ==
    /\ driver \in Drivers /\ task \in DOMAIN Files
    /\ pc \in {"baseline", "request", "worktree", "apply", "validate",
               "payload", "done"}
    /\ DOMAIN worktree = DOMAIN Files[task]
    /\ baseline \in {"none", "ok", "failed", "expired"}
    /\ DOMAIN validation \subseteq Profiles
    /\ error \in BOOLEAN
    /\ output \in {"none", "torn", "pass", "fail"}

Repaired ==
    /\ worktree["test"] = Supplied["test"]
    /\ \A p \in Sources(worktree) : Works(worktree[p])
    /\ \A p \in DOMAIN worktree : "blank" \notin Range(worktree[p])

(* "A model can therefore see test expectations but cannot satisfy them by *)
(* modifying a test": what S4 and S5 pass is a repair of the sources under *)
(* the tests as supplied, of files whose tests had failed or not ended.    *)
(* Two kinds of pass are no such evidence: one that comes with an error,   *)
(* from the profiles that ran before it, and one of S3 whose model chose   *)
(* git-diff-check or patched the test.                                     *)
PassIsARepair ==
    output = "pass" =>
        /\ \/ baseline = "expired"
           \/ Exit("python-unittest", Supplied) = "failed"
        /\ \/ Repaired
           \/ error
           \/ driver = "S3" /\ (\/ "python-unittest" \notin DOMAIN validation
                                \/ "test" \in proposal.paths)

(* A proposal is validated against the texts the driver holds and applied  *)
(* to files that git checked out (swarm/edit.py:38 and 49): the second     *)
(* count never refuses what the first has accepted, and what the profiles  *)
(* then judge is what was supplied with a change in the file of the edit,  *)
(* and in no other.  A file that cannot be read or written, or was cut off *)
(* at its write, is never judged.                                          *)
ValidEditApplies ==
    driver # "S3" =>
        /\ pc = "apply" => OccursOnce(worktree[proposal.path], proposal.old)
        /\ pc = "validate" \/ DOMAIN validation # {} =>
              \A p \in DOMAIN worktree :
                 worktree[p] # Supplied[p] <=> p = proposal.path

(* The payload is written after any exception, from what there is by then  *)
(* (swarm_s5_text_edit_corpus.py:108).  One that names no error is whole   *)
(* all the same: the baseline and every profile of the driver are in it,   *)
(* whichever step failed in other runs.  And its "failed" is the           *)
(* candidate's: no repair that was tried on failing tests is failed,       *)
(* unless a profile ran out of time.  S3 alone goes on without a failing   *)
(* baseline.                                                               *)
VerdictIsComplete ==
    output \in {"pass", "fail"} /\ ~error =>
        /\ baseline # "none"
        /\ DOMAIN validation = Range(ToRun)
        /\ output = "fail" =>
              \/ ~Repaired
              \/ "expired" \in Range(validation)
              \/ driver = "S3" /\ baseline = "ok"
=============================================================================
