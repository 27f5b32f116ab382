--------------------------- MODULE AttemptLedger ---------------------------
(***************************************************************************)
(* What swarm/store.py promises its callers, with no processes and no call *)
(* that reads first and writes later: a ledger of attempts to which rows   *)
(* are only added, and a status of each branch that follows from it.  As   *)
(* long as no two processes have met on a branch, an attempt is made only  *)
(* on an open branch, it is the last one, and a verdict stays.  After that *)
(* no row is lost, changed or closed twice all the same, and a promotion   *)
(* has its passing attempt.                                                *)
(***************************************************************************)
EXTENDS Sequences, Naturals

CONSTANTS Branches,
          Records,   \* the evidence an attempt can have
          AllPassed  \* what it has when every check was made and passed

VARIABLES status, \* of each branch
          ledger, \* the attempts of each branch, in order
          alone   \* no two processes have met on a branch

ledgerVars == <<status, ledger, alone>>

Init ==
    /\ status = [b \in Branches |-> "absent"]
    /\ ledger = [b \in Branches |-> <<>>]
    /\ alone = TRUE

IsOpen(b) == status[b] \in {"queued", "running", "evaluating"}

\* the attempt that is made: an open one, and the last while all is in order
IsMade(b, i) ==
    /\ ledger[b][i].status = "created"
    /\ alone => i = Len(ledger[b]) /\ status[b] = "running"

Create(b) ==
    /\ status[b] = "absent"
    /\ status' = [status EXCEPT ![b] = "queued"]
    /\ UNCHANGED <<ledger, alone>>

Begin(b) ==
    /\ status[b] # "absent"
    /\ alone => IsOpen(b)
    /\ ledger' = [ledger EXCEPT ![b] =
          Append(@, [status |-> "created", evidence |-> {}])]
    /\ status' = [status EXCEPT ![b] = "running"]
    /\ UNCHANGED alone

Note(b, i, record) ==
    /\ IsMade(b, i)
    /\ ledger' = [ledger EXCEPT ![b][i].evidence = @ \cup {record}]
    /\ UNCHANGED <<status, alone>>

\* an attempt passes with all its evidence only
Close(b, i, passes) ==
    /\ IsMade(b, i)
    /\ passes => ledger[b][i].evidence = AllPassed
    /\ ledger' = [ledger EXCEPT ![b][i].status =
          IF passes THEN "completed" ELSE "failed"]
    /\ status' = [status EXCEPT ![b] = IF passes THEN "evaluating" ELSE "pruned"]
    /\ UNCHANGED alone

Promote(b) ==
    /\ alone => status[b] = "evaluating"
    /\ \E i \in DOMAIN ledger[b] :
          ledger[b][i] = [status |-> "completed", evidence |-> AllPassed]
    /\ status' = [status EXCEPT ![b] = "promoted"]
    /\ UNCHANGED <<ledger, alone>>

\* two processes work on one branch
Meet ==
    /\ alone' = FALSE
    /\ UNCHANGED <<status, ledger>>

Next ==
    \/ Meet
    \/ \E b \in Branches :
          \/ Create(b) \/ Begin(b) \/ Promote(b)
          \/ \E i \in DOMAIN ledger[b] :
                \/ \E record \in Records : Note(b, i, record)
                \/ \E passes \in BOOLEAN : Close(b, i, passes)

Spec == Init /\ [][Next]_ledgerVars
=============================================================================
