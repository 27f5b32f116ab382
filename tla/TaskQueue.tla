----------------------------- MODULE TaskQueue -----------------------------
(***************************************************************************)
(* What the marathon promises its operator, with no lock, no files and no  *)
(* processes: the tasks are taken one by one in their order, a coding      *)
(* agent works on one at a time, only its own work decides whether it      *)
(* passes, and a task counts as done when it has passed.  Marathon         *)
(* implements it with controllers that are started and killed at any time. *)
(***************************************************************************)
EXTENDS Sequences, Naturals

CONSTANT TaskOrder

VARIABLES done,    \* the tasks that count as completed
          passed,  \* the tasks whose marker says pass
          working  \* the task an agent has a turn for: none or one

queueVars == <<done, passed, working>>

Init ==
    /\ done = {}
    /\ passed = {}
    /\ working = {}

\* t is not done, and there is a place in the order up to which all are
IsNext(t) ==
    /\ t \notin done
    /\ \E i \in 1 .. Len(TaskOrder) :
          /\ TaskOrder[i] = t
          /\ \A j \in 1 .. i - 1 : TaskOrder[j] \in done

\* a turn starts alone, and for a task that has not passed
Begin(t) ==
    /\ working = {}
    /\ IsNext(t)
    /\ t \notin passed
    /\ working' = {t}
    /\ UNCHANGED <<done, passed>>

\* the agent says of its task that it passes, or that it does not
Judge(t) ==
    /\ t \in working
    /\ passed' \in {passed \cup {t}, passed \ {t}}
    /\ UNCHANGED <<done, working>>

\* the turn is over: at its deadline, or with its controller
Drop ==
    /\ working' = {}
    /\ UNCHANGED <<done, passed>>

\* and its task is done, or one that had passed before is
Complete(t) ==
    /\ working \subseteq {t}
    /\ IsNext(t)
    /\ t \in passed
    /\ done' = done \cup {t}
    /\ working' = {}
    /\ UNCHANGED passed

Next ==
    \/ Drop
    \/ \E i \in 1 .. Len(TaskOrder) :
          Begin(TaskOrder[i]) \/ Judge(TaskOrder[i]) \/ Complete(TaskOrder[i])

Spec == Init /\ [][Next]_queueVars
=============================================================================
