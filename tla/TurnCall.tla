------------------------------ MODULE TurnCall ------------------------------
(***************************************************************************)
(* What module Marathon takes the app-server for: host-run asks for a turn *)
(* and is told that it is over, or gives it up; when host-run has left,    *)
(* nothing works on its task any more.  There is no pipe, no buffer, no    *)
(* deadline and no process.  AppServerClient implements it.                *)
(***************************************************************************)

VARIABLES inside,  \* host-run has an app-server
          told,    \* what it knows of its turn: that it is "over", or that
                   \* it gave up ("failure")
          work     \* the turn itself

callVars == <<inside, told, work>>

Init ==
    /\ inside = TRUE
    /\ told = "nothing"
    /\ work = "none"

\* Marathon's StartTurn; host-run may have given up waiting for its answer
StartTurn ==
    /\ inside
    /\ work = "none"
    /\ work' = "running"
    /\ UNCHANGED <<inside, told>>

\* Marathon's AgentEnds, and the loss of a turn with its server
TurnStops ==
    /\ inside
    /\ work = "running"
    /\ work' \in {"ended", "dropped"}
    /\ UNCHANGED <<inside, told>>

\* Marathon's TurnCompletes
Completes ==
    /\ inside
    /\ told = "nothing"
    /\ work = "ended"
    /\ told' = "over"
    /\ UNCHANGED <<inside, work>>

\* QuotaRefused, TurnRefused and WaitExpires, up to the finally clause
GivesUp ==
    /\ inside
    /\ told = "nothing"
    /\ told' = "failure"
    /\ UNCHANGED <<inside, work>>

\* the app-server did not come up: host-run never had one
NeverBegins ==
    /\ inside
    /\ told = "nothing"
    /\ work = "none"
    /\ told' = "failure"
    /\ inside' = FALSE
    /\ UNCHANGED work

\* the finally clause: a turn that is still running ends with its server
Leaves ==
    /\ inside
    /\ told # "nothing"
    /\ inside' = FALSE
    /\ work' = IF work = "running" THEN "dropped" ELSE work
    /\ UNCHANGED told

Next ==
    \/ StartTurn
    \/ TurnStops
    \/ Completes
    \/ GivesUp
    \/ NeverBegins
    \/ Leaves

Spec == Init /\ [][Next]_callVars
=============================================================================
