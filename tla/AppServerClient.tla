-------------------------- MODULE AppServerClient --------------------------
(***************************************************************************)
(* class AppServer of scripts/codex_marathon.py: host-run starts the Codex *)
(* app-server as a child, asks it one thing after the other over a pipe,   *)
(* starts a turn and waits for its end.  select() looks at the pipe, but   *)
(* readline() takes a whole chunk out of it and keeps what it does not     *)
(* return; and it waits for the rest of a line that has begun, however     *)
(* long that takes.  Module Marathon has these calls as one step each.     *)
(***************************************************************************)
EXTENDS Naturals, Sequences

CONSTANTS Faults,    \* the faults of FaultKinds that may happen
          PipeRoom   \* messages the pipe takes before the server waits

\* the server refuses a call, ends, falls silent, or sends no turn/completed
FaultKinds == {"error", "exit", "silence", "mute"}

ASSUME FaultsAssumption == Faults \subseteq FaultKinds
ASSUME PipeAssumption == PipeRoom \in Nat \ {0}

VARIABLES pc,       \* where the client is
          call,     \* the method of its last request
          buf,      \* messages in the text reader's buffer
          late,     \* the deadline of wait_for_turn has passed
          outcome,  \* how host-run's use of the server ended
          server,   \* the child process
          asked,    \* the request the server has not answered
          pipe,     \* messages in the operating system's pipe
          turn      \* the turn, as the server knows it

client == <<pc, call, buf, late, outcome>>
vars == <<pc, call, buf, late, outcome, server, asked, pipe, turn>>

\* the requests up to the turn, in host-run's order
Calls == <<"initialize", "rateLimits", "thread", "settings", "goal", "turn">>

Following(m) == LET i == CHOOSE n \in DOMAIN Calls : Calls[n] = m
                IN Calls[i + 1]

Message(kind, status) == [kind |-> kind, turn |-> status]

Init ==
    /\ pc = "send"
    /\ call = "initialize"
    /\ buf = <<>>
    /\ late = FALSE
    /\ outcome = "none"
    /\ server = "up"
    /\ asked = "nothing"
    /\ pipe = <<>>
    /\ turn = "none"

-----------------------------------------------------------------------------
\* The client

\* an error leaves through host-run's finally, which closes the server; the
\* constructor's own error does not, because nothing is assigned yet
Fails(o) ==
    /\ outcome' = o
    /\ pc' = IF call = "initialize" THEN "done" ELSE "close"
    /\ UNCHANGED <<call, late>>

Returns ==
    /\ outcome' = "turn"
    /\ pc' = "close"
    /\ UNCHANGED <<call, late>>

Goes(place, method) ==
    /\ pc' = place
    /\ call' = method
    /\ UNCHANGED <<late, outcome>>

\* the line that readline is about to return
Line == Head(buf \o pipe)

\* _read(): select finds the pipe ready, with data or at its end; readline
\* returns the first line it has and fetches a chunk only if it has none.
\* The beginning of a line is no line until the output has ended: readline
\* stays in its call for the rest, without a deadline
Gets ==
    /\ buf \o pipe # <<>>
    /\ Line.kind = "part" => server = "gone"
    /\ \/ /\ buf # <<>>
          /\ pipe # <<>> \/ server = "gone"
          /\ buf' = Tail(buf)
          /\ UNCHANGED pipe
       \/ /\ buf = <<>>
          /\ \E n \in 1..Len(pipe) :
               /\ buf' = SubSeq(pipe, 2, n)
               /\ pipe' = SubSeq(pipe, n + 1, Len(pipe))

\* _read(): the window passes with nothing in the pipe
Quiet == pipe = <<>> /\ server # "gone" /\ UNCHANGED <<buf, pipe>>

\* _read(): the end of the output
AtEnd ==
    /\ pipe = <<>> /\ buf = <<>>
    /\ server = "gone"
    /\ UNCHANGED <<buf, pipe>>

\* _request() up to its flush; a server that is gone breaks the pipe
Send ==
    /\ pc = "send"
    /\ IF server = "gone"
       THEN Fails("error") /\ UNCHANGED asked
       ELSE Goes("await", call) /\ asked' = call
    /\ UNCHANGED <<buf, pipe, server, turn>>

\* faulty variant: any turn in the list is taken for one that is over
ListedAnyhow(status) == Returns

\* the answer of thread/turns/list
Listed(status) ==
    IF status = "running" THEN Goes("turn", call) ELSE Returns

\* _request(): everything but its own answer is dropped; what is no JSON
\* raises
AwaitReads ==
    /\ pc = "await"
    /\ Gets
    /\ \/ Line.kind \in {"error", "part"} /\ Fails("error")
       \/ /\ Line.kind = "reply"
          /\ IF call = "list" THEN Listed(Line.turn)
             ELSE IF call = "turn" THEN Goes("turn", call)
             ELSE Goes("send", Following(call))
       \/ Line.kind \in {"note", "completed"} /\ Goes("await", call)
    /\ UNCHANGED <<server, asked, turn>>

AwaitTimesOut ==
    /\ pc = "await"
    /\ Quiet
    /\ Fails("timeout")
    /\ UNCHANGED <<server, asked, turn>>

\* faulty variant: the loop has no deadline
CheckNothing ==
    /\ pc = "turn"
    /\ Goes("listen", call)
    /\ UNCHANGED <<buf, pipe, server, asked, turn>>

\* the head of wait_for_turn's loop
CheckDeadline ==
    /\ pc = "turn"
    /\ IF late THEN Fails("timeout") ELSE Goes("listen", call)
    /\ UNCHANGED <<buf, pipe, server, asked, turn>>

ListenReads ==
    /\ pc = "listen"
    /\ Gets
    /\ \/ Line.kind = "completed" /\ Returns
       \/ Line.kind = "part" /\ Fails("error")
       \/ Line.kind \notin {"completed", "part"} /\ Goes("turn", call)
    /\ UNCHANGED <<server, asked, turn>>

\* faulty variant: silence ends the wait, as it does in _request()
ListenGivesUp ==
    /\ pc = "listen"
    /\ Quiet
    /\ Fails("timeout")
    /\ UNCHANGED <<server, asked, turn>>

\* ten quiet seconds: the turn list is asked for
ListenTimesOut ==
    /\ pc = "listen"
    /\ Quiet
    /\ Goes("send", "list")
    /\ UNCHANGED <<server, asked, turn>>

ReadsEnd ==
    /\ pc \in {"await", "listen"}
    /\ AtEnd
    /\ Fails("error")
    /\ UNCHANGED <<server, asked, turn>>

\* close(): SIGTERM, unless the server has ended
Close ==
    /\ pc = "close"
    /\ pc' = IF server = "gone" THEN "done" ELSE "closing"
    /\ UNCHANGED <<call, buf, late, outcome, server, asked, pipe, turn>>

\* the turn is over for a server that ends
Ended == IF turn = "running" THEN "killed" ELSE turn

Obeys ==
    /\ pc = "closing"
    /\ server' = "gone"
    /\ turn' = Ended
    /\ pc' = "done"
    /\ UNCHANGED <<call, buf, late, outcome, asked, pipe>>

\* faulty variant: a server that outlasts the five seconds is left alone
KillForgotten ==
    /\ pc = "closing"
    /\ pc' = "done"
    /\ UNCHANGED <<call, buf, late, outcome, server, asked, pipe, turn>>

\* close(): it has not ended in five seconds
Kill ==
    /\ pc = "closing"
    /\ server = "silent"
    /\ server' = "gone"
    /\ turn' = Ended
    /\ pc' = "done"
    /\ UNCHANGED <<call, buf, late, outcome, asked, pipe>>

Clock ==
    /\ ~late
    /\ \/ pc \in {"turn", "listen"}
       \/ call = "list" /\ pc \in {"send", "await"}
    /\ late' = TRUE
    /\ UNCHANGED <<pc, call, buf, outcome, server, asked, pipe, turn>>

-----------------------------------------------------------------------------
\* The server

Writes(m) == Len(pipe) < PipeRoom /\ pipe' = Append(pipe, m)

Reply ==
    /\ server = "up"
    /\ asked # "nothing"
    /\ LET now == IF asked = "turn" THEN "running" ELSE turn IN
       \/ Writes(Message("reply", now)) /\ turn' = now
       \/ "error" \in Faults /\ Writes(Message("error", turn)) /\ UNCHANGED turn
    /\ asked' = "nothing"
    /\ UNCHANGED <<client, server>>

\* progress of the turn, other notifications
Notify ==
    /\ server = "up"
    /\ Writes(Message("note", turn))
    /\ UNCHANGED <<client, server, asked, turn>>

TurnEnds ==
    /\ server = "up"
    /\ turn = "running"
    /\ turn' = "ended"
    /\ \/ Writes(Message("completed", "ended"))
       \/ "mute" \in Faults /\ UNCHANGED pipe
    /\ UNCHANGED <<client, server, asked>>

\* it crashes, or says no more: a deadlock, or a full stderr pipe that the
\* client never reads.  Either may cut a message that it was writing: a
\* message whose rest comes later is one that comes later
Falls ==
    /\ server = "up"
    /\ pc \notin {"close", "closing", "done"}
    /\ \/ "exit" \in Faults /\ server' = "gone"
       \/ "silence" \in Faults /\ server' = "silent"
    /\ Writes(Message("part", turn)) \/ UNCHANGED pipe
    /\ turn' = IF server' = "gone" /\ turn = "running" THEN "lost" ELSE turn
    /\ UNCHANGED <<client, asked>>

ClientStep ==
    \/ Send
    \/ AwaitReads
    \/ AwaitTimesOut
    \/ CheckDeadline
    \/ ListenReads
    \/ ListenTimesOut
    \/ ReadsEnd
    \/ Close
    \/ Kill

Next ==
    \/ ClientStep
    \/ Obeys
    \/ Clock
    \/ Reply
    \/ Notify
    \/ TurnEnds
    \/ Falls

\* time passes, the client runs, and a server that is not silent answers and
\* obeys SIGTERM
Fairness ==
    /\ WF_vars(ClientStep)
    /\ WF_vars(Obeys)
    /\ WF_vars(Clock)
    /\ SF_vars(Reply)

Spec == Init /\ [][Next]_vars /\ Fairness

-----------------------------------------------------------------------------
TypeOK ==
    /\ pc \in {"send", "await", "turn", "listen", "close", "closing", "done"}
    /\ call \in {Calls[i] : i \in DOMAIN Calls} \union {"list"}
    /\ late \in BOOLEAN
    /\ outcome \in {"none", "turn", "timeout", "error"}
    /\ server \in {"up", "silent", "gone"}
    /\ Len(pipe) <= PipeRoom /\ Len(buf) < PipeRoom
    /\ turn \in {"none", "running", "ended", "killed", "lost"}

(* host-run reads the acceptance marker when wait_for_turn has returned:   *)
(* by then the turn is over, whether a notification or the turn list said  *)
(* so, and whichever of the two was overtaken by the other.                *)
ReturnedTurnIsOver == outcome = "turn" => turn = "ended"

GivesUp == outcome = "none" /\ outcome' \in {"timeout", "error"}

(* "Poll the authoritative turn list ... instead of killing valid work":   *)
(* host-run gives up a turn that is in progress, or over, only after its   *)
(* deadline, after a refused call or the server's end, or when the list    *)
(* was not answered in time -- or when the answer had come in one chunk    *)
(* with another message and sat in the reader's buffer, where select()     *)
(* does not see it.                                                        *)
ValidWorkIsKept ==
    [][ GivesUp /\ turn \in {"running", "ended"} =>
          \/ late
          \/ outcome' = "error"
          \/ asked = call
          \/ \E i \in DOMAIN buf : buf[i].kind \in {"reply", "error"} ]_vars

(* However host-run leaves, its app-server is gone: one that is silent is  *)
(* killed.  The exception is a constructor whose first call failed: nobody *)
(* has the object yet to close it.                                         *)
ServerIsClosed == pc = "done" /\ call # "initialize" => server = "gone"

(* Seen from host-run all this is the three steps that Marathon has for    *)
(* it: a turn starts, host-run is told that it is over or gives it up, and *)
(* when host-run has left no turn runs or starts any more, whatever was in *)
(* the pipe or in the buffer and whichever of the two ended first.         *)
Call == INSTANCE TurnCall WITH
    inside <- pc # "done",
    told   <- IF outcome = "none" THEN "nothing"
              ELSE IF outcome = "turn" THEN "over" ELSE "failure",
    work   <- IF turn \in {"killed", "lost"} THEN "dropped" ELSE turn

ImplementsCall == Call!Spec

\* readline has the beginning of a line from a server that says no more
StuckInReadline ==
    /\ pc \in {"await", "listen"}
    /\ buf = <<>> /\ pipe # <<>> /\ Head(pipe).kind = "part"
    /\ server = "silent"

(* The wait for a turn ends: with a server that crashed, that never tells  *)
(* that the turn is over, or that fell silent between two messages, by its *)
(* deadline at the latest.  Two servers can hold it past every deadline:   *)
(* one that fell silent within a message, because readline has none, and   *)
(* one that goes on notifying and never answers the turn list, because     *)
(* _request() gives every message a second more.  The first is named here, *)
(* the second is ruled out by the fairness of Reply.                       *)
WaitEnds == pc = "turn" ~> pc = "done" \/ StuckInReadline
=============================================================================
