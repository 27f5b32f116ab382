----------------------- MODULE AppServerClientProofs -----------------------
(***************************************************************************)
(* Proofs about AppServerClient for every set of faults and every room of  *)
(* the pipe.  The argument looks at the messages under way: what sits in   *)
(* the reader's buffer followed by what sits in the pipe.  Reading takes   *)
(* the first of them, whichever of the two it comes from (GetsFirst).      *)
(* While the client awaits an answer, either the server still owes it or   *)
(* exactly one answer is under way (AnswerInv), and a message that calls   *)
(* the turn ended tells the truth for ever (TruthInv).                     *)
(***************************************************************************)
EXTENDS AppServerClient, TLAPS

Names == {"initialize", "rateLimits", "thread", "settings", "goal", "turn",
          "list"}
TurnStates == {"none", "running", "ended", "killed", "lost"}
Messages == [kind: {"reply", "error", "note", "completed", "part"},
             turn: TurnStates]

UnderWay == buf \o pipe

IsAnswer(m) == m.kind \in {"reply", "error"}
Answers == {i \in DOMAIN UnderWay : IsAnswer(UnderWay[i])}

MessagesInv ==
    /\ TypeOK
    /\ pipe \in Seq(Messages) /\ buf \in Seq(Messages)
    /\ call \in Names /\ asked \in Names \union {"nothing"}

\* what is owed to the client
AnswerInv ==
    /\ pc \in {"send", "turn", "listen"} => asked = "nothing" /\ Answers = {}
    /\ pc = "await" =>
          \/ asked = call /\ Answers = {}
          \/ asked = "nothing" /\ \E i \in DOMAIN UnderWay : Answers = {i}

\* what a message says of the turn
Truthful(m) ==
    /\ m.kind = "completed" => m.turn = "ended"
    /\ m.turn = "ended" => turn = "ended"
    /\ m.turn = "running" => turn # "none"

TruthInv ==
    /\ \A i \in DOMAIN UnderWay : Truthful(UnderWay[i])
    /\ pc = "await" /\ call \in {"turn", "list"} =>
          \A i \in DOMAIN UnderWay :
             UnderWay[i].kind = "reply" =>
                UnderWay[i].turn \in {"running", "ended"}

TurnInv ==
    /\ turn \in {"killed", "lost"} => server = "gone"
    /\ pc \in {"turn", "listen"} \/ call = "list" => turn # "none"
    /\ (pc = "send" /\ call = "turn") \/ call \notin {"turn", "list"} =>
          turn = "none"
    /\ asked = "turn" => call = "turn" /\ turn = "none"

ClientInv ==
    /\ MessagesInv
    /\ AnswerInv
    /\ TruthInv
    /\ TurnInv
    /\ ReturnedTurnIsOver
    /\ ServerIsClosed

-----------------------------------------------------------------------------
LEMMA CallNames ==
    /\ Calls[1] = "initialize" /\ Calls[2] = "rateLimits"
    /\ Calls[3] = "thread" /\ Calls[4] = "settings" /\ Calls[5] = "goal"
    /\ Calls[6] = "turn" /\ Len(Calls) = 6 /\ DOMAIN Calls = 1 .. 6
    /\ {Calls[i] : i \in DOMAIN Calls} \union {"list"} = Names
<1>1. /\ Calls[1] = "initialize" /\ Calls[2] = "rateLimits"
      /\ Calls[3] = "thread" /\ Calls[4] = "settings" /\ Calls[5] = "goal"
      /\ Calls[6] = "turn" /\ Len(Calls) = 6 /\ DOMAIN Calls = 1 .. 6
  BY DEF Calls
<1>2. 1 .. 6 = {1, 2, 3, 4, 5, 6}
  OBVIOUS
<1>3. {Calls[i] : i \in {1, 2, 3, 4, 5, 6}} =
         {"initialize", "rateLimits", "thread", "settings", "goal", "turn"}
  BY <1>1
<1> QED
  BY <1>1, <1>2, <1>3 DEF Names

\* Every request but the last is followed by another one.
LEMMA FollowingName ==
    ASSUME NEW m \in Names \ {"turn", "list"}
    PROVE  Following(m) \in Names \ {"initialize", "list"}
<1>1. \E n \in 1 .. 5 : Calls[n] = m
  BY CallNames DEF Names
<1>2. PICK i \in DOMAIN Calls :
         Calls[i] = m /\ Following(m) = Calls[i + 1]
  BY <1>1, CallNames DEF Following
<1>3. i \in {1, 2, 3, 4, 5, 6}
  BY <1>2, CallNames
<1> QED
  BY <1>2, <1>3, CallNames DEF Names

\* s is what all has from place k + 1 on, as far as s goes.
Slice(s, all, k) == \A i \in 1 .. Len(s) : s[i] = all[i + k]

LEMMA ConcatLen ==
    ASSUME NEW b \in Seq(Messages), NEW p \in Seq(Messages)
    PROVE  /\ Len(b \o p) = Len(b) + Len(p)
           /\ Len(b) \in Nat /\ Len(p) \in Nat
           /\ \A i \in 1 .. Len(b) : (b \o p)[i] = b[i]
           /\ \A i \in 1 .. Len(p) : (b \o p)[i + Len(b)] = p[i]
OBVIOUS

\* A chunk without its first message, followed by what it left in the pipe.
LEMMA ConcatParts ==
    ASSUME NEW all \in Seq(Messages), NEW n \in 1 .. Len(all),
           NEW b \in Seq(Messages), Len(b) = n - 1, Slice(b, all, 1),
           NEW p \in Seq(Messages), Len(p) = Len(all) - n, Slice(p, all, n)
    PROVE  Len(b \o p) = Len(all) - 1 /\ Slice(b \o p, all, 1)
<1>1. Len(all) \in Nat
  OBVIOUS
<1>2. Len(b \o p) = Len(all) - 1
  <2>1. Len(b \o p) = Len(b) + Len(p)
    BY ConcatLen
  <2>2. \A x \in Nat : (n - 1) + (x - n) = x - 1
    OBVIOUS
  <2> QED
    BY <1>1, <2>1, <2>2
<1>3. ASSUME NEW i \in 1 .. Len(all) - 1 PROVE (b \o p)[i] = all[i + 1]
  <2>1. CASE i <= n - 1
    <3>1. i \in 1 .. Len(b)
      BY <2>1
    <3> QED
      BY <3>1, ConcatLen DEF Slice
  <2>2. CASE i > n - 1
    <3> DEFINE j == i - Len(b)
    <3>1. j \in 1 .. Len(p) /\ j + Len(b) = i /\ j + n = i + 1
      BY <1>1, <2>2
    <3> HIDE DEF j
    <3>2. (b \o p)[i] = p[j]
      BY <3>1, ConcatLen
    <3>3. p[j] = all[j + n]
      BY <3>1 DEF Slice
    <3> QED
      BY <3>1, <3>2, <3>3
  <2> QED
    BY <1>1, <2>1, <2>2
<1> QED
  BY <1>2, <1>3 DEF Slice

\* A read takes the first message under way.
LEMMA GetsFirst ==
    ASSUME MessagesInv, Gets
    PROVE  /\ pipe' \in Seq(Messages) /\ buf' \in Seq(Messages)
           /\ Len(pipe') <= PipeRoom /\ Len(buf') < PipeRoom
           /\ Len(UnderWay) \in Nat \ {0} /\ Line = UnderWay[1]
           /\ Len(UnderWay') = Len(UnderWay) - 1
           /\ \A i \in 1 .. Len(UnderWay') : UnderWay'[i] = UnderWay[i + 1]
<1> PipeRoom \in Nat \ {0} /\ Len(pipe) <= PipeRoom /\ Len(buf) < PipeRoom
  BY PipeAssumption DEF MessagesInv, TypeOK
<1> pipe \in Seq(Messages) /\ buf \in Seq(Messages)
  BY DEF MessagesInv
<1>1. CASE buf # <<>> /\ buf' = Tail(buf) /\ pipe' = pipe
  BY <1>1 DEF UnderWay, Line
<1>2. CASE /\ buf = <<>>
           /\ \E n \in 1..Len(pipe) :
                 /\ buf' = SubSeq(pipe, 2, n)
                 /\ pipe' = SubSeq(pipe, n + 1, Len(pipe))
  <2>1. PICK n \in 1..Len(pipe) : /\ buf' = SubSeq(pipe, 2, n)
                                  /\ pipe' = SubSeq(pipe, n + 1, Len(pipe))
    BY <1>2
  <2>2. /\ buf' \in Seq(Messages) /\ Len(buf') = n - 1
        /\ Slice(buf', pipe, 1)
    BY <2>1 DEF Slice
  <2>3. /\ pipe' \in Seq(Messages) /\ Len(pipe') = Len(pipe) - n
        /\ Slice(pipe', pipe, n)
    BY <2>1 DEF Slice
  <2>4. /\ Len(UnderWay) = Len(pipe)
        /\ \A i \in 1 .. Len(pipe) : UnderWay[i] = pipe[i]
        /\ Line = pipe[1] /\ 1 \in 1 .. Len(pipe)
    BY <1>2 DEF UnderWay, Line
  <2>7. Len(UnderWay') = Len(pipe) - 1 /\ Slice(UnderWay', pipe, 1)
    <3>1. PICK b \in Seq(Messages) : b = buf'
      BY <2>2
    <3>2. PICK p \in Seq(Messages) : p = pipe'
      BY <2>3
    <3>3. PICK all \in Seq(Messages) : all = pipe
      OBVIOUS
    <3>4. /\ n \in 1 .. Len(all)
          /\ Len(b) = n - 1 /\ Slice(b, all, 1)
          /\ Len(p) = Len(all) - n /\ Slice(p, all, n)
      BY <2>2, <2>3, <3>1, <3>2, <3>3
    <3>5. Len(b \o p) = Len(all) - 1 /\ Slice(b \o p, all, 1)
      BY <3>4, ConcatParts, Zenon
    <3> QED
      BY <3>1, <3>2, <3>3, <3>5 DEF UnderWay
  <2>9. Len(buf') < PipeRoom /\ Len(pipe') <= PipeRoom
    BY <2>2, <2>3
  <2> QED
    BY <2>2, <2>3, <2>4, <2>7, <2>9 DEF Slice
<1> QED
  BY <1>1, <1>2 DEF Gets

\* The server's messages go to the end.
LEMMA WritesLast ==
    ASSUME MessagesInv, NEW m \in Messages, Writes(m), UNCHANGED buf
    PROVE  /\ pipe' \in Seq(Messages) /\ Len(pipe') <= PipeRoom
           /\ Len(UnderWay) \in Nat
           /\ Len(UnderWay') = Len(UnderWay) + 1
           /\ UnderWay'[Len(UnderWay) + 1] = m
           /\ \A i \in 1 .. Len(UnderWay) : UnderWay'[i] = UnderWay[i]
<1> PipeRoom \in Nat \ {0} /\ Len(pipe) <= PipeRoom
  BY PipeAssumption DEF MessagesInv, TypeOK
<1> pipe \in Seq(Messages) /\ buf \in Seq(Messages)
  BY DEF MessagesInv
<1>1. pipe' = Append(pipe, m) /\ Len(pipe) < PipeRoom
  BY DEF Writes
<1> QED
  BY <1>1 DEF UnderWay

LEMMA UnderWayType ==
    ASSUME MessagesInv
    PROVE  /\ UnderWay \in Seq(Messages) /\ DOMAIN UnderWay = 1 .. Len(UnderWay)
           /\ Len(UnderWay) \in Nat
BY DEF MessagesInv, UnderWay

-----------------------------------------------------------------------------
\* The answers under way before and after a read, and after a write.
LEMMA AnswersRead ==
    ASSUME MessagesInv, Gets
    PROVE  /\ Answers = {} => ~IsAnswer(Line) /\ Answers' = {}
           /\ \A i \in DOMAIN UnderWay : Answers = {i} =>
                 IF IsAnswer(Line) THEN Answers' = {}
                 ELSE \E j \in DOMAIN UnderWay' : Answers' = {j}
<1> DEFINE Q == UnderWay
           R == UnderWay'
<1>1. /\ DOMAIN Q = 1 .. Len(Q) /\ DOMAIN R = 1 .. Len(R)
      /\ Len(Q) \in Nat \ {0} /\ Len(R) = Len(Q) - 1 /\ Line = Q[1]
      /\ \A i \in 1 .. Len(R) : R[i] = Q[i + 1]
  <2>1. /\ DOMAIN Q = 1 .. Len(Q)
        /\ Len(Q) \in Nat \ {0} /\ Len(R) = Len(Q) - 1 /\ Line = Q[1]
        /\ \A i \in 1 .. Len(R) : R[i] = Q[i + 1]
    BY GetsFirst, UnderWayType
  <2>2. DOMAIN R = 1 .. Len(R)
    BY GetsFirst DEF UnderWay
  <2> QED
    BY <2>1, <2>2
<1>2. /\ Answers = {i \in DOMAIN Q : IsAnswer(Q[i])}
      /\ Answers' = {i \in DOMAIN R : IsAnswer(R[i])}
  BY DEF Answers, IsAnswer
<1> HIDE DEF Q, R
<1>3. \A j \in 1 .. Len(R) : j \in Answers' <=> j + 1 \in Answers
  BY <1>1, <1>2
<1>4. 1 \in Answers <=> IsAnswer(Line)
  BY <1>1, <1>2
<1>5. Answers \subseteq 1 .. Len(Q) /\ Answers' \subseteq 1 .. Len(R)
  BY <1>1, <1>2
<1>6. ASSUME Answers = {} PROVE ~IsAnswer(Line) /\ Answers' = {}
  BY <1>3, <1>4, <1>5, <1>6
<1>7. ASSUME NEW i \in DOMAIN Q, Answers = {i}, IsAnswer(Line)
      PROVE  Answers' = {}
  <2>1. i = 1
    BY <1>4, <1>7
  <2>2. \A j \in 1 .. Len(R) : j + 1 # 1
    OBVIOUS
  <2> QED
    BY <1>3, <1>5, <1>7, <2>1, <2>2
<1>8. ASSUME NEW i \in DOMAIN Q, Answers = {i}, ~IsAnswer(Line)
      PROVE  \E j \in DOMAIN R : Answers' = {j}
  <2>1. i # 1 /\ i \in 1 .. Len(Q)
    BY <1>1, <1>4, <1>8
  <2>2. i - 1 \in 1 .. Len(R) /\ (i - 1) + 1 = i
    BY <1>1, <2>1
  <2>3. i - 1 \in Answers'
    BY <1>3, <1>8, <2>2
  <2>4. ASSUME NEW j \in Answers' PROVE j = i - 1
    <3>1. j \in 1 .. Len(R) /\ j + 1 = i
      BY <1>3, <1>5, <1>8, <2>4
    <3> QED
      BY <3>1
  <2> QED
    BY <1>1, <2>2, <2>3, <2>4
<1> QED
  BY <1>6, <1>7, <1>8 DEF Q, R

LEMMA AnswersWritten ==
    ASSUME MessagesInv, NEW m \in Messages, Writes(m), UNCHANGED buf
    PROVE  /\ ~IsAnswer(m) => Answers' = Answers
           /\ IsAnswer(m) /\ Answers = {} =>
                 \E j \in DOMAIN UnderWay' : Answers' = {j}
           /\ DOMAIN UnderWay \subseteq DOMAIN UnderWay'
<1> DEFINE Q == UnderWay
           R == UnderWay'
<1>1. /\ DOMAIN Q = 1 .. Len(Q) /\ DOMAIN R = 1 .. Len(R)
      /\ Len(Q) \in Nat /\ Len(R) = Len(Q) + 1 /\ R[Len(Q) + 1] = m
      /\ \A i \in 1 .. Len(Q) : R[i] = Q[i]
  <2>1. pipe' \in Seq(Messages) /\ buf' \in Seq(Messages)
    BY WritesLast DEF MessagesInv
  <2>2. R \in Seq(Messages)
    BY <2>1 DEF UnderWay
  <2>3. DOMAIN R = 1 .. Len(R)
    BY <2>2
  <2> QED
    BY <2>3, WritesLast, UnderWayType
<1>2. /\ Answers = {i \in DOMAIN Q : IsAnswer(Q[i])}
      /\ Answers' = {i \in DOMAIN R : IsAnswer(R[i])}
  BY DEF Answers, IsAnswer
<1> HIDE DEF Q, R
<1>3. 1 .. Len(R) = (1 .. Len(Q)) \union {Len(Q) + 1}
  BY <1>1
<1>4. Answers' = Answers \union (IF IsAnswer(m) THEN {Len(Q) + 1} ELSE {})
  BY <1>1, <1>2, <1>3
<1>5. Len(Q) + 1 \in DOMAIN R
  BY <1>1, <1>3
<1> QED
  BY <1>1, <1>3, <1>4, <1>5 DEF Q, R

-----------------------------------------------------------------------------
LEMMA MessagesStep == ClientInv /\ [Next]_vars => MessagesInv'
<1> SUFFICES ASSUME ClientInv, [Next]_vars PROVE MessagesInv'
  OBVIOUS
<1> MessagesInv /\ TypeOK
  BY DEF ClientInv, MessagesInv
<1> USE DEF client
<1>1. /\ call \in Names
      /\ \A c : c \in {Calls[i] : i \in DOMAIN Calls} \union {"list"}
                <=> c \in Names
  BY CallNames DEF MessagesInv
<1>2. ASSUME Fails("error") \/ Fails("timeout") \/ Returns
             \/ Goes("await", call) \/ Goes("turn", call)
             \/ Goes("listen", call) \/ Goes("send", "list")
             \/ (Goes("send", Following(call)) /\ call \notin {"turn", "list"})
      PROVE  /\ pc' \in {"send", "await", "turn", "listen", "close",
                         "closing", "done"}
             /\ call' \in Names
             /\ late' \in BOOLEAN
             /\ outcome' \in {"none", "turn", "timeout", "error"}
  <2>1. call \notin {"turn", "list"} => Following(call) \in Names
    BY <1>1, FollowingName
  <2>2. "list" \in Names
    BY DEF Names
  <2> QED
    BY <1>1, <1>2, <2>1, <2>2 DEF Fails, Returns, Goes, TypeOK
<1>3. CASE Send \/ CheckDeadline
  BY <1>1, <1>2, <1>3 DEF Send, CheckDeadline, MessagesInv, TypeOK
<1>4. CASE AwaitReads
  BY <1>1, <1>2, <1>4, GetsFirst DEF AwaitReads, Listed, MessagesInv, TypeOK
<1>5. CASE ListenReads
  BY <1>1, <1>2, <1>5, GetsFirst DEF ListenReads, MessagesInv, TypeOK
<1>6. CASE AwaitTimesOut \/ ListenTimesOut
  BY <1>1, <1>2, <1>6
     DEF AwaitTimesOut, ListenTimesOut, Quiet, MessagesInv, TypeOK
<1>7. CASE ReadsEnd
  BY <1>1, <1>2, <1>7 DEF ReadsEnd, AtEnd, MessagesInv, TypeOK
<1>8. CASE Close \/ Kill \/ Obeys \/ Clock
  BY <1>1, <1>8 DEF Close, Kill, Obeys, Clock, Ended, MessagesInv, TypeOK
<1>9. CASE Reply
  <2>1. PICK k \in {"reply", "error"}, t \in TurnStates :
           Writes(Message(k, t)) /\ turn' \in TurnStates
    BY <1>9 DEF Reply, TypeOK, TurnStates
  <2>2. Message(k, t) \in Messages
    BY DEF Message, Messages
  <2> QED
    BY <1>1, <1>9, <2>1, <2>2, WritesLast
       DEF Reply, MessagesInv, TypeOK, TurnStates
<1>10. CASE Notify
  <2>1. Message("note", turn) \in Messages
    BY DEF Message, Messages, TypeOK, TurnStates
  <2> QED
    BY <1>1, <1>10, <2>1, WritesLast DEF Notify, MessagesInv, TypeOK
<1>11. CASE TurnEnds
  <2>1. Message("completed", "ended") \in Messages
    BY DEF Message, Messages, TurnStates
  <2> QED
    BY <1>1, <1>11, <2>1, WritesLast DEF TurnEnds, MessagesInv, TypeOK
<1>12. CASE Falls
  <2>1. CASE UNCHANGED pipe
    BY <1>1, <1>12, <2>1 DEF Falls, MessagesInv, TypeOK
  <2>2. CASE Writes(Message("part", turn))
    <3>1. Message("part", turn) \in Messages
      BY DEF Message, Messages, TypeOK, TurnStates
    <3> QED
      BY <1>1, <1>12, <2>2, <3>1, WritesLast DEF Falls, MessagesInv, TypeOK
  <2> QED
    BY <1>12, <2>1, <2>2 DEF Falls
<1>13. CASE UNCHANGED vars
  BY <1>13 DEF vars, MessagesInv, TypeOK
<1> QED
  BY <1>3, <1>4, <1>5, <1>6, <1>7, <1>8, <1>9, <1>10, <1>11, <1>12, <1>13
     DEF Next, ClientStep

\* Messages that were truthful stay so as long as the turn goes forward.
Forward ==
    /\ turn = "ended" => turn' = "ended"
    /\ turn # "none" => turn' # "none"

LEMMA TurnGoesForward == ClientInv /\ [Next]_vars => Forward
<1> SUFFICES ASSUME ClientInv, [Next]_vars PROVE Forward
  OBVIOUS
<1> USE DEF Forward, client
<1>1. CASE ClientStep
  BY <1>1 DEF ClientStep, Send, AwaitReads, AwaitTimesOut, CheckDeadline,
     ListenReads, ListenTimesOut, ReadsEnd, Close, Kill, Ended
<1>2. CASE Reply
  <2>1. asked = "turn" => turn = "none"
    BY <1>2 DEF Reply, ClientInv, TurnInv
  <2> QED
    BY <1>2, <2>1 DEF Reply
<1>3. CASE Obeys \/ Clock \/ Notify \/ TurnEnds \/ Falls
  BY <1>3 DEF Obeys, Clock, Notify, TurnEnds, Falls, Ended
<1>4. CASE UNCHANGED vars
  BY <1>4 DEF vars
<1> QED
  BY <1>1, <1>2, <1>3, <1>4 DEF Next

\* A reply that follows on thread/turn/start, or on the turn list, knows the
\* turn.
LEMMA ReplyIsNews ==
    ASSUME ClientInv, pc = "await", call \in {"turn", "list"},
           Gets, Line.kind = "reply"
    PROVE  /\ Line.turn \in {"running", "ended"} /\ turn # "none"
           /\ Line.turn = "ended" => turn = "ended"
<1>1. Line = UnderWay[1] /\ 1 \in DOMAIN UnderWay
  BY GetsFirst, UnderWayType DEF ClientInv
<1> QED
  BY <1>1 DEF ClientInv, TruthInv, Truthful

\* The state of the turn and the place of the client.
LEMMA TurnStep == ClientInv /\ [Next]_vars => TurnInv'
<1> SUFFICES ASSUME ClientInv, [Next]_vars PROVE TurnInv'
  OBVIOUS
<1> MessagesInv /\ TurnInv /\ AnswerInv /\ TypeOK
  BY DEF ClientInv, MessagesInv
<1> USE DEF client
<1>1. CASE Send
  BY <1>1 DEF Send, Fails, Goes, TurnInv, AnswerInv
<1>2. CASE AwaitReads
  <2>1. CASE Line.kind \in {"error", "part"} /\ Fails("error")
    BY <1>2, <2>1 DEF AwaitReads, Fails, TurnInv
  <2>2. CASE Line.kind = "reply"
    <3>1. asked = "nothing"
      <4>1. Answers # {}
        BY <1>2, <2>2, AnswersRead DEF IsAnswer, AwaitReads
      <4> QED
        BY <1>2, <4>1 DEF AnswerInv, AwaitReads
    <3>2. CASE call = "list"
      BY <1>2, <2>2, <3>1, <3>2
         DEF AwaitReads, Listed, Goes, Returns, TurnInv
    <3>3. CASE call = "turn"
      <4>1. turn # "none"
        BY <1>2, <2>2, <3>3, ReplyIsNews DEF AwaitReads
      <4> QED
        BY <1>2, <2>2, <3>1, <3>3, <4>1 DEF AwaitReads, Goes, TurnInv
    <3>4. CASE call \notin {"turn", "list"}
      <4>1. Following(call) # "list"
        BY <3>4, FollowingName DEF MessagesInv
      <4> QED
        BY <1>2, <2>2, <3>1, <3>4, <4>1 DEF AwaitReads, Goes, TurnInv
    <3> QED
      BY <3>2, <3>3, <3>4
  <2>3. CASE Line.kind \in {"note", "completed"} /\ Goes("await", call)
    BY <1>2, <2>3 DEF AwaitReads, Goes, TurnInv
  <2> QED
    BY <1>2, <2>1, <2>2, <2>3 DEF AwaitReads
<1>3. CASE AwaitTimesOut \/ CheckDeadline \/ ListenReads \/ ReadsEnd
  BY <1>3 DEF AwaitTimesOut, CheckDeadline, ListenReads, ReadsEnd, Fails,
     Goes, Returns, TurnInv
<1>4. CASE ListenTimesOut
  BY <1>4 DEF ListenTimesOut, Goes, TurnInv, AnswerInv
<1>5. CASE Close \/ Kill \/ Obeys \/ Clock
  BY <1>5 DEF Close, Kill, Obeys, Clock, Ended, TurnInv
<1>6. CASE Reply
  <2>1. asked # "turn" => turn' = turn
    BY <1>6 DEF Reply
  <2>2. asked = "turn" => turn' \in {"running", turn} /\ pc \notin {"send", "turn", "listen"}
    BY <1>6 DEF Reply, AnswerInv
  <2> QED
    BY <1>6, <2>1, <2>2 DEF Reply, TurnInv
<1>7. CASE Notify \/ TurnEnds \/ Falls
  BY <1>7 DEF Notify, TurnEnds, Falls, TurnInv
<1>8. CASE UNCHANGED vars
  BY <1>8 DEF vars, TurnInv
<1> QED
  BY <1>1, <1>2, <1>3, <1>4, <1>5, <1>6, <1>7, <1>8 DEF Next, ClientStep

\* Messages under way stay truthful; new ones have to be.
Awaited == pc = "await" /\ call \in {"turn", "list"}

News(m) ==
    /\ Truthful(m)
    /\ Awaited /\ m.kind = "reply" => m.turn \in {"running", "ended"}

LEMMA TruthKept ==
    ASSUME ClientInv, Forward, Awaited' => Awaited \/ Answers = {},
           \A i \in DOMAIN UnderWay' :
              \/ \E j \in DOMAIN UnderWay : UnderWay'[i] = UnderWay[j]
              \/ News(UnderWay[i])'
    PROVE  TruthInv'
<1> SUFFICES ASSUME NEW i \in DOMAIN UnderWay' PROVE News(UnderWay[i])'
  BY DEF News, TruthInv, Awaited, Truthful
<1>1. ASSUME NEW j \in DOMAIN UnderWay, UnderWay'[i] = UnderWay[j]
      PROVE  News(UnderWay[i])'
  <2>1. Truthful(UnderWay[j])
    BY DEF ClientInv, TruthInv
  <2>2. Truthful(UnderWay[i])'
    BY <1>1, <2>1 DEF Forward, Truthful
  <2>3. CASE Answers = {}
    <3>1. UnderWay[j].kind # "reply"
      BY <2>3 DEF Answers, IsAnswer
    <3> QED
      BY <1>1, <2>2, <3>1 DEF News, Truthful
  <2>4. CASE Awaited' => Awaited
    <3>1. Awaited /\ UnderWay[j].kind = "reply" =>
             UnderWay[j].turn \in {"running", "ended"}
      BY DEF ClientInv, TruthInv, Awaited
    <3> QED
      BY <1>1, <2>2, <2>4, <3>1 DEF News, Truthful
  <2> QED
    BY <2>3, <2>4
<1> QED
  BY <1>1

LEMMA TruthStep == ClientInv /\ [Next]_vars => TruthInv'
<1> SUFFICES ASSUME ClientInv, [Next]_vars PROVE TruthInv'
  OBVIOUS
<1> MessagesInv /\ TurnInv /\ AnswerInv /\ TypeOK
  BY DEF ClientInv, MessagesInv
<1> USE DEF client, Awaited
<1>0. Forward
  BY TurnGoesForward
<1>1. ASSUME UNCHANGED <<pipe, buf>>, Awaited' => Awaited \/ Answers = {}
      PROVE  TruthInv'
  <2>1. UnderWay' = UnderWay
    BY <1>1 DEF UnderWay
  <2> QED
    BY <1>0, <1>1, <2>1, TruthKept
<1>2. ASSUME Gets, Awaited' => Awaited PROVE TruthInv'
  <2>1. \A i \in DOMAIN UnderWay' :
           \E j \in DOMAIN UnderWay : UnderWay'[i] = UnderWay[j]
    <3>1. /\ Len(UnderWay) \in Nat /\ Len(UnderWay') = Len(UnderWay) - 1
          /\ \A i \in 1 .. Len(UnderWay') : UnderWay'[i] = UnderWay[i + 1]
          /\ pipe' \in Seq(Messages) /\ buf' \in Seq(Messages)
      BY <1>2, GetsFirst
    <3>2. DOMAIN UnderWay' = 1 .. Len(UnderWay')
      BY <3>1 DEF UnderWay
    <3>3. \A i \in 1 .. Len(UnderWay') : i + 1 \in 1 .. Len(UnderWay)
      BY <3>1
    <3> QED
      BY <3>1, <3>2, <3>3, UnderWayType
  <2> QED
    BY <1>0, <1>2, <2>1, TruthKept
<1>3. ASSUME NEW m \in Messages, Writes(m), UNCHANGED <<buf, pc, call>>,
             News(m)'
      PROVE  TruthInv'
  <2>1. \A i \in DOMAIN UnderWay' :
           \/ i \in DOMAIN UnderWay /\ UnderWay'[i] = UnderWay[i]
           \/ UnderWay'[i] = m
    <3>1. /\ Len(UnderWay) \in Nat /\ Len(UnderWay') = Len(UnderWay) + 1
          /\ UnderWay'[Len(UnderWay) + 1] = m
          /\ \A i \in 1 .. Len(UnderWay) : UnderWay'[i] = UnderWay[i]
          /\ pipe' \in Seq(Messages) /\ buf' \in Seq(Messages)
      BY <1>3, WritesLast DEF MessagesInv
    <3>2. DOMAIN UnderWay' = 1 .. Len(UnderWay')
      BY <3>1 DEF UnderWay
    <3>3. \A i \in 1 .. Len(UnderWay') :
             i \in 1 .. Len(UnderWay) \/ i = Len(UnderWay) + 1
      BY <3>1
    <3> QED
      BY <3>1, <3>2, <3>3, UnderWayType
  <2>2. \A i \in DOMAIN UnderWay' : UnderWay'[i] = m => News(UnderWay[i])'
    BY <1>3 DEF News, Truthful
  <2> QED
    BY <1>0, <1>3, <2>1, <2>2, TruthKept
<1>4. CASE Send
  BY <1>1, <1>4 DEF Send, AnswerInv
<1>5. CASE AwaitReads
  BY <1>2, <1>5 DEF AwaitReads, Fails, Listed, Returns, Goes
<1>6. CASE ListenReads
  BY <1>2, <1>6 DEF ListenReads, Returns, Fails, Goes
<1>7. CASE AwaitTimesOut \/ CheckDeadline \/ ListenTimesOut \/ ReadsEnd
  BY <1>1, <1>7 DEF AwaitTimesOut, CheckDeadline, ListenTimesOut, ReadsEnd,
     Fails, Goes, Quiet, AtEnd
<1>8. CASE Close \/ Kill \/ Obeys \/ Clock
  BY <1>1, <1>8 DEF Close, Kill, Obeys, Clock
<1>9. CASE Reply
  <2>1. ASSUME Writes(Message("reply", turn')), turn' \in TurnStates,
               turn' = IF asked = "turn" THEN "running" ELSE turn
        PROVE  TruthInv'
    <3>1. PICK m \in Messages : m = Message("reply", turn')
      BY <2>1 DEF Message, Messages
    <3>2. Awaited => turn' \in {"running", "ended"}
      <4>1. Awaited => asked \in {"turn", "list"}
        BY <1>9 DEF Reply, AnswerInv
      <4>2. Awaited /\ asked = "list" => turn \in {"running", "ended"}
        BY <1>9 DEF Reply, AnswerInv, TurnInv, TypeOK
      <4> QED
        BY <2>1, <4>1, <4>2
    <3>3. m.kind = "reply" /\ m.turn = turn'
      BY <3>1 DEF Message
    <3>4. News(m)'
      BY <1>9, <3>2, <3>3 DEF News, Truthful, Reply
    <3> QED
      BY <1>3, <1>9, <2>1, <3>1, <3>4 DEF Reply
  <2>2. ASSUME Writes(Message("error", turn)), turn' = turn PROVE TruthInv'
    <3>1. PICK m \in Messages : m = Message("error", turn)
      BY DEF Message, Messages, TypeOK, TurnStates
    <3>2. News(m)'
      BY <2>2, <3>1 DEF News, Truthful, Message
    <3> QED
      BY <1>3, <1>9, <2>2, <3>1, <3>2 DEF Reply
  <2>3. turn' \in TurnStates
    BY <1>9 DEF Reply, TypeOK, TurnStates
  <2> QED
    BY <1>9, <2>1, <2>2, <2>3 DEF Reply
<1>10. CASE Notify
  <2>1. PICK m \in Messages : m = Message("note", turn)
    BY DEF Message, Messages, TypeOK, TurnStates
  <2>2. News(m)'
    BY <1>10, <2>1 DEF News, Truthful, Message, Notify
  <2> QED
    BY <1>3, <1>10, <2>1, <2>2 DEF Notify
<1>11. CASE TurnEnds
  <2>1. PICK m \in Messages : m = Message("completed", "ended")
    BY DEF Message, Messages, TurnStates
  <2>2. News(m)'
    BY <1>11, <2>1 DEF News, Truthful, Message, TurnEnds
  <2> QED
    BY <1>1, <1>3, <1>11, <2>1, <2>2 DEF TurnEnds
<1>12. CASE Falls
  <2>1. CASE UNCHANGED pipe
    BY <1>1, <1>12, <2>1 DEF Falls
  <2>2. CASE Writes(Message("part", turn))
    <3>1. PICK m \in Messages : m = Message("part", turn)
      BY DEF Message, Messages, TypeOK, TurnStates
    <3>2. m.kind = "part" /\ m.turn = turn
      BY <3>1 DEF Message
    <3>3. turn = "ended" => turn' = "ended"
      BY <1>0 DEF Forward
    <3>4. turn = "running" => turn' # "none"
      BY <1>0 DEF Forward
    <3>5. News(m)'
      BY <3>2, <3>3, <3>4 DEF News, Truthful
    <3> QED
      BY <1>3, <1>12, <2>2, <3>1, <3>5 DEF Falls
  <2> QED
    BY <1>12, <2>1, <2>2 DEF Falls
<1>13. CASE UNCHANGED vars
  BY <1>1, <1>13 DEF vars
<1> QED
  BY <1>4, <1>5, <1>6, <1>7, <1>8, <1>9, <1>10, <1>11, <1>12, <1>13
     DEF Next, ClientStep

-----------------------------------------------------------------------------
\* One request is answered at a time.
LEMMA AnswerStep == ClientInv /\ [Next]_vars => AnswerInv'
<1> SUFFICES ASSUME ClientInv, [Next]_vars PROVE AnswerInv'
  OBVIOUS
<1> MessagesInv /\ AnswerInv /\ TypeOK
  BY DEF ClientInv, MessagesInv
<1> USE DEF client
<1>1. ASSUME UNCHANGED <<pipe, buf>>
      PROVE  Answers' = Answers /\ UnderWay' = UnderWay
  BY <1>1 DEF Answers, UnderWay, IsAnswer
<1>2. CASE Send
  BY <1>1, <1>2 DEF Send, Fails, Goes, AnswerInv
<1>3. CASE AwaitReads
  <2>1. CASE Line.kind \in {"error", "part"} /\ Fails("error")
    BY <2>1 DEF Fails, AnswerInv
  <2>2. CASE Line.kind = "reply"
    <3>1. Answers' = {} /\ asked = "nothing"
      BY <1>3, <2>2, AnswersRead DEF AwaitReads, AnswerInv, IsAnswer
    <3>2. pc' # "await"
      BY <1>3, <2>2 DEF AwaitReads, Listed, Returns, Goes
    <3> QED
      BY <1>3, <3>1, <3>2 DEF AwaitReads, AnswerInv
  <2>3. CASE Line.kind \in {"note", "completed"} /\ Goes("await", call)
    <3>1. ~IsAnswer(Line) /\ UNCHANGED asked /\ pc' = "await" /\ call' = call
      BY <1>3, <2>3 DEF AwaitReads, IsAnswer, Goes
    <3> QED
      BY <1>3, <3>1, AnswersRead DEF AwaitReads, AnswerInv
  <2> QED
    BY <1>3, <2>1, <2>2, <2>3 DEF AwaitReads
<1>4. CASE ListenReads
  BY <1>4, AnswersRead DEF ListenReads, Returns, Fails, Goes, AnswerInv
<1>5. CASE CheckDeadline \/ ListenTimesOut
  BY <1>1, <1>5 DEF CheckDeadline, ListenTimesOut, Quiet, Fails, Goes,
     AnswerInv
<1>6. CASE AwaitTimesOut \/ ReadsEnd
  BY <1>6 DEF AwaitTimesOut, ReadsEnd, Fails, AnswerInv
<1>7. CASE Close \/ Kill \/ Obeys
  BY <1>7 DEF Close, Kill, Obeys, AnswerInv
<1>8. CASE Clock
  BY <1>1, <1>8 DEF Clock, AnswerInv
<1>9. CASE Reply
  <2>1. PICK m \in Messages : IsAnswer(m) /\ Writes(m)
    <3>1. \E k \in {"reply", "error"}, t \in TurnStates : Writes(Message(k, t))
      BY <1>9 DEF Reply, TypeOK, TurnStates
    <3> QED
      BY <3>1 DEF Message, Messages, IsAnswer
  <2>2. Answers = {} => \E j \in DOMAIN UnderWay' : Answers' = {j}
    BY <1>9, <2>1, AnswersWritten DEF Reply
  <2> QED
    BY <1>9, <2>2 DEF Reply, AnswerInv
<1>10. CASE Notify \/ TurnEnds \/ Falls
  <2>0. UNCHANGED <<pc, call, buf, asked>>
    BY <1>10 DEF Notify, TurnEnds, Falls
  <2>1. CASE UNCHANGED pipe
    BY <1>1, <2>0, <2>1 DEF AnswerInv
  <2>2. CASE \E m \in Messages : ~IsAnswer(m) /\ Writes(m)
    <3>1. PICK m \in Messages : ~IsAnswer(m) /\ Writes(m)
      BY <2>2
    <3>2. Answers' = Answers /\ DOMAIN UnderWay \subseteq DOMAIN UnderWay'
      BY <2>0, <3>1, AnswersWritten
    <3> QED
      BY <2>0, <3>2 DEF AnswerInv
  <2>3. /\ Message("note", turn) \in Messages
        /\ Message("part", turn) \in Messages
        /\ Message("completed", "ended") \in Messages
        /\ ~IsAnswer(Message("note", turn))
        /\ ~IsAnswer(Message("part", turn))
        /\ ~IsAnswer(Message("completed", "ended"))
    BY DEF Message, Messages, TypeOK, TurnStates, IsAnswer
  <2> QED
    BY <1>10, <2>1, <2>2, <2>3 DEF Notify, TurnEnds, Falls
<1>11. CASE UNCHANGED vars
  BY <1>1, <1>11 DEF vars, AnswerInv
<1> QED
  BY <1>2, <1>3, <1>4, <1>5, <1>6, <1>7, <1>8, <1>9, <1>10, <1>11
     DEF Next, ClientStep

\* host-run takes a turn for over when a message has said so.
LEMMA ReturnStep == ClientInv /\ [Next]_vars => ReturnedTurnIsOver'
<1> SUFFICES ASSUME ClientInv, [Next]_vars, outcome' = "turn"
             PROVE  turn' = "ended"
  BY DEF ReturnedTurnIsOver
<1> MessagesInv
  BY DEF ClientInv
<1>1. CASE outcome = "turn"
  BY <1>1, TurnGoesForward DEF Forward, ClientInv, ReturnedTurnIsOver
<1>2. CASE outcome # "turn"
  <2>1. \/ AwaitReads /\ Line.kind = "reply" /\ call = "list" /\ Listed(Line.turn)
        \/ ListenReads /\ Line.kind = "completed"
    BY <1>2 DEF Next, ClientStep, Send, AwaitReads, AwaitTimesOut,
       CheckDeadline, ListenReads, ListenTimesOut, ReadsEnd, Close, Kill,
       Obeys, Clock, Reply, Notify, TurnEnds, Falls, Fails, Goes, Returns,
       client, vars
  <2>2. CASE /\ AwaitReads /\ Line.kind = "reply"
             /\ call = "list" /\ Listed(Line.turn)
    <3>1. Line.turn # "running"
      BY <1>2, <2>2 DEF Listed, Goes
    <3> QED
      BY <2>2, <3>1, ReplyIsNews DEF AwaitReads
  <2>3. CASE ListenReads /\ Line.kind = "completed"
    <3>1. Truthful(Line)
      BY <2>3, GetsFirst, UnderWayType DEF ListenReads, ClientInv, TruthInv
    <3> QED
      BY <2>3, <3>1 DEF ListenReads, Truthful
  <2> QED
    BY <2>1, <2>2, <2>3
<1> QED
  BY <1>1, <1>2

\* close() leaves no server.
LEMMA CloseStep == ClientInv /\ [Next]_vars => ServerIsClosed'
<1> SUFFICES ASSUME ClientInv, [Next]_vars, pc' = "done", call' # "initialize"
             PROVE  server' = "gone"
  BY DEF ServerIsClosed
<1>1. CASE pc = "done"
  BY <1>1 DEF ClientInv, ServerIsClosed, Next, ClientStep, Send, AwaitReads,
     AwaitTimesOut, CheckDeadline, ListenReads, ListenTimesOut, ReadsEnd,
     Close, Kill, Obeys, Clock, Reply, Notify, TurnEnds, Falls, client, vars
<1>2. CASE pc # "done"
  BY <1>2 DEF ClientInv, Next, ClientStep, Send, AwaitReads, Listed,
     AwaitTimesOut, CheckDeadline, ListenReads, ListenTimesOut, ReadsEnd,
     Close, Kill, Obeys, Clock, Reply, Notify, TurnEnds, Falls, Fails,
     Returns, Goes, client, vars
<1> QED
  BY <1>1, <1>2

LEMMA ClientHolds == Spec => []ClientInv
<1>1. Init => ClientInv
  <2> SUFFICES ASSUME Init PROVE ClientInv
    OBVIOUS
  <2>1. <<>> \in Seq(Messages) /\ Len(<<>>) = 0 /\ DOMAIN (<<>> \o <<>>) = {}
    OBVIOUS
  <2>2. DOMAIN UnderWay = {}
    BY <2>1 DEF Init, UnderWay
  <2>3. MessagesInv
    <3>1. call \in Names /\ asked \in Names \union {"nothing"}
      BY DEF Init, Names
    <3>2. call \in {Calls[i] : i \in DOMAIN Calls} \union {"list"}
      BY <3>1, CallNames
    <3>3. /\ pipe \in Seq(Messages) /\ buf \in Seq(Messages)
          /\ Len(pipe) <= PipeRoom /\ Len(buf) < PipeRoom
      BY <2>1, PipeAssumption DEF Init
    <3> QED
      BY <3>1, <3>2, <3>3 DEF Init, MessagesInv, TypeOK
  <2>4. AnswerInv /\ TruthInv
    BY <2>2 DEF Init, AnswerInv, TruthInv, Answers
  <2> QED
    BY <2>3, <2>4 DEF Init, ClientInv, TurnInv, ReturnedTurnIsOver,
       ServerIsClosed
<1>2. ClientInv /\ [Next]_vars => ClientInv'
  BY MessagesStep, AnswerStep, TruthStep, TurnStep, ReturnStep, CloseStep
     DEF ClientInv
<1> QED
  BY <1>1, <1>2, PTL DEF Spec

-----------------------------------------------------------------------------
\* That the client is over its calls when it has an outcome, and that no turn
\* is left with a server that is gone.
PlaceInv ==
    /\ outcome = "none" <=> pc \in {"send", "await", "turn", "listen"}
    /\ server = "gone" => turn # "running"

LEMMA PlaceStep == ClientInv /\ PlaceInv /\ [Next]_vars => PlaceInv'
<1> SUFFICES ASSUME ClientInv, PlaceInv, [Next]_vars PROVE PlaceInv'
  OBVIOUS
<1> USE DEF PlaceInv, client
<1>1. TypeOK
  BY DEF ClientInv, MessagesInv
<1>2. CASE Send
  BY <1>2 DEF Send, Fails, Goes
<1>3. CASE AwaitReads
  BY <1>3 DEF AwaitReads, Listed, Returns, Fails, Goes
<1>4. CASE AwaitTimesOut \/ ReadsEnd
  BY <1>4 DEF AwaitTimesOut, ReadsEnd, Fails
<1>5. CASE CheckDeadline \/ ListenReads \/ ListenTimesOut
  BY <1>5 DEF CheckDeadline, ListenReads, ListenTimesOut, Returns, Fails, Goes
<1>6. CASE Close \/ Kill \/ Obeys
  BY <1>6 DEF Close, Kill, Obeys, Ended
<1>7. CASE Clock \/ Notify \/ TurnEnds
  BY <1>7 DEF Clock, Notify, TurnEnds
<1>8. CASE Reply
  BY <1>8 DEF Reply
<1>9. CASE Falls
  BY <1>9 DEF Falls
<1>10. CASE UNCHANGED vars
  BY <1>10 DEF vars
<1> QED
  BY <1>2, <1>3, <1>4, <1>5, <1>6, <1>7, <1>8, <1>9, <1>10
     DEF Next, ClientStep

\* Every step is one of TurnCall, or host-run does not notice.
LEMMA CallRefined ==
    ClientInv /\ ClientInv' /\ PlaceInv /\ [Next]_vars
       => [Call!Next]_(Call!callVars)
<1> SUFFICES ASSUME ClientInv, ClientInv', PlaceInv, [Next]_vars
             PROVE  [Call!Next]_(Call!callVars)
  OBVIOUS
<1> USE DEF client
<1>1. TypeOK /\ TurnInv /\ ReturnedTurnIsOver /\ ReturnedTurnIsOver'
  BY DEF ClientInv, MessagesInv
<1>2. ASSUME UNCHANGED <<outcome, turn>>, pc = "done" <=> pc' = "done"
      PROVE  UNCHANGED Call!callVars
  BY <1>2 DEF Call!callVars
<1>3. ASSUME pc \in {"send", "await", "turn", "listen"}, UNCHANGED turn,
             Fails("timeout") \/ Fails("error")
      PROVE  Call!Next
  <2>1. CASE call = "initialize"
    <3>1. turn = "none"
      BY <1>1, <2>1 DEF TurnInv
    <3>2. Call!NeverBegins
      BY <1>3, <2>1, <3>1 DEF Fails, PlaceInv, Call!NeverBegins
    <3> QED
      BY <3>2 DEF Call!Next
  <2>2. CASE call # "initialize"
    <3>1. Call!GivesUp
      BY <1>3, <2>2 DEF Fails, PlaceInv, Call!GivesUp
    <3> QED
      BY <3>1 DEF Call!Next
  <2> QED
    BY <2>1, <2>2
<1>4. ASSUME pc \in {"send", "await", "turn", "listen"}, UNCHANGED turn, Returns
      PROVE  Call!Next
  <2>1. turn = "ended"
    BY <1>1, <1>4 DEF Returns, ReturnedTurnIsOver
  <2>2. Call!Completes
    BY <1>4, <2>1 DEF Returns, PlaceInv, Call!Completes
  <2> QED
    BY <2>2 DEF Call!Next
<1>5. ASSUME pc \in {"send", "await", "turn", "listen"}, UNCHANGED turn,
             NEW q \in {"send", "await", "turn", "listen"}, NEW m, Goes(q, m)
      PROVE  UNCHANGED Call!callVars
  BY <1>2, <1>5 DEF Goes
<1>6. CASE Send
  BY <1>3, <1>5, <1>6 DEF Send
<1>7. CASE AwaitReads
  BY <1>3, <1>4, <1>5, <1>7 DEF AwaitReads, Listed
<1>8. CASE AwaitTimesOut \/ ReadsEnd
  BY <1>3, <1>8 DEF AwaitTimesOut, ReadsEnd
<1>9. CASE CheckDeadline
  BY <1>3, <1>5, <1>9 DEF CheckDeadline
<1>10. CASE ListenReads
  BY <1>3, <1>4, <1>5, <1>10 DEF ListenReads
<1>11. CASE ListenTimesOut
  BY <1>5, <1>11 DEF ListenTimesOut
<1>12. ASSUME pc \in {"close", "closing"}, pc' = "done", turn' = Ended,
              UNCHANGED outcome
       PROVE  Call!Next
  <2>1. outcome # "none"
    BY <1>12 DEF PlaceInv
  <2>2. Call!Leaves
    BY <1>1, <1>12, <2>1 DEF Ended, TypeOK, Call!Leaves
  <2> QED
    BY <2>2 DEF Call!Next
<1>13. CASE Close
  <2>1. CASE server = "gone"
    <3>1. turn' = Ended
      BY <1>13, <2>1 DEF Close, PlaceInv, Ended
    <3> QED
      BY <1>12, <1>13, <2>1, <3>1 DEF Close
  <2>2. CASE server # "gone"
    BY <1>2, <1>13, <2>2 DEF Close
  <2> QED
    BY <2>1, <2>2
<1>14. CASE Kill \/ Obeys
  BY <1>12, <1>14 DEF Kill, Obeys
<1>15. CASE Clock \/ Notify
  BY <1>2, <1>15 DEF Clock, Notify
\* a server of host-run's that is up is one that host-run has
<1>16. server = "up" /\ pc = "done" => call = "initialize"
  BY DEF ClientInv, ServerIsClosed
<1>17. CASE Reply
  <2>1. CASE turn' = turn
    BY <1>2, <1>17, <2>1 DEF Reply
  <2>2. CASE turn' # turn
    <3>1. asked = "turn" /\ turn' = "running" /\ UNCHANGED <<pc, outcome>>
      BY <1>17, <2>2 DEF Reply
    <3>2. turn = "none" /\ call = "turn"
      BY <1>1, <3>1 DEF TurnInv
    <3>3. pc # "done"
      BY <1>16, <1>17, <3>2 DEF Reply
    <3>4. Call!StartTurn
      BY <3>1, <3>2, <3>3 DEF Call!StartTurn
    <3> QED
      BY <3>4 DEF Call!Next
  <2> QED
    BY <2>1, <2>2
<1>18. ASSUME turn = "running", turn' \in {"ended", "lost"}, server = "up",
              UNCHANGED <<pc, outcome>>
       PROVE  Call!Next
  <2>1. pc # "done"
    BY <1>1, <1>16, <1>18 DEF TurnInv
  <2>2. Call!TurnStops
    BY <1>18, <2>1 DEF Call!TurnStops
  <2> QED
    BY <2>2 DEF Call!Next
<1>19. CASE TurnEnds
  BY <1>18, <1>19 DEF TurnEnds
<1>20. CASE Falls
  BY <1>2, <1>18, <1>20 DEF Falls
<1>21. CASE UNCHANGED vars
  BY <1>2, <1>21 DEF vars
<1> QED
  BY <1>6, <1>7, <1>8, <1>9, <1>10, <1>11, <1>13, <1>14, <1>15, <1>17, <1>19,
     <1>20, <1>21 DEF Next, ClientStep

-----------------------------------------------------------------------------
(* The client, the server and what is under way keep their types, within   *)
(* the room of the pipe.                                                   *)
THEOREM TypeCorrect == Spec => []TypeOK
<1>1. ClientInv => TypeOK
  BY DEF ClientInv, MessagesInv
<1> QED
  BY <1>1, ClientHolds, PTL

(* host-run reads the acceptance marker after wait_for_turn has returned   *)
(* (codex_marathon.py): the turn is over by then, whoever told.            *)
THEOREM TurnsAreOver == Spec => []ReturnedTurnIsOver
<1>1. ClientInv => ReturnedTurnIsOver
  BY DEF ClientInv
<1> QED
  BY <1>1, ClientHolds, PTL

(* However host-run leaves, close() has ended its app-server, unless the   *)
(* constructor's own call failed.                                          *)
THEOREM ServersAreClosed == Spec => []ServerIsClosed
<1>1. ClientInv => ServerIsClosed
  BY DEF ClientInv
<1> QED
  BY <1>1, ClientHolds, PTL

(* wait_for_turn does not give up valid work: it has passed its deadline,  *)
(* was refused or left by the server, still waits for the list, or has the *)
(* answer in the reader's buffer, where select() does not see it.          *)
THEOREM ValidTurnsAreKept == Spec => ValidWorkIsKept
<1> DEFINE Kept == GivesUp /\ turn \in {"running", "ended"} =>
                      \/ late
                      \/ outcome' = "error"
                      \/ asked = call
                      \/ \E i \in DOMAIN buf : buf[i].kind \in {"reply", "error"}
<1>1. ClientInv /\ [Next]_vars => Kept
  <2> SUFFICES ASSUME ClientInv, [Next]_vars, GivesUp, ~late,
                      outcome' # "error", asked # call
               PROVE  \E i \in DOMAIN buf : buf[i].kind \in {"reply", "error"}
    OBVIOUS
  <2>1. AwaitTimesOut
    BY DEF GivesUp, Next, ClientStep, Send, AwaitReads, Listed, AwaitTimesOut,
       CheckDeadline, ListenReads, ListenTimesOut, ReadsEnd, Close, Kill,
       Obeys, Clock, Reply, Notify, TurnEnds, Falls, Fails, Goes, Returns,
       client, vars
  <2>2. pc = "await" /\ pipe = <<>>
    BY <2>1 DEF AwaitTimesOut, Quiet
  <2>3. PICK i \in DOMAIN UnderWay : Answers = {i}
    BY <2>2 DEF ClientInv, AnswerInv
  <2>4. UnderWay = buf
    BY <2>2 DEF UnderWay, ClientInv, MessagesInv
  <2>5. i \in DOMAIN buf /\ IsAnswer(buf[i])
    BY <2>3, <2>4 DEF Answers
  <2> QED
    BY <2>5 DEF IsAnswer
<1>2. ClientInv /\ [Next]_vars => [Kept]_vars
  BY <1>1
<1> QED
  BY <1>2, ClientHolds, PTL DEF Spec, ValidWorkIsKept

(* What Marathon has as one step each is what the app-server client does:  *)
(* a turn that host-run is told of is over, and when host-run has left     *)
(* nothing works on its task.                                              *)
THEOREM ClientImplementsCall == Spec => ImplementsCall
<1>1. Init => PlaceInv /\ Call!Init
  BY DEF Init, PlaceInv, Call!Init
<1>2. ClientInv /\ PlaceInv /\ [Next]_vars => PlaceInv'
  BY PlaceStep
<1>3. ClientInv /\ ClientInv' /\ PlaceInv /\ [Next]_vars
         => [Call!Next]_(Call!callVars)
  BY CallRefined
<1> QED
  BY <1>1, <1>2, <1>3, ClientHolds, PTL DEF Spec, ImplementsCall, Call!Spec
=============================================================================
