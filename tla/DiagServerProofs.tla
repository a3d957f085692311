--------------------------- MODULE DiagServerProofs ---------------------------
(***************************************************************************)
(* The diagnostic server, for every set of modes and services, both        *)
(* protocols and any bound on the frames under way: its types, the         *)
(* discipline of its two channels, and what a session guarantees until an  *)
(* answer is given up.                                                     *)
(***************************************************************************)
EXTENDS DiagServer, SequenceTheorems, TLAPS

Exchanging == {"send", "recv", "recv_final"}

(* Between two exchanges the thread remembers no job: a command taken from *)
(* the queue is answered before tester present or a reconnect is sent.     *)
JobInv == job # "none" => thread \in Exchanging

(* Until start_diag_session sends its first request nothing can stop the   *)
(* thread, and a thread that ended leaves no request queued.               *)
NewInv == client = "new" => /\ should_run /\ curr_session_type = "Default"
                            /\ job = "none" /\ thread \in {"top", "poll", "timer"}
DeadInv == thread = "dead" => cmd_chan = <<>>

Discipline == JobInv /\ NewInv /\ DeadInv /\ ChannelDiscipline

IInv == TypeOK /\ Discipline
-----------------------------------------------------------------------------
(* Frames stay frames when a new exchange begins.                          *)
LEMMA LeftBehindReplies ==
  ASSUME NEW frames \in Seq(Reply)
  PROVE  LeftBehind(frames) \in Seq(Reply)
<1>1. ASSUME NEW frame \in Reply
      PROVE  [frame EXCEPT !.own = FALSE] \in Reply
  BY DEF Reply
<1>2. \A i \in DOMAIN frames : frames[i] \in Reply
  OBVIOUS
<1>3. \A i \in DOMAIN frames : [frames[i] EXCEPT !.own = FALSE] \in Reply
  BY <1>1, <1>2
<1> QED
  BY <1>3 DEF LeftBehind

(* So do requests on their way to the ECU.                                *)
LEMMA LeftBehindSent ==
  ASSUME NEW frames \in Seq(Sent)
  PROVE  LeftBehind(frames) \in Seq(Sent)
<1>1. ASSUME NEW frame \in Sent
      PROVE  [frame EXCEPT !.own = FALSE] \in Sent
  BY DEF Sent
<1>2. \A i \in DOMAIN frames : frames[i] \in Sent
  OBVIOUS
<1>3. \A i \in DOMAIN frames : [frames[i] EXCEPT !.own = FALSE] \in Sent
  BY <1>1, <1>2
<1> QED
  BY <1>3 DEF LeftBehind

(* The requests the program builds are requests.                           *)
LEMMA RequestsAreTyped ==
  /\ \A m \in Modes : StartDiagSession(m) \in Request
  /\ \A s \in Services : RunService(s) \in Request
  /\ TesterPresent \in Request
BY DEF StartDiagSession, RunService, TesterPresent, Request, Sids
-----------------------------------------------------------------------------
(* A session that was just started is typed.                               *)
LEMMA InitTypeOK == Init => TypeOK
<1>1. "Default" \in Modes /\ "Extended" \in Modes
  BY ServerAssumption
<1>2. [req |-> StartDiagSession("Extended"), setting |-> TRUE]
        \in [req : Request, setting : BOOLEAN]
  BY <1>1, RequestsAreTyped
<1> SUFFICES ASSUME Init PROVE TypeOK
  OBVIOUS
<1>3. cmd_chan \in Seq(Request) /\ resp_chan \in Seq(Result) /\ rx \in Seq(Reply)
        /\ ecuIn \in Seq(Sent) /\ ecuOut \in Seq(Reply)
  BY DEF Init
<1>4. request \in Request /\ curr_session_type \in Modes \cup {"none"}
        /\ ecuSession \in Modes \cup {"none"}
  BY <1>1, RequestsAreTyped DEF Init
<1> QED
  BY <1>2, <1>3, <1>4, Zenon DEF Init, TypeOK

(* What the server loop does with a result, whatever the result is.        *)
LEMMA FinishType ==
  ASSUME TypeOK, NEW result \in Result, Finish(result)
  PROVE  /\ resp_chan' \in Seq(Result)
         /\ should_run' \in BOOLEAN
         /\ thread' \in {"timer", "top", "closing", "reconnect"}
         /\ job' = "none"
         /\ UNCHANGED <<client, call, global_id, curr_session_type, cmd_chan,
                        request, iface, powered, ecuSession>>
BY DEF TypeOK, Finish, FinishWith, clientVars

(* Sending puts a typed frame on the bus, or none.                         *)
LEMMA TransmitType ==
  ASSUME TypeOK, Transmit
  PROVE  ecuIn' \in Seq(Sent)
<1>1. [req |-> request, own |-> TRUE] \in Sent
  BY DEF TypeOK, Sent
<1>2. CASE UNCHANGED ecuIn
  BY <1>2 DEF TypeOK
<1>3. CASE ecuIn' = Append(ecuIn, [req |-> request, own |-> TRUE])
  BY <1>1, <1>3 DEF TypeOK
<1> QED
  BY <1>2, <1>3 DEF Transmit

(* What the start of an exchange changes, for any request and purpose.     *)
LEMMA BeginExchangeType ==
  ASSUME TypeOK, NEW req \in Request,
         NEW purpose \in {"command", "tester", "reconnect"},
         BeginExchange(req, purpose)
  PROVE  /\ rx' \in Seq(Reply) /\ ecuIn' \in Seq(Sent) /\ ecuOut' \in Seq(Reply)
         /\ thread' = "send" /\ job' = purpose /\ request' = req
         /\ UNCHANGED <<client, call, global_id, should_run, curr_session_type,
                        resp_chan, iface, powered, ecuSession, disturbed>>
BY LeftBehindReplies, LeftBehindSent DEF TypeOK, BeginExchange, clientVars
-----------------------------------------------------------------------------
(* Every step of the UI thread keeps the types.                            *)
LEMMA ClientTypeOK == TypeOK /\ Client => TypeOK'
<1> SUFFICES ASSUME TypeOK, Client PROVE TypeOK'
  OBVIOUS
<1> USE DEF clientVars, threadVars, chanVars, ecuVars
<1>1. ASSUME NEW req \in Request, NEW setting \in BOOLEAN,
             NEW place \in {"starting", "waiting"},
             Submit(req, setting, place),
             UNCHANGED <<should_run, curr_session_type, resp_chan, threadVars,
                         iface, rx, ecuVars, disturbed>>
      PROVE  TypeOK'
  BY <1>1 DEF TypeOK, Submit
<1>2. CASE Connect
  BY <1>1, <1>2, RequestsAreTyped, ServerAssumption DEF Connect
<1>3. CASE RunCommand
  BY <1>1, <1>3, RequestsAreTyped DEF RunCommand
<1>4. CASE SetDiagSessionMode
  BY <1>1, <1>4, RequestsAreTyped DEF SetDiagSessionMode
<1>5. CASE SetDiagSessionModeOnDeadServer
  BY <1>5, ServerAssumption DEF TypeOK, SetDiagSessionModeOnDeadServer
<1>6. CASE TakeAnswer
  <2>1. call.req.arg \in Modes \cup {"none"} /\ call.setting \in BOOLEAN
    BY DEF TypeOK, Request
  <2>2. curr_session_type' \in Modes \cup {"none"}
    BY <1>6, <2>1, ServerAssumption DEF TypeOK, TakeAnswer, TakeAnswerRecording
  <2>3. resp_chan' \in Seq(Result)
    BY <1>6 DEF TypeOK, TakeAnswer, TakeAnswerRecording
  <2>4. client' \in {"gone", "ready"} /\ should_run' \in BOOLEAN
          /\ disturbed' \in BOOLEAN
    BY <1>6 DEF TypeOK, TakeAnswer, TakeAnswerRecording
  <2> QED
    BY <1>6, <2>2, <2>3, <2>4 DEF TypeOK, TakeAnswer, TakeAnswerRecording
<1>7. CASE Panic
  BY <1>7 DEF TypeOK, Panic
<1>8. CASE ExitDiagSession
  <2>1. client' = "gone" /\ should_run' = FALSE
    BY <1>8 DEF ExitDiagSession
  <2>2. UNCHANGED <<call, global_id, curr_session_type, cmd_chan, resp_chan,
                    thread, job, request, iface, rx, powered, ecuSession,
                    ecuIn, ecuOut, disturbed>>
    BY <1>8 DEF ExitDiagSession
  <2>3. client' \in {"gone"} /\ should_run' \in BOOLEAN
    BY <2>1
  <2> QED
    BY <2>2, <2>3 DEF TypeOK
<1> QED
  BY <1>2, <1>3, <1>4, <1>5, <1>6, <1>7, <1>8 DEF Client

(* Every step of the server thread keeps the types.                        *)
LEMMA ServerTypeOK == TypeOK /\ Server => TypeOK'
<1> SUFFICES ASSUME TypeOK, Server PROVE TypeOK'
  OBVIOUS
<1> USE DEF clientVars, threadVars, chanVars, ecuVars
<1>1. CASE LoopTop
  BY <1>1 DEF TypeOK, LoopTop
<1>2. CASE TakeCommand
  <2>1. Head(cmd_chan) \in Request /\ cmd_chan' \in Seq(Request)
    BY <1>2 DEF TypeOK, TakeCommand
  <2> QED
    BY <1>2, <2>1, BeginExchangeType DEF TypeOK, TakeCommand
<1>3. CASE NoCommand
  BY <1>3 DEF TypeOK, NoCommand
<1>4. CASE BeginTesterPresent
  BY <1>4, BeginExchangeType, RequestsAreTyped DEF TypeOK, BeginTesterPresent
<1>5. CASE SkipTesterPresent
  BY <1>5 DEF TypeOK, SkipTesterPresent
<1>6. CASE BeginReconnect
  BY <1>6, BeginExchangeType, RequestsAreTyped, ServerAssumption
     DEF TypeOK, BeginReconnect
<1>7. CASE SendRequest
  BY <1>7, TransmitType DEF TypeOK, SendRequest
<1>8. CASE SendFailed
  <2>1. [kind |-> "comm", own |-> FALSE] \in Result
    BY DEF Result
  <2>2. rx' \in Seq(Reply) /\ ecuIn' \in Seq(Sent)
    <3>1. CASE rx' = rx /\ UNCHANGED ecuIn
      BY <3>1 DEF TypeOK
    <3>2. CASE rx' = <<>> /\ Transmit
      BY <3>2, TransmitType
    <3> QED
      BY <1>8, <3>1, <3>2 DEF SendFailed
  <2>3. Finish([kind |-> "comm", own |-> FALSE])
    BY <1>8 DEF SendFailed
  <2> QED
    BY <1>8, <2>1, <2>2, <2>3, FinishType DEF TypeOK, SendFailed
<1>9. CASE SendUnanswered
  <2>1. PICK kind \in {"ok", "comm"} : Finish([kind |-> kind, own |-> TRUE])
    BY <1>9 DEF SendUnanswered
  <2>2. [kind |-> kind, own |-> TRUE] \in Result
    BY DEF Result
  <2>3. ecuIn' \in Seq(Sent)
    BY <1>9, TransmitType DEF SendUnanswered
  <2> QED
    BY <1>9, <2>1, <2>2, <2>3, FinishType DEF TypeOK, SendUnanswered
<1>10. CASE ResponsePending
  BY <1>10 DEF TypeOK, ResponsePending
<1>11. CASE ReceiveReply
  <2> DEFINE reply == Head(rx)
             result == [kind |-> Outcome(reply), own |-> reply.own]
  <2>1. reply \in Reply /\ rx' \in Seq(Reply)
    BY <1>11 DEF TypeOK, ReceiveReply
  <2>2. result \in Result
    BY <2>1 DEF Result, Reply, Outcome
  <2>3. Finish(result)
    BY <1>11 DEF ReceiveReply
  <2>4. disturbed' \in BOOLEAN
    BY <1>11 DEF TypeOK, ReceiveReply
  <2> HIDE DEF result, reply
  <2> QED
    BY <1>11, <2>1, <2>2, <2>3, <2>4, FinishType DEF TypeOK, ReceiveReply
<1>12. CASE ReceiveTimeout
  <2> DEFINE result == [kind |-> IF thread = "recv" THEN "comm" ELSE "negative",
                        own |-> FALSE]
  <2>1. result \in Result
    BY DEF Result
  <2>2. Finish(result)
    BY <1>12 DEF ReceiveTimeout
  <2> HIDE DEF result
  <2> QED
    BY <1>12, <2>1, <2>2, FinishType DEF TypeOK, ReceiveTimeout
<1>13. CASE CloseInterface
  BY <1>13 DEF TypeOK, CloseInterface
<1> QED
  BY <1>1, <1>2, <1>3, <1>4, <1>5, <1>6, <1>7, <1>8, <1>9, <1>10, <1>11, <1>12,
     <1>13 DEF Server, Exchange

(* Every step of the ECU and the bus keeps the types.                      *)
LEMMA EcuTypeOK == TypeOK /\ Ecu => TypeOK'
<1> SUFFICES ASSUME TypeOK, Ecu PROVE TypeOK'
  OBVIOUS
<1> USE DEF clientVars, threadVars, chanVars, ecuVars, busUnchanged
<1>1. CASE EcuAnswer
  <2> DEFINE frame == Head(ecuIn)
  <2>1. PICK kind \in {"positive", "negative"} :
          /\ ecuSession' = IF kind = "positive" /\ frame.req.sid = "StartDiagSession"
                           THEN frame.req.arg ELSE ecuSession
          /\ ecuOut' = IF frame.req.answered
                       THEN Append(ecuOut, [sid |-> frame.req.sid, kind |-> kind,
                                            own |-> frame.own])
                       ELSE ecuOut
    BY <1>1 DEF EcuAnswer
  <2>2. frame \in Sent /\ ecuIn' \in Seq(Sent)
    BY <1>1 DEF TypeOK, EcuAnswer
  <2>3. frame.req.sid \in Sids /\ frame.req.arg \in Modes \cup {"none"}
          /\ frame.own \in BOOLEAN
    BY <2>2 DEF Sent, Request
  <2> HIDE DEF frame
  <2>4. [sid |-> frame.req.sid, kind |-> kind, own |-> frame.own] \in Reply
    BY <2>3 DEF Reply
  <2>5. ecuOut' \in Seq(Reply)
    BY <2>1, <2>4 DEF TypeOK
  <2>6. ecuSession' \in Modes \cup {"none"}
    BY <2>1, <2>3 DEF TypeOK
  <2> QED
    BY <1>1, <2>2, <2>5, <2>6 DEF TypeOK, EcuAnswer
<1>2. CASE EcuResponsePending
  <2> DEFINE frame == Head(ecuIn)
  <2>1. frame \in Sent
    BY <1>2 DEF TypeOK, EcuResponsePending
  <2>2. [sid |-> frame.req.sid, kind |-> "pending", own |-> frame.own] \in Reply
    BY <2>1 DEF Sent, Request, Reply
  <2>3. ecuOut' = Append(ecuOut, [sid |-> frame.req.sid, kind |-> "pending",
                                  own |-> frame.own])
    BY <1>2 DEF EcuResponsePending
  <2> HIDE DEF frame
  <2>4. ecuOut' \in Seq(Reply)
    BY <2>2, <2>3 DEF TypeOK
  <2> QED
    BY <1>2, <2>4 DEF TypeOK, EcuResponsePending
<1>3. CASE DeliverReply
  BY <1>3 DEF TypeOK, DeliverReply
<1>4. CASE LoseReply
  BY <1>4 DEF TypeOK, LoseReply
<1>5. CASE PowerOff
  <2>1. powered' = FALSE /\ ecuSession' = "Default" /\ ecuIn' = <<>>
          /\ disturbed' = TRUE
    BY <1>5, Zenon DEF PowerOff
  <2>2. "Default" \in Modes
    BY ServerAssumption
  <2>3. UNCHANGED <<client, call, global_id, should_run, curr_session_type,
                    cmd_chan, resp_chan, thread, job, request, iface, rx, ecuOut>>
    BY <1>5 DEF PowerOff
  <2>4. powered' \in BOOLEAN /\ disturbed' \in BOOLEAN
    BY <2>1
  <2>5. ecuIn' \in Seq(Sent)
    BY <2>1
  <2>6. ecuSession' \in Modes \cup {"none"}
    BY <2>1, <2>2
  <2> QED
    BY <2>3, <2>4, <2>5, <2>6 DEF TypeOK
<1>6. CASE PowerOn
  BY <1>6 DEF TypeOK, PowerOn
<1> QED
  BY <1>1, <1>2, <1>3, <1>4, <1>5, <1>6 DEF Ecu

LEMMA TypeStep == TypeOK /\ [Next]_vars => TypeOK'
<1>1. TypeOK /\ UNCHANGED vars => TypeOK'
  BY DEF TypeOK, vars, clientVars, threadVars, chanVars, ecuVars
<1> QED
  BY <1>1, ClientTypeOK, ServerTypeOK, EcuTypeOK DEF Next

(* The type invariant, for every instance of the constants.                *)
THEOREM TypeCorrect == Spec => []TypeOK
BY InitTypeOK, TypeStep, PTL DEF Spec
-----------------------------------------------------------------------------
(* Before the first request both channels are empty.                       *)
LEMMA InitChannels == Init => Discipline
BY DEF Init, Discipline, JobInv, NewInv, DeadInv, ChannelDiscipline, Serving, Waiting

(* Submit, take and answer: the UI thread's half of the conversation.      *)
LEMMA ClientChannels ==
  TypeOK /\ Discipline /\ Client => Discipline'
<1> SUFFICES ASSUME TypeOK, Discipline, Client
             PROVE  Discipline'
  OBVIOUS
<1> USE DEF clientVars, threadVars, chanVars, ecuVars, Discipline, JobInv,
            NewInv, DeadInv, Serving, Waiting
<1>1. ASSUME NEW req \in Request, NEW setting \in BOOLEAN,
             NEW place \in {"starting", "waiting"},
             ~Waiting, thread # "dead",
             Submit(req, setting, place),
             UNCHANGED <<resp_chan, threadVars>>
      PROVE  Discipline'
  <2>1. cmd_chan' = <<req>> /\ call'.req = req /\ resp_chan' = <<>>
    BY <1>1 DEF ChannelDiscipline, Submit
  <2> QED
    BY <1>1, <2>1 DEF ChannelDiscipline, Submit
<1>2. CASE Connect
  BY <1>1, <1>2, RequestsAreTyped, ServerAssumption DEF Connect
<1>3. CASE RunCommand
  BY <1>1, <1>3, RequestsAreTyped DEF RunCommand
<1>4. CASE SetDiagSessionMode
  BY <1>1, <1>4, RequestsAreTyped DEF SetDiagSessionMode
<1>5. CASE SetDiagSessionModeOnDeadServer
  BY <1>5 DEF ChannelDiscipline, SetDiagSessionModeOnDeadServer
<1>6. CASE TakeAnswer
  <2>1. cmd_chan = <<>> /\ ~Serving
    BY <1>6 DEF ChannelDiscipline, TakeAnswer, TakeAnswerRecording
  <2>2. cmd_chan' = <<>> /\ resp_chan' = <<>>
    <3>1. resp_chan \in Seq(Result) /\ resp_chan # <<>> /\ Len(resp_chan) <= 1
            /\ resp_chan' = Tail(resp_chan)
      BY <1>6 DEF TypeOK, ChannelDiscipline, TakeAnswer, TakeAnswerRecording
    <3> QED
      BY <1>6, <2>1, <3>1 DEF TakeAnswer, TakeAnswerRecording
  <2>3. ~Waiting'
    BY <1>6 DEF TakeAnswer, TakeAnswerRecording
  <2> QED
    BY <1>6, <2>1, <2>2, <2>3 DEF ChannelDiscipline, TakeAnswer, TakeAnswerRecording
<1>7. CASE Panic
  <2>1. cmd_chan = <<>> /\ ~Serving
    BY <1>7 DEF Exchanging, Panic
  <2> QED
    BY <1>7, <2>1 DEF ChannelDiscipline, Panic
<1>8. CASE ExitDiagSession
  BY <1>8 DEF ChannelDiscipline, ExitDiagSession
<1> QED
  BY <1>2, <1>3, <1>4, <1>5, <1>6, <1>7, <1>8 DEF Client

(* A finished command is answered into an empty channel; the result of a   *)
(* tester present or a reconnection is dropped.                            *)
LEMMA FinishChannels ==
  ASSUME TypeOK, Discipline, NEW result \in Result, Finish(result),
         thread \in Exchanging
  PROVE  Discipline'
<1> USE DEF clientVars, Discipline, JobInv, NewInv, DeadInv, Serving, Waiting
<1>1. /\ job' = "none" /\ thread' \in {"timer", "top", "closing", "reconnect"}
      /\ UNCHANGED <<client, call, cmd_chan, curr_session_type, request>>
  BY FinishType
<1>2. client # "new"
  BY DEF Exchanging
<1>3. CASE job = "command"
  <2>1. Waiting /\ cmd_chan = <<>> /\ resp_chan = <<>>
    BY <1>3 DEF ChannelDiscipline
  <2>2. resp_chan' = Append(resp_chan, result)
    BY <1>3 DEF Finish, FinishWith
  <2>3. resp_chan' # <<>> /\ Len(resp_chan') <= 1
    BY <2>1, <2>2
  <2> QED
    BY <1>1, <1>2, <2>1, <2>3 DEF ChannelDiscipline
<1>4. CASE job # "command"
  <2>1. resp_chan' = resp_chan
    BY <1>4 DEF Finish, FinishWith
  <2> QED
    BY <1>1, <1>2, <1>4, <2>1 DEF ChannelDiscipline, Exchanging
<1> QED
  BY <1>3, <1>4

(* The server thread's half: take, serve, answer.                          *)
LEMMA ServerChannels ==
  TypeOK /\ Discipline /\ Server => Discipline'
<1> SUFFICES ASSUME TypeOK, Discipline, Server
             PROVE  Discipline'
  OBVIOUS
<1> USE DEF clientVars, threadVars, chanVars, ecuVars, Discipline, JobInv,
            NewInv, DeadInv, Serving, Waiting
<1>1. CASE LoopTop
  BY <1>1 DEF ChannelDiscipline, Exchanging, LoopTop
<1>2. CASE TakeCommand
  <2>1. cmd_chan = <<call.req>> /\ resp_chan = <<>> /\ Waiting
    BY <1>2 DEF ChannelDiscipline, TakeCommand
  <2>2. cmd_chan' = <<>> /\ Head(cmd_chan) = call.req
    BY <1>2, <2>1 DEF TakeCommand
  <2>3. Head(cmd_chan) \in Request
    BY <1>2 DEF TypeOK, TakeCommand
  <2>4. /\ thread' = "send" /\ job' = "command" /\ request' = call.req
        /\ UNCHANGED <<client, call, resp_chan>>
    BY <1>2, <2>2, <2>3, BeginExchangeType DEF TakeCommand
  <2> QED
    BY <2>1, <2>2, <2>4 DEF ChannelDiscipline, Exchanging
<1>3. CASE NoCommand
  BY <1>3 DEF ChannelDiscipline, Exchanging, NoCommand
<1>4. CASE BeginTesterPresent
  <2>1. /\ thread' = "send" /\ job' = "tester"
        /\ UNCHANGED <<client, call, cmd_chan, resp_chan>>
    BY <1>4, RequestsAreTyped, BeginExchangeType DEF BeginTesterPresent
  <2>2. job = "none" /\ client # "new"
    BY <1>4 DEF Exchanging, BeginTesterPresent
  <2> QED
    BY <1>4, <2>1, <2>2 DEF ChannelDiscipline, Exchanging, BeginTesterPresent
<1>5. CASE SkipTesterPresent
  BY <1>5 DEF ChannelDiscipline, Exchanging, SkipTesterPresent
<1>6. CASE BeginReconnect
  <2>1. /\ thread' = "send" /\ job' = "reconnect"
        /\ UNCHANGED <<client, call, cmd_chan, resp_chan>>
    BY <1>6, RequestsAreTyped, ServerAssumption, BeginExchangeType
       DEF BeginReconnect
  <2>2. job = "none" /\ client # "new"
    BY <1>6 DEF Exchanging, BeginReconnect
  <2> QED
    BY <1>6, <2>1, <2>2 DEF ChannelDiscipline, Exchanging, BeginReconnect
<1>7. CASE SendRequest
  BY <1>7 DEF ChannelDiscipline, Exchanging, SendRequest
<1>8. CASE SendFailed
  <2>1. [kind |-> "comm", own |-> FALSE] \in Result
    BY DEF Result
  <2> QED
    BY <1>8, <2>1, FinishChannels DEF Exchanging, SendFailed
<1>9. CASE SendUnanswered
  <2>1. PICK kind \in {"ok", "comm"} : Finish([kind |-> kind, own |-> TRUE])
    BY <1>9 DEF SendUnanswered
  <2>2. [kind |-> kind, own |-> TRUE] \in Result
    BY DEF Result
  <2>3. thread \in Exchanging
    BY <1>9 DEF Exchanging, SendUnanswered
  <2> QED
    BY <2>1, <2>2, <2>3, FinishChannels
<1>10. CASE ResponsePending
  BY <1>10 DEF ChannelDiscipline, Exchanging, ResponsePending
<1>11. CASE ReceiveReply
  <2> DEFINE reply == Head(rx)
             result == [kind |-> Outcome(reply), own |-> reply.own]
  <2>1. reply \in Reply
    BY <1>11 DEF TypeOK, ReceiveReply
  <2>2. result \in Result
    BY <2>1 DEF Result, Reply, Outcome
  <2>3. Finish(result) /\ thread \in Exchanging
    BY <1>11 DEF Exchanging, ReceiveReply
  <2> HIDE DEF result
  <2> QED
    BY <2>2, <2>3, FinishChannels
<1>12. CASE ReceiveTimeout
  <2> DEFINE result == [kind |-> IF thread = "recv" THEN "comm" ELSE "negative",
                        own |-> FALSE]
  <2>1. result \in Result
    BY DEF Result
  <2>2. Finish(result) /\ thread \in Exchanging
    BY <1>12 DEF Exchanging, ReceiveTimeout
  <2> HIDE DEF result
  <2> QED
    BY <2>1, <2>2, FinishChannels
<1>13. CASE CloseInterface
  <2>1. job = "none" /\ client # "new"
    BY <1>13 DEF Exchanging, CloseInterface
  <2> QED
    BY <1>13, <2>1 DEF ChannelDiscipline, CloseInterface
<1> QED
  BY <1>1, <1>2, <1>3, <1>4, <1>5, <1>6, <1>7, <1>8, <1>9, <1>10, <1>11, <1>12,
     <1>13 DEF Server, Exchange

(* The ECU and the bus reach neither channel.                              *)
LEMMA EcuChannels == Discipline /\ Ecu => Discipline'
BY DEF Ecu, EcuAnswer, EcuResponsePending, DeliverReply, LoseReply, PowerOff,
       PowerOn, busUnchanged, clientVars, threadVars, chanVars, Discipline,
       JobInv, NewInv, DeadInv, ChannelDiscipline, Serving, Waiting

LEMMA IInvStep == IInv /\ [Next]_vars => IInv'
<1>1. Discipline /\ UNCHANGED vars => Discipline'
  BY DEF vars, clientVars, threadVars, chanVars, Discipline, JobInv, NewInv,
         DeadInv, ChannelDiscipline, Serving, Waiting
<1>2. TypeOK /\ Discipline /\ [Next]_vars => Discipline'
  BY <1>1, ClientChannels, ServerChannels, EcuChannels DEF Next
<1> QED
  BY <1>2, TypeStep DEF IInv

(* While the UI thread waits its request is in exactly one place, and the  *)
(* answer it reads is the answer to that request, for every interleaving.  *)
THEOREM ChannelDisciplineHolds == Spec => []ChannelDiscipline
<1>1. Init => IInv
  BY InitTypeOK, InitChannels DEF IInv
<1>2. IInv => ChannelDiscipline
  BY DEF IInv, Discipline
<1> QED
  BY <1>1, <1>2, IInvStep, PTL DEF Spec
-----------------------------------------------------------------------------
(* The session until an answer is given up.                                *)
(* Until an answer is given up every frame on the bus belongs to the       *)
(* exchange in progress; the only requests outside one are tester presents *)
(* nobody answers.                                                         *)
Listening == thread \in {"recv", "recv_final"}
Asking(frame) == frame.req.answered
Final(reply) == reply.kind # "pending"
OfExchange(reply) == reply.own /\ reply.sid = request.sid

FramesOwn ==
  /\ \A i \in 1..Len(ecuIn) :
       /\ Asking(ecuIn[i]) => Listening /\ ecuIn[i].own /\ ecuIn[i].req = request
                                /\ i = Len(ecuIn)
       /\ ~Asking(ecuIn[i]) => ecuIn[i].req.sid = "TesterPresent"
  /\ ~Listening => rx = <<>> /\ ecuOut = <<>>
  /\ \A i \in 1..Len(rx) : OfExchange(rx[i])
  /\ \A i \in 1..Len(ecuOut) : OfExchange(ecuOut[i])

\* Nothing follows the final reply.
NoneAsks == \A i \in 1..Len(ecuIn) : ~Asking(ecuIn[i])

FinalIsLast ==
  /\ \A i \in 1..Len(rx) : Final(rx[i]) => i = Len(rx) /\ ecuOut = <<>> /\ NoneAsks
  /\ \A i \in 1..Len(ecuOut) : Final(ecuOut[i]) => i = Len(ecuOut) /\ NoneAsks

(* No reply is taken for a lost ECU, so the thread never reconnects and    *)
(* goes on as long as it is wanted.                                        *)
NeverReconnects ==
  /\ thread # "reconnect"
  /\ thread \in Exchanging => job \in {"command", "tester"}
  /\ job = "tester" => request.sid = "TesterPresent"
  /\ client \in {"new", "starting", "ready", "waiting"} => should_run
  /\ ~request.answered => request.sid = "TesterPresent"

(* The session the server records is the one the ECU is in, but while a    *)
(* StartDiagSession is under way; then the ECU's positive reply says that  *)
(* it is in the one asked for.                                             *)
Changing == Waiting /\ call.req.sid = "StartDiagSession"
Grants(reply) == reply.kind = "positive"

SessionsAgree ==
  /\ call.req.answered /\ (call.setting => call.req.sid = "StartDiagSession")
  /\ client = "starting" => call.setting
  /\ client \in {"ready", "waiting"} /\ ~Changing /\ curr_session_type # "Default"
       => ecuSession = curr_session_type
  /\ Waiting /\ call.setting =>
       \A i \in 1..Len(resp_chan) : resp_chan[i].kind = "ok" => ecuSession = call.req.arg
  /\ Serving /\ request.sid = "StartDiagSession" =>
       /\ \A i \in 1..Len(rx) : Grants(rx[i]) => ecuSession = request.arg
       /\ \A i \in 1..Len(ecuOut) : Grants(ecuOut[i]) => ecuSession = request.arg

OwnAnswers == \A i \in 1..Len(resp_chan) : resp_chan[i].own

Sound == FramesOwn /\ FinalIsLast /\ NeverReconnects /\ SessionsAgree /\ OwnAnswers

UInv == IInv /\ (~disturbed => Sound)

LEMMA TailParts ==
  ASSUME NEW S, NEW s \in Seq(S), s # <<>>
  PROVE  /\ Tail(s) \in Seq(S) /\ Len(s) \in Nat /\ Len(Tail(s)) = Len(s) - 1
         /\ 1 \in 1..Len(s) /\ Head(s) = s[1]
         /\ \A i \in 1..Len(Tail(s)) : i + 1 \in 1..Len(s) /\ Tail(s)[i] = s[i + 1]
         /\ Len(s) = 1 => Tail(s) = <<>>
<1>1. /\ Len(s) \in Nat /\ Len(s) > 0 /\ Tail(s) \in Seq(S) /\ Len(Tail(s)) = Len(s) - 1
      /\ Head(s) = s[1] /\ \A i \in 1..(Len(s) - 1) : Tail(s)[i] = s[i + 1]
  BY HeadTailProperties, EmptySeq
<1>2. \A i \in 1..Len(Tail(s)) : i + 1 \in 1..Len(s)
  BY <1>1
<1>3. Len(s) = 1 => Tail(s) = <<>>
  <2>1. Len(s) = 1 => Len(Tail(s)) = 0
    BY <1>1
  <2> QED
    BY <1>1, <2>1, EmptySeq
<1> QED
  BY <1>1, <1>2, <1>3

LEMMA AppendParts ==
  ASSUME NEW S, NEW s \in Seq(S), NEW e \in S
  PROVE  /\ Append(s, e) \in Seq(S) /\ Len(Append(s, e)) = Len(s) + 1 /\ Len(s) \in Nat
         /\ \A i \in 1..Len(Append(s, e)) :
              \/ i \in 1..Len(s) /\ Append(s, e)[i] = s[i]
              \/ i = Len(s) + 1 /\ Append(s, e)[i] = e
<1>1. /\ Append(s, e) \in Seq(S) /\ Len(Append(s, e)) = Len(s) + 1 /\ Len(s) \in Nat
      /\ Append(s, e)[Len(s) + 1] = e /\ \A i \in 1..Len(s) : Append(s, e)[i] = s[i]
  BY AppendProperties
<1>2. \A i \in 1..Len(Append(s, e)) : i \in 1..Len(s) \/ i = Len(s) + 1
  BY <1>1
<1> QED
  BY <1>1, <1>2

LEMMA LeftBehindParts ==
  ASSUME NEW frames \in Seq(Sent)
  PROVE  /\ Len(LeftBehind(frames)) = Len(frames)
         /\ \A i \in 1..Len(frames) : LeftBehind(frames)[i].req = frames[i].req
<1>1. \A i \in 1..Len(frames) : frames[i] \in Sent /\ i \in DOMAIN frames
  OBVIOUS
<1>2. \A frame \in Sent : [frame EXCEPT !.own = FALSE].req = frame.req
  BY DEF Sent
<1>3. Len(LeftBehind(frames)) = Len(frames)
  <2>1. DOMAIN LeftBehind(frames) = 1..Len(frames) /\ Len(frames) \in Nat
    BY DEF LeftBehind
  <2>2. LeftBehind(frames) \in Seq(Sent)
    BY LeftBehindSent
  <2> QED
    BY <2>1, <2>2, LenProperties
<1>4. \A i \in 1..Len(frames) : LeftBehind(frames)[i] = [frames[i] EXCEPT !.own = FALSE]
  BY <1>1 DEF LeftBehind
<1> QED
  BY <1>1, <1>2, <1>3, <1>4

(* The UI thread.                                                          *)

\* What it does leaves the bus alone.
LEMMA BusKept ==
  ASSUME Sound, UNCHANGED <<thread, job, request, rx, ecuIn, ecuOut>>
  PROVE  FramesOwn' /\ FinalIsLast'
BY DEF Sound, FramesOwn, FinalIsLast, Listening, Asking, Final, OfExchange, NoneAsks

LEMMA SubmitSound ==
  ASSUME TypeOK, Discipline, Sound, NEW req, NEW setting \in BOOLEAN,
         NEW place \in {"starting", "waiting"},
         client \in {"new", "ready"}, Submit(req, setting, place), req.answered,
         setting => req.sid = "StartDiagSession",
         place = "starting" => setting,
         UNCHANGED <<should_run, curr_session_type, resp_chan, threadVars, iface, rx,
                     ecuVars, disturbed>>
  PROVE  Sound'
<1>1. /\ call'.req = req /\ call'.setting = setting /\ client' = place
      /\ UNCHANGED <<should_run, curr_session_type, resp_chan, thread, job, request, rx,
                     ecuSession, ecuIn, ecuOut>>
  BY DEF Submit, threadVars, ecuVars
<1>2. ~Serving /\ resp_chan = <<>> /\ Len(resp_chan) = 0
  BY DEF Discipline, ChannelDiscipline, Waiting
<1>3. FramesOwn' /\ FinalIsLast'
  BY <1>1, BusKept
<1>4. NeverReconnects' /\ OwnAnswers'
  BY <1>1 DEF Sound, NeverReconnects, OwnAnswers
<1>5. SessionsAgree'
  <2>1. call'.req.answered /\ (call'.setting => call'.req.sid = "StartDiagSession")
    BY <1>1
  <2>2. ASSUME client' \in {"ready", "waiting"}, ~Changing', curr_session_type' # "Default"
        PROVE  ecuSession' = curr_session_type'
    <3>1. client # "new"
      BY <1>1, <2>2 DEF Discipline, NewInv
    <3>2. client = "ready" /\ ~Changing
      BY <3>1 DEF Changing, Waiting
    <3> QED
      BY <1>1, <2>2, <3>2 DEF Sound, SessionsAgree
  <2>3. ~Serving' /\ Len(resp_chan') = 0
    BY <1>1, <1>2 DEF Serving
  <2>4. client' = "starting" => call'.setting
    BY <1>1
  <2> QED
    BY <1>1, <1>2, <2>1, <2>2, <2>3, <2>4 DEF SessionsAgree
<1> QED
  BY <1>3, <1>4, <1>5 DEF Sound

LEMMA TakeAnswerSound ==
  ASSUME TypeOK, Discipline, Sound, TakeAnswer, ~disturbed'
  PROVE  Sound'
<1> DEFINE ok == Head(resp_chan).kind = "ok"
<1>1. /\ Waiting /\ resp_chan # <<>> /\ resp_chan' = Tail(resp_chan)
      /\ curr_session_type' = IF call.setting THEN IF ok THEN call.req.arg ELSE "Default"
                              ELSE curr_session_type
      /\ client' = IF client = "starting" /\ ~ok THEN "gone" ELSE "ready"
      /\ UNCHANGED <<call, thread, job, request, rx, ecuSession, ecuIn, ecuOut>>
  BY DEF TakeAnswer, TakeAnswerRecording, threadVars, ecuVars
<1>2. client' = "ready" => should_run' = should_run
  <2>1. should_run' = (should_run /\ ~(client = "starting" /\ ~ok))
    BY DEF TakeAnswer, TakeAnswerRecording
  <2>2. should_run \in BOOLEAN
    BY DEF TypeOK
  <2> HIDE DEF ok
  <2> QED
    BY <1>1, <2>1, <2>2, Zenon
<1>3. ~(~call.setting /\ call.req.sid = "StartDiagSession")
  BY DEF TakeAnswer, TakeAnswerRecording
<1>4. /\ resp_chan \in Seq(Result) /\ Len(resp_chan) <= 1 /\ 1 \in 1..Len(resp_chan)
      /\ Head(resp_chan) = resp_chan[1] /\ Len(resp_chan') = Len(resp_chan) - 1
      /\ Len(resp_chan) \in Nat
  <2>1. resp_chan \in Seq(Result) /\ Len(resp_chan) <= 1
    BY DEF TypeOK, Discipline, ChannelDiscipline
  <2> QED
    BY <1>1, <2>1, TailParts
<1>5. Len(resp_chan') = 0
  BY <1>4
<1>6. FramesOwn' /\ FinalIsLast' /\ OwnAnswers'
  <2>1. OwnAnswers'
    BY <1>5 DEF OwnAnswers
  <2>2. UNCHANGED <<thread, job, request, rx, ecuIn, ecuOut>>
    BY <1>1
  <2> QED
    BY <2>1, <2>2, BusKept
<1>7. client' = "gone" \/ client' = "ready"
  BY <1>1
<1>8. NeverReconnects'
  <2>1. should_run
    BY <1>1 DEF Sound, NeverReconnects, Waiting
  <2>2. client' \in {"new", "starting", "ready", "waiting"} => should_run'
    BY <1>2, <1>7, <2>1
  <2> QED
    BY <1>1, <2>2 DEF Sound, NeverReconnects
<1>9. SessionsAgree'
  <2>1. ~Serving' /\ ~Waiting'
    BY <1>1, <1>7 DEF Discipline, ChannelDiscipline, Serving, Waiting
  <2>2. ASSUME client' = "ready", curr_session_type' # "Default"
        PROVE  ecuSession' = curr_session_type'
    <3>1. CASE call.setting
      <4>1. ok /\ curr_session_type' = call.req.arg
        BY <1>1, <2>2, <3>1
      <4> QED
        BY <1>1, <1>4, <3>1, <4>1 DEF Sound, SessionsAgree
    <3>2. CASE ~call.setting
      <4>1. ~Changing /\ curr_session_type' = curr_session_type
        BY <1>1, <1>3, <3>2 DEF Changing
      <4>2. client = "waiting"
        BY <1>1, <3>2 DEF Waiting, Sound, SessionsAgree
      <4> QED
        BY <1>1, <2>2, <4>1, <4>2 DEF Sound, SessionsAgree
    <3> QED
      BY <3>1, <3>2
  <2>3. call'.req.answered /\ (call'.setting => call'.req.sid = "StartDiagSession")
    BY <1>1 DEF Sound, SessionsAgree
  <2> QED
    BY <1>7, <2>1, <2>2, <2>3 DEF SessionsAgree
<1> QED
  BY <1>6, <1>8, <1>9 DEF Sound

LEMMA ClientSound ==
  ASSUME TypeOK, Discipline, Sound, Client, ~disturbed'
  PROVE  Sound'
<1>1. CASE Connect
  <2>1. "Extended" \in Modes /\ StartDiagSession("Extended").answered
          /\ StartDiagSession("Extended").sid = "StartDiagSession"
    BY ServerAssumption DEF StartDiagSession
  <2> QED
    BY <1>1, <2>1, SubmitSound DEF Connect
<1>2. CASE RunCommand
  <2>1. /\ \A s \in Services : RunService(s).answered
        /\ \A m \in Modes : StartDiagSession(m).answered
    BY DEF RunService, StartDiagSession
  <2> QED
    BY <1>2, <2>1, SubmitSound DEF RunCommand
<1>3. CASE SetDiagSessionMode
  <2>1. \A m \in Modes : /\ StartDiagSession(m).answered
                         /\ StartDiagSession(m).sid = "StartDiagSession"
    BY DEF StartDiagSession
  <2> QED
    BY <1>3, <2>1, SubmitSound DEF SetDiagSessionMode
<1>4. CASE SetDiagSessionModeOnDeadServer
  <2>1. /\ client = "ready" /\ curr_session_type' = "Default"
        /\ UNCHANGED <<client, call, should_run, resp_chan, thread, job, request, rx,
                       ecuSession, ecuIn, ecuOut>>
    BY <1>4 DEF SetDiagSessionModeOnDeadServer, clientVars, threadVars, chanVars, ecuVars
  <2>2. NeverReconnects' /\ OwnAnswers' /\ SessionsAgree'
    BY <2>1 DEF Sound, NeverReconnects, OwnAnswers, SessionsAgree, Changing, Waiting, Serving
  <2> QED
    BY <2>1, <2>2, BusKept DEF Sound
<1>5. CASE TakeAnswer
  BY <1>5, TakeAnswerSound
<1>6. CASE Panic \/ ExitDiagSession
  <2>1. /\ client' \in {"panicked", "gone"}
        /\ UNCHANGED <<call, curr_session_type, resp_chan, thread, job, request, rx,
                       ecuSession, ecuIn, ecuOut>>
    BY <1>6 DEF Panic, ExitDiagSession, threadVars, chanVars, ecuVars
  <2>2. NeverReconnects' /\ OwnAnswers' /\ SessionsAgree'
    BY <2>1 DEF Sound, NeverReconnects, OwnAnswers, SessionsAgree, Changing, Waiting,
                Serving, Grants
  <2> QED
    BY <2>1, <2>2, BusKept DEF Sound
<1> QED
  BY <1>1, <1>2, <1>3, <1>4, <1>5, <1>6 DEF Client

(* The server thread.                                                      *)

\* The loop, but for its exchanges.
LEMMA LoopSound ==
  ASSUME TypeOK, Discipline, Sound,
         LoopTop \/ NoCommand \/ SkipTesterPresent \/ CloseInterface
  PROVE  Sound'
<1>1. /\ thread \in {"top", "poll", "timer", "closing"}
      /\ thread' \in {"top", "poll", "timer", "closing", "dead"}
      /\ rx' \in {rx, <<>>}
      /\ UNCHANGED <<client, call, should_run, curr_session_type, resp_chan, job, request,
                     ecuSession, ecuIn, ecuOut>>
  BY DEF LoopTop, NoCommand, SkipTesterPresent, CloseInterface, clientVars, chanVars, ecuVars
<1>2. ~Listening /\ ~Listening' /\ rx = <<>> /\ ecuOut = <<>> /\ rx' = <<>> /\ ecuOut' = <<>>
  BY <1>1 DEF Listening, Sound, FramesOwn
<1>3. Len(rx') = 0 /\ Len(ecuOut') = 0
  BY <1>2
<1>4. FramesOwn'
  BY <1>1, <1>2, <1>3 DEF Sound, FramesOwn, Asking
<1>5. FinalIsLast'
  BY <1>3 DEF FinalIsLast
<1>6. NeverReconnects' /\ OwnAnswers'
  BY <1>1 DEF Sound, NeverReconnects, OwnAnswers, Exchanging
<1>7. SessionsAgree'
  BY <1>1, <1>3 DEF Sound, SessionsAgree, Changing, Waiting, Serving
<1> QED
  BY <1>4, <1>5, <1>6, <1>7 DEF Sound

\* An exchange begins on a bus where nothing is under way but tester presents.
LEMMA BeginSound ==
  ASSUME TypeOK, Discipline, Sound, NEW req \in Request, NEW purpose \in {"command", "tester"},
         BeginExchange(req, purpose), thread \in {"poll", "timer"},
         purpose = "tester" => req.sid = "TesterPresent",
         ~req.answered => req.sid = "TesterPresent"
  PROVE  Sound'
<1>1. /\ thread' = "send" /\ job' = purpose /\ request' = req
      /\ ecuIn' = LeftBehind(ecuIn) /\ rx' = LeftBehind(rx) /\ ecuOut' = LeftBehind(ecuOut)
      /\ UNCHANGED <<client, call, should_run, curr_session_type, resp_chan, ecuSession>>
  BY DEF BeginExchange, clientVars
<1>2. ~Listening /\ ~Listening' /\ rx = <<>> /\ ecuOut = <<>>
  BY <1>1 DEF Listening, Sound, FramesOwn
<1>3. rx' = <<>> /\ ecuOut' = <<>> /\ Len(rx') = 0 /\ Len(ecuOut') = 0
  <2>1. LeftBehind(<<>>) = <<>>
    BY DEF LeftBehind
  <2> QED
    BY <1>1, <1>2, <2>1
<1>4. Len(ecuIn') = Len(ecuIn) /\ \A i \in 1..Len(ecuIn) : ecuIn'[i].req = ecuIn[i].req
  BY <1>1, LeftBehindParts DEF TypeOK
<1>5. FramesOwn'
  <2>1. \A i \in 1..Len(ecuIn') : ~ecuIn'[i].req.answered /\ ecuIn'[i].req.sid = "TesterPresent"
    BY <1>2, <1>4 DEF Sound, FramesOwn, Asking
  <2> QED
    BY <1>3, <2>1 DEF FramesOwn, Asking
<1>6. FinalIsLast'
  BY <1>3 DEF FinalIsLast
<1>7. NeverReconnects' /\ OwnAnswers'
  BY <1>1 DEF Sound, NeverReconnects, OwnAnswers, Exchanging
<1>8. SessionsAgree'
  BY <1>1, <1>3 DEF Sound, SessionsAgree, Changing, Waiting
<1> QED
  BY <1>5, <1>6, <1>7, <1>8 DEF Sound

\* The result of an exchange reaches the caller who waits for it.
LEMMA FinishSound ==
  ASSUME TypeOK, Discipline, Sound, NEW result \in Result, Finish(result),
         thread \in Exchanging,
         result.own, result.kind # "mismatch",
         Serving /\ request.sid = "StartDiagSession" /\ result.kind = "ok"
           => ecuSession = request.arg
  PROVE  NeverReconnects' /\ SessionsAgree' /\ OwnAnswers' /\ ~Listening' /\ ~Serving'
<1>1. /\ job' = "none"
      /\ UNCHANGED <<client, call, curr_session_type, request, ecuSession>>
  BY FinishType
<1>2. resp_chan' = IF job = "command" THEN Append(resp_chan, result) ELSE resp_chan
  BY DEF Finish, FinishWith
<1>3. job \in {"command", "tester"}
  BY DEF Sound, NeverReconnects
<1>4. should_run' = should_run
  <2>1. should_run' = (should_run /\ ~(job = "reconnect" /\ result.kind # "ok"))
    BY DEF Finish, FinishWith
  <2>2. should_run \in BOOLEAN
    BY DEF TypeOK
  <2> QED
    BY <1>3, <2>1, <2>2, Zenon
<1>5. thread' \in {"top", "timer", "closing"}
  BY <1>3 DEF Finish, FinishWith
<1>6. ~Listening' /\ ~Serving'
  BY <1>1, <1>5 DEF Listening, Serving
<1>7. NeverReconnects'
  BY <1>1, <1>4, <1>5 DEF Sound, NeverReconnects, Exchanging
<1>8. \A i \in 1..Len(resp_chan') : \/ i \in 1..Len(resp_chan) /\ resp_chan'[i] = resp_chan[i]
                                    \/ job = "command" /\ resp_chan'[i] = result
  <2>1. resp_chan \in Seq(Result)
    BY DEF TypeOK
  <2>2. CASE job = "command"
    BY <1>2, <2>1, <2>2, AppendParts
  <2> QED
    BY <1>2, <2>2
<1>9. OwnAnswers'
  BY <1>8 DEF Sound, OwnAnswers
<1>10. SessionsAgree'
  <2>1. ASSUME Waiting, call.setting, NEW i \in 1..Len(resp_chan'), resp_chan'[i].kind = "ok"
        PROVE  ecuSession = call.req.arg
    <3>1. CASE i \in 1..Len(resp_chan) /\ resp_chan'[i] = resp_chan[i]
      BY <2>1, <3>1 DEF Sound, SessionsAgree
    <3>2. CASE job = "command" /\ resp_chan'[i] = result
      <4>1. Serving /\ request = call.req
        BY <3>2 DEF Discipline, ChannelDiscipline, Serving
      <4>2. call.req.sid = "StartDiagSession"
        BY <2>1 DEF Sound, SessionsAgree
      <4> QED
        BY <2>1, <3>2, <4>1, <4>2
    <3> QED
      BY <1>8, <3>1, <3>2
  <2> QED
    BY <1>1, <1>6, <2>1 DEF Sound, SessionsAgree, Changing, Waiting
<1> QED
  BY <1>6, <1>7, <1>9, <1>10

\* Only the request itself goes out, onto a bus where nobody is asked anything.
LEMMA TransmitParts ==
  ASSUME TypeOK, Sound, ~Listening, Transmit
  PROVE  \A i \in 1..Len(ecuIn') :
           \/ ~ecuIn'[i].req.answered /\ ecuIn'[i].req.sid = "TesterPresent"
           \/ ecuIn'[i].own /\ ecuIn'[i].req = request /\ i = Len(ecuIn')
<1>1. \A i \in 1..Len(ecuIn) : ~ecuIn[i].req.answered /\ ecuIn[i].req.sid = "TesterPresent"
  BY DEF Sound, FramesOwn, Asking
<1>2. CASE UNCHANGED ecuIn
  BY <1>1, <1>2
<1>3. CASE ecuIn' = Append(ecuIn, [req |-> request, own |-> TRUE])
  <2> DEFINE frame == [req |-> request, own |-> TRUE]
  <2>1. frame \in Sent /\ frame.req = request /\ frame.own
    BY DEF TypeOK, Sent
  <2>2. ecuIn' = Append(ecuIn, frame)
    BY <1>3
  <2> HIDE DEF frame
  <2>3. /\ Len(ecuIn') = Len(ecuIn) + 1
        /\ \A i \in 1..Len(ecuIn') : \/ i \in 1..Len(ecuIn) /\ ecuIn'[i] = ecuIn[i]
                                     \/ i = Len(ecuIn) + 1 /\ ecuIn'[i] = frame
    BY <2>1, <2>2, AppendParts DEF TypeOK
  <2> QED
    BY <1>1, <2>1, <2>3
<1> QED
  BY <1>2, <1>3 DEF Transmit

LEMMA SendRequestSound ==
  ASSUME TypeOK, Discipline, Sound, SendRequest
  PROVE  Sound'
<1>1. /\ thread = "send" /\ thread' = "recv" /\ rx' = <<>> /\ Transmit
      /\ UNCHANGED <<client, call, should_run, curr_session_type, resp_chan, job, request,
                     ecuSession, ecuOut>>
  BY DEF SendRequest, clientVars, chanVars
<1>2. ~Listening /\ Listening' /\ ecuOut' = <<>> /\ Len(ecuOut') = 0 /\ Len(rx') = 0
  BY <1>1 DEF Listening, Sound, FramesOwn
<1>3. \A i \in 1..Len(ecuIn') :
        \/ ~ecuIn'[i].req.answered /\ ecuIn'[i].req.sid = "TesterPresent"
        \/ ecuIn'[i].own /\ ecuIn'[i].req = request /\ i = Len(ecuIn')
  BY <1>1, <1>2, TransmitParts
<1>4. FramesOwn'
  <2>1. ASSUME NEW i \in 1..Len(ecuIn')
        PROVE  /\ ecuIn'[i].req.answered =>
                    ecuIn'[i].own /\ ecuIn'[i].req = request /\ i = Len(ecuIn')
               /\ ~ecuIn'[i].req.answered => ecuIn'[i].req.sid = "TesterPresent"
    BY <1>3 DEF Sound, NeverReconnects
  <2> QED
    BY <1>1, <1>2, <2>1 DEF FramesOwn, Asking
<1>5. FinalIsLast'
  BY <1>2 DEF FinalIsLast
<1>6. NeverReconnects' /\ OwnAnswers'
  BY <1>1 DEF Sound, NeverReconnects, OwnAnswers, Exchanging
<1>7. SessionsAgree'
  BY <1>1, <1>2 DEF Sound, SessionsAgree, Changing, Waiting, Serving
<1> QED
  BY <1>4, <1>5, <1>6, <1>7 DEF Sound

LEMMA SendUnansweredSound ==
  ASSUME TypeOK, Discipline, Sound, SendUnanswered
  PROVE  Sound'
<1>1. /\ thread = "send" /\ ~request.answered /\ Transmit
      /\ \E kind \in {"ok", "comm"} : Finish([kind |-> kind, own |-> TRUE])
      /\ UNCHANGED <<rx, ecuOut>>
  BY DEF SendUnanswered
<1>2. ~Listening /\ rx' = <<>> /\ ecuOut' = <<>> /\ Len(rx') = 0 /\ Len(ecuOut') = 0
  BY <1>1 DEF Listening, Sound, FramesOwn
<1>3. ~Serving
  BY <1>1 DEF Discipline, ChannelDiscipline, Sound, SessionsAgree
<1>4. request.sid = "TesterPresent"
  BY <1>1 DEF Sound, NeverReconnects
<1>5. PICK kind \in {"ok", "comm"} : Finish([kind |-> kind, own |-> TRUE])
  BY <1>1
<1> DEFINE result == [kind |-> kind, own |-> TRUE]
<1>6. result \in Result /\ result.own /\ result.kind # "mismatch" /\ Finish(result)
  BY <1>5 DEF Result
<1> HIDE DEF result
<1>7. NeverReconnects' /\ SessionsAgree' /\ OwnAnswers' /\ ~Listening'
  BY <1>1, <1>3, <1>6, FinishSound DEF Exchanging
<1>8. request' = request
  BY <1>6, FinishType
<1>9. \A i \in 1..Len(ecuIn') :
        \/ ~ecuIn'[i].req.answered /\ ecuIn'[i].req.sid = "TesterPresent"
        \/ ecuIn'[i].req = request
  BY <1>1, <1>2, TransmitParts
<1>10. FramesOwn'
  <2>1. \A i \in 1..Len(ecuIn') : ~ecuIn'[i].req.answered /\ ecuIn'[i].req.sid = "TesterPresent"
    BY <1>1, <1>4, <1>9
  <2> QED
    BY <1>2, <2>1 DEF FramesOwn, Asking
<1>11. FinalIsLast'
  BY <1>2 DEF FinalIsLast
<1> QED
  BY <1>7, <1>10, <1>11 DEF Sound

LEMMA ResponsePendingSound ==
  ASSUME TypeOK, Discipline, Sound, ResponsePending
  PROVE  Sound'
<1>1. /\ thread = "recv" /\ rx # <<>> /\ thread' = "recv_final" /\ rx' = Tail(rx)
      /\ UNCHANGED <<client, call, should_run, curr_session_type, resp_chan, job, request,
                     ecuSession, ecuIn, ecuOut>>
  BY DEF ResponsePending, clientVars, chanVars, ecuVars
<1>2. /\ Len(rx') = Len(rx) - 1 /\ Len(rx) \in Nat
      /\ \A i \in 1..Len(rx') : i + 1 \in 1..Len(rx) /\ rx'[i] = rx[i + 1]
  BY <1>1, TailParts DEF TypeOK
<1>3. Listening /\ Listening'
  BY <1>1 DEF Listening
<1>4. FramesOwn'
  BY <1>1, <1>2, <1>3 DEF Sound, FramesOwn, Asking, OfExchange
<1>5. FinalIsLast'
  <2>1. NoneAsks' <=> NoneAsks
    BY <1>1 DEF NoneAsks, Asking
  <2>2. ASSUME NEW i \in 1..Len(rx'), rx'[i].kind # "pending"
        PROVE  i = Len(rx') /\ ecuOut = <<>> /\ NoneAsks
    <3>1. i + 1 = Len(rx) /\ ecuOut = <<>> /\ NoneAsks
      BY <1>2, <2>2 DEF Sound, FinalIsLast, Final
    <3> QED
      BY <1>2, <3>1
  <2>3. \A i \in 1..Len(ecuOut') : ecuOut'[i].kind # "pending" => i = Len(ecuOut') /\ NoneAsks
    BY <1>1 DEF Sound, FinalIsLast, Final
  <2> QED
    BY <1>1, <2>1, <2>2, <2>3 DEF FinalIsLast, Final
<1>6. NeverReconnects' /\ OwnAnswers'
  BY <1>1 DEF Sound, NeverReconnects, OwnAnswers, Exchanging
<1>7. SessionsAgree'
  <2>1. Serving /\ request.sid = "StartDiagSession" =>
          \A i \in 1..Len(rx') : rx'[i].kind = "positive" => ecuSession = request.arg
    BY <1>2 DEF Sound, SessionsAgree, Grants
  <2> QED
    BY <1>1, <2>1 DEF Sound, SessionsAgree, Changing, Waiting, Serving, Grants
<1> QED
  BY <1>4, <1>5, <1>6, <1>7 DEF Sound

\* The final reply: nothing is left on the bus behind it.
LEMMA ReceiveReplySound ==
  ASSUME TypeOK, Discipline, Sound, ReceiveReply, ~disturbed'
  PROVE  Sound'
<1> DEFINE reply == Head(rx)
           result == [kind |-> Outcome(reply), own |-> reply.own]
<1>1. /\ Listening /\ thread \in Exchanging /\ rx # <<>> /\ Finish(result) /\ rx' = Tail(rx)
      /\ UNCHANGED <<ecuIn, ecuOut>>
  BY DEF ReceiveReply, Listening, Exchanging
<1>2. Final(reply)
  BY DEF ReceiveReply, Final
<1>3. /\ reply \in Reply /\ reply = rx[1] /\ 1 \in 1..Len(rx)
      /\ Len(rx) = 1 => rx' = <<>>
  <2>1. rx \in Seq(Reply)
    BY DEF TypeOK
  <2> QED
    BY <1>1, <2>1, TailParts
<1>4. Len(rx) = 1 /\ ecuOut = <<>> /\ NoneAsks
  BY <1>2, <1>3 DEF Sound, FinalIsLast
<1>5. reply.own /\ reply.sid = request.sid
  BY <1>3 DEF Sound, FramesOwn, OfExchange
<1>6. /\ result \in Result /\ result.own /\ result.kind # "mismatch"
      /\ result.kind = "ok" => Grants(reply)
  BY <1>3, <1>5 DEF Result, Reply, Outcome, Grants
<1>7. Serving /\ request.sid = "StartDiagSession" /\ result.kind = "ok"
        => ecuSession = request.arg
  BY <1>3, <1>6 DEF Sound, SessionsAgree
<1> HIDE DEF result
<1>8. NeverReconnects' /\ SessionsAgree' /\ OwnAnswers' /\ ~Listening'
  BY <1>1, <1>6, <1>7, FinishSound
<1>9. Len(rx') = 0 /\ Len(ecuOut') = 0 /\ rx' = <<>> /\ ecuOut' = <<>>
  BY <1>1, <1>3, <1>4
<1>10. FramesOwn'
  <2>1. \A i \in 1..Len(ecuIn) : ~ecuIn[i].req.answered /\ ecuIn[i].req.sid = "TesterPresent"
    BY <1>4 DEF Sound, FramesOwn, NoneAsks, Asking
  <2>2. \A i \in 1..Len(ecuIn') : ~ecuIn'[i].req.answered /\ ecuIn'[i].req.sid = "TesterPresent"
    BY <1>1, <2>1
  <2> QED
    BY <1>9, <2>2 DEF FramesOwn, Asking
<1>11. FinalIsLast'
  BY <1>9 DEF FinalIsLast
<1> QED
  BY <1>8, <1>10, <1>11 DEF Sound

LEMMA ServerSound ==
  ASSUME TypeOK, Discipline, Sound, Server, ~disturbed'
  PROVE  Sound'
<1>1. CASE LoopTop \/ NoCommand \/ SkipTesterPresent \/ CloseInterface
  BY <1>1, LoopSound
<1>2. CASE TakeCommand
  <2>1. cmd_chan = <<call.req>>
    BY <1>2 DEF Discipline, ChannelDiscipline, TakeCommand
  <2>2. Head(cmd_chan) \in Request /\ Head(cmd_chan).answered
    BY <1>2, <2>1 DEF TypeOK, TakeCommand, Sound, SessionsAgree
  <2> QED
    BY <1>2, <2>2, BeginSound DEF TakeCommand
<1>3. CASE BeginTesterPresent
  <2>1. TesterPresent \in Request /\ TesterPresent.sid = "TesterPresent"
    BY RequestsAreTyped DEF TesterPresent
  <2> QED
    BY <1>3, <2>1, BeginSound DEF BeginTesterPresent
<1>4. CASE BeginReconnect
  BY <1>4 DEF BeginReconnect, Sound, NeverReconnects
<1>5. CASE SendFailed \/ ReceiveTimeout
  BY <1>5 DEF SendFailed, ReceiveTimeout
<1> QED
  BY <1>1, <1>2, <1>3, <1>4, <1>5, SendRequestSound, SendUnansweredSound,
     ResponsePendingSound, ReceiveReplySound DEF Server, Exchange

(* The ECU and the bus.                                                    *)

\* They leave both threads alone.
LEMMA ThreadsKept ==
  ASSUME Sound, busUnchanged
  PROVE  /\ UNCHANGED <<client, call, should_run, curr_session_type, resp_chan, thread, job,
                        request>>
         /\ NeverReconnects' /\ OwnAnswers' /\ (Listening' <=> Listening)
         /\ (Serving' <=> Serving)
<1>1. UNCHANGED <<client, call, should_run, curr_session_type, resp_chan, thread, job, request>>
  BY DEF busUnchanged, clientVars, chanVars, threadVars
<1>2. NeverReconnects' /\ OwnAnswers'
  BY <1>1 DEF Sound, NeverReconnects, OwnAnswers, Exchanging
<1> QED
  BY <1>1, <1>2 DEF Listening, Serving

\* A request being served is the one the UI thread waits for.
LEMMA ServedIsCalled ==
  ASSUME Discipline, Sound, Listening, request.sid = "StartDiagSession"
  PROVE  Serving /\ Changing /\ resp_chan = <<>>
<1>1. job = "command"
  BY DEF Sound, NeverReconnects, Listening, Exchanging
<1> QED
  BY <1>1 DEF Discipline, ChannelDiscipline, Serving, Changing, Waiting

LEMMA EcuAnswerSound ==
  ASSUME TypeOK, Discipline, Sound, EcuAnswer
  PROVE  Sound'
<1> DEFINE frame == Head(ecuIn)
<1>1. PICK kind \in {"positive", "negative"} :
        /\ ecuSession' = IF kind = "positive" /\ frame.req.sid = "StartDiagSession"
                         THEN frame.req.arg ELSE ecuSession
        /\ ecuOut' = IF frame.req.answered
                     THEN Append(ecuOut, [sid |-> frame.req.sid, kind |-> kind,
                                          own |-> frame.own])
                     ELSE ecuOut
  BY DEF EcuAnswer
<1>2. ecuIn # <<>> /\ ecuIn' = Tail(ecuIn) /\ rx' = rx /\ busUnchanged
  BY DEF EcuAnswer
<1>3. /\ UNCHANGED <<client, call, should_run, curr_session_type, resp_chan, thread, job,
                     request>>
      /\ NeverReconnects' /\ OwnAnswers' /\ (Listening' <=> Listening)
      /\ (Serving' <=> Serving)
  BY <1>2, ThreadsKept
<1>4. /\ Len(ecuIn') = Len(ecuIn) - 1 /\ Len(ecuIn) \in Nat
      /\ 1 \in 1..Len(ecuIn) /\ frame = ecuIn[1] /\ ecuIn[1] \in Sent
      /\ \A i \in 1..Len(ecuIn') : i + 1 \in 1..Len(ecuIn) /\ ecuIn'[i] = ecuIn[i + 1]
  BY <1>2, TailParts DEF TypeOK
<1>5. \A i \in 1..Len(ecuIn') :
        /\ Asking(ecuIn'[i]) => Listening /\ ecuIn'[i].own /\ ecuIn'[i].req = request
                                  /\ i = Len(ecuIn')
        /\ ~Asking(ecuIn'[i]) => ecuIn'[i].req.sid = "TesterPresent"
  <2>1. ASSUME NEW i \in 1..Len(ecuIn')
        PROVE  /\ Asking(ecuIn'[i]) => Listening /\ ecuIn'[i].own /\ ecuIn'[i].req = request
                                         /\ i = Len(ecuIn')
               /\ ~Asking(ecuIn'[i]) => ecuIn'[i].req.sid = "TesterPresent"
    <3>1. ecuIn'[i] = ecuIn[i + 1] /\ i + 1 \in 1..Len(ecuIn)
      BY <1>4
    <3>2. /\ Asking(ecuIn[i + 1]) => Listening /\ ecuIn[i + 1].own
                                       /\ ecuIn[i + 1].req = request /\ i + 1 = Len(ecuIn)
          /\ ~Asking(ecuIn[i + 1]) => ecuIn[i + 1].req.sid = "TesterPresent"
      BY <3>1 DEF Sound, FramesOwn
    <3>3. i + 1 = Len(ecuIn) => i = Len(ecuIn')
      BY <1>4
    <3> QED
      BY <3>1, <3>2, <3>3
  <2> QED
    BY <2>1
<1> HIDE DEF frame
<1>6. CASE ~Asking(frame)
  <2>1. frame.req.sid = "TesterPresent"
    BY <1>4, <1>6 DEF Sound, FramesOwn
  <2>2. ecuOut' = ecuOut /\ ecuSession' = ecuSession
    BY <1>1, <1>6, <2>1 DEF Asking
  <2>3. FramesOwn'
    BY <1>2, <1>3, <1>5, <2>2 DEF Sound, FramesOwn, Asking, OfExchange
  <2>4. NoneAsks => NoneAsks'
    BY <1>4 DEF NoneAsks, Asking
  <2>5. FinalIsLast'
    BY <1>2, <2>2, <2>4 DEF Sound, FinalIsLast, Final
  <2>6. SessionsAgree'
    BY <1>2, <1>3, <2>2 DEF Sound, SessionsAgree, Changing, Waiting, Serving, Grants
  <2> QED
    BY <1>3, <2>3, <2>5, <2>6 DEF Sound
<1>7. CASE Asking(frame)
  <2> DEFINE reply == [sid |-> frame.req.sid, kind |-> kind, own |-> frame.own]
  <2>1. Listening /\ frame.own /\ frame.req = request /\ Len(ecuIn) = 1
    BY <1>4, <1>7 DEF Sound, FramesOwn
  <2>2. frame.req.sid \in Sids /\ frame.own \in BOOLEAN
    BY <1>4 DEF Sent, Request
  <2>3. /\ reply \in Reply /\ reply.sid = request.sid /\ reply.own /\ reply.kind = kind
    BY <2>1, <2>2 DEF Reply
  <2>4. ecuOut' = Append(ecuOut, reply)
    BY <1>1, <1>7 DEF Asking
  <2> HIDE DEF reply
  <2>5. /\ Len(ecuOut') = Len(ecuOut) + 1 /\ Len(ecuOut) \in Nat
        /\ \A i \in 1..Len(ecuOut') : \/ i \in 1..Len(ecuOut) /\ ecuOut'[i] = ecuOut[i]
                                      \/ i = Len(ecuOut) + 1 /\ ecuOut'[i] = reply
    BY <2>3, <2>4, AppendParts DEF TypeOK
  <2>6. Len(ecuIn') = 0
    BY <1>4, <2>1
  <2>7. /\ \A i \in 1..Len(rx) : rx[i].kind = "pending"
        /\ \A i \in 1..Len(ecuOut) : ecuOut[i].kind = "pending"
    BY <1>4, <1>7 DEF Sound, FinalIsLast, Final, NoneAsks
  <2>8. FramesOwn'
    <3>1. \A i \in 1..Len(ecuOut') : ecuOut'[i].own /\ ecuOut'[i].sid = request.sid
      BY <2>3, <2>5 DEF Sound, FramesOwn, OfExchange
    <3>2. \A i \in 1..Len(rx) : rx[i].own /\ rx[i].sid = request.sid
      BY DEF Sound, FramesOwn, OfExchange
    <3>3. Listening' /\ (\A i \in 1..Len(rx') : rx'[i].own /\ rx'[i].sid = request'.sid)
      BY <1>2, <1>3, <2>1, <3>2
    <3>4. \A i \in 1..Len(ecuOut') : ecuOut'[i].own /\ ecuOut'[i].sid = request'.sid
      BY <1>3, <3>1
    <3> QED
      BY <2>6, <3>3, <3>4 DEF FramesOwn, OfExchange
  <2>9. FinalIsLast'
    <3>1. NoneAsks'
      BY <2>6 DEF NoneAsks
    <3>2. \A i \in 1..Len(ecuOut') : ecuOut'[i].kind # "pending" => i = Len(ecuOut')
      BY <2>5, <2>7
    <3> QED
      BY <1>2, <2>7, <3>1, <3>2 DEF FinalIsLast, Final
  <2>10. SessionsAgree'
    <3>1. CASE request.sid = "StartDiagSession"
      <4>1. Serving /\ Changing /\ resp_chan = <<>> /\ Len(resp_chan) = 0
        BY <2>1, <3>1, ServedIsCalled
      <4>2. ASSUME NEW i \in 1..Len(ecuOut'), ecuOut'[i].kind = "positive"
            PROVE  ecuSession' = request.arg
        <5>1. kind = "positive"
          BY <2>3, <2>5, <2>7, <4>2
        <5> QED
          BY <1>1, <2>1, <3>1, <5>1
      <4>3. \A i \in 1..Len(rx') : rx'[i].kind # "positive"
        BY <1>2, <2>7
      <4> QED
        BY <1>3, <4>1, <4>2, <4>3 DEF Sound, SessionsAgree, Changing, Waiting, Serving, Grants
    <3>2. CASE request.sid # "StartDiagSession"
      <4>1. ecuSession' = ecuSession
        BY <1>1, <2>1, <3>2
      <4> QED
        BY <1>3, <3>2, <4>1 DEF Sound, SessionsAgree, Changing, Waiting, Serving
    <3> QED
      BY <3>1, <3>2
  <2> QED
    BY <1>3, <2>8, <2>9, <2>10 DEF Sound
<1> QED
  BY <1>6, <1>7

LEMMA EcuResponsePendingSound ==
  ASSUME TypeOK, Discipline, Sound, EcuResponsePending
  PROVE  Sound'
<1> DEFINE frame == Head(ecuIn)
           reply == [sid |-> frame.req.sid, kind |-> "pending", own |-> frame.own]
<1>1. /\ ecuIn # <<>> /\ frame.req.answered /\ ecuOut' = Append(ecuOut, reply)
      /\ UNCHANGED <<ecuSession, ecuIn, rx>> /\ busUnchanged
  BY DEF EcuResponsePending
<1>2. /\ UNCHANGED <<client, call, should_run, curr_session_type, resp_chan, thread, job,
                     request>>
      /\ NeverReconnects' /\ OwnAnswers' /\ (Listening' <=> Listening)
      /\ (Serving' <=> Serving)
  BY <1>1, ThreadsKept
<1>3. 1 \in 1..Len(ecuIn) /\ frame = ecuIn[1] /\ ecuIn[1] \in Sent
  BY <1>1, TailParts DEF TypeOK
<1> HIDE DEF frame
<1>4. Listening /\ frame.own /\ frame.req = request /\ ~NoneAsks
  BY <1>1, <1>3 DEF Sound, FramesOwn, Asking, NoneAsks
<1>5. frame.req.sid \in Sids /\ frame.own \in BOOLEAN
  BY <1>3 DEF Sent, Request
<1>6. reply \in Reply /\ reply.sid = request.sid /\ reply.own /\ reply.kind = "pending"
  BY <1>4, <1>5 DEF Reply
<1> HIDE DEF reply
<1>7. \A i \in 1..Len(ecuOut') : \/ i \in 1..Len(ecuOut) /\ ecuOut'[i] = ecuOut[i]
                                 \/ ecuOut'[i] = reply
  BY <1>1, <1>6, AppendParts DEF TypeOK
<1>8. /\ \A i \in 1..Len(rx) : rx[i].kind = "pending"
      /\ \A i \in 1..Len(ecuOut) : ecuOut[i].kind = "pending"
  BY <1>4 DEF Sound, FinalIsLast, Final
<1>9. \A i \in 1..Len(ecuOut') :
        ecuOut'[i].kind = "pending" /\ ecuOut'[i].own /\ ecuOut'[i].sid = request.sid
  BY <1>6, <1>7, <1>8 DEF Sound, FramesOwn, OfExchange
<1>10. FramesOwn'
  <2>1. \A i \in 1..Len(rx) : rx[i].own /\ rx[i].sid = request.sid
    BY DEF Sound, FramesOwn, OfExchange
  <2>2. \A i \in 1..Len(ecuIn) :
          /\ Asking(ecuIn[i]) => Listening /\ ecuIn[i].own /\ ecuIn[i].req = request
                                   /\ i = Len(ecuIn)
          /\ ~Asking(ecuIn[i]) => ecuIn[i].req.sid = "TesterPresent"
    BY DEF Sound, FramesOwn
  <2> QED
    BY <1>1, <1>2, <1>4, <1>9, <2>1, <2>2 DEF FramesOwn, Asking, OfExchange
<1>11. FinalIsLast'
  BY <1>1, <1>8, <1>9 DEF FinalIsLast, Final
<1>12. SessionsAgree'
  <2>1. \A i \in 1..Len(ecuOut') : ecuOut'[i].kind # "positive"
    BY <1>9
  <2> QED
    BY <1>1, <1>2, <2>1 DEF Sound, SessionsAgree, Changing, Waiting, Serving, Grants
<1> QED
  BY <1>2, <1>10, <1>11, <1>12 DEF Sound

LEMMA DeliverReplySound ==
  ASSUME TypeOK, Discipline, Sound, DeliverReply
  PROVE  Sound'
<1>1. /\ ecuOut # <<>> /\ ecuOut' = Tail(ecuOut)
      /\ rx' = IF iface = "open" THEN Append(rx, Head(ecuOut)) ELSE rx
      /\ UNCHANGED <<ecuSession, ecuIn>> /\ busUnchanged
  BY DEF DeliverReply
<1>2. /\ UNCHANGED <<client, call, should_run, curr_session_type, resp_chan, thread, job,
                     request>>
      /\ NeverReconnects' /\ OwnAnswers' /\ (Listening' <=> Listening)
      /\ (Serving' <=> Serving)
  BY <1>1, ThreadsKept
<1>3. /\ Len(ecuOut') = Len(ecuOut) - 1 /\ Len(ecuOut) \in Nat
      /\ 1 \in 1..Len(ecuOut) /\ Head(ecuOut) = ecuOut[1] /\ ecuOut[1] \in Reply
      /\ \A i \in 1..Len(ecuOut') : i + 1 \in 1..Len(ecuOut) /\ ecuOut'[i] = ecuOut[i + 1]
      /\ Len(ecuOut) = 1 => ecuOut' = <<>>
  BY <1>1, TailParts DEF TypeOK
<1>4. /\ \A i \in 1..Len(rx') : \/ i \in 1..Len(rx) /\ rx'[i] = rx[i]
                                \/ i = Len(rx') /\ rx'[i] = ecuOut[1]
  <2>1. CASE iface = "open"
    BY <1>1, <1>3, <2>1, AppendParts DEF TypeOK
  <2>2. CASE iface # "open"
    BY <1>1, <2>2
  <2> QED
    BY <2>1, <2>2
<1>5. Listening
  BY <1>1 DEF Sound, FramesOwn
<1>6. (NoneAsks' <=> NoneAsks) /\ \A i \in 1..Len(rx) : rx[i].kind = "pending"
  BY <1>1 DEF Sound, FinalIsLast, Final, NoneAsks, Asking
<1>7. FramesOwn'
  <2>1. \A i \in 1..Len(rx') : rx'[i].own /\ rx'[i].sid = request.sid
    BY <1>3, <1>4 DEF Sound, FramesOwn, OfExchange
  <2>2. \A i \in 1..Len(ecuOut') : ecuOut'[i].own /\ ecuOut'[i].sid = request.sid
    BY <1>3 DEF Sound, FramesOwn, OfExchange
  <2>3. \A i \in 1..Len(ecuIn) :
          /\ Asking(ecuIn[i]) => Listening /\ ecuIn[i].own /\ ecuIn[i].req = request
                                   /\ i = Len(ecuIn)
          /\ ~Asking(ecuIn[i]) => ecuIn[i].req.sid = "TesterPresent"
    BY DEF Sound, FramesOwn
  <2> QED
    BY <1>1, <1>2, <1>5, <2>1, <2>2, <2>3 DEF FramesOwn, Asking, OfExchange
<1>8. FinalIsLast'
  <2>1. ASSUME NEW i \in 1..Len(rx'), rx'[i].kind # "pending"
        PROVE  i = Len(rx') /\ ecuOut' = <<>> /\ NoneAsks
    <3>1. i = Len(rx') /\ ecuOut[1].kind # "pending"
      BY <1>4, <1>6, <2>1
    <3> QED
      BY <1>3, <3>1 DEF Sound, FinalIsLast, Final
  <2>2. ASSUME NEW i \in 1..Len(ecuOut'), ecuOut'[i].kind # "pending"
        PROVE  i = Len(ecuOut') /\ NoneAsks
    <3>1. i + 1 = Len(ecuOut) /\ NoneAsks
      BY <1>3, <2>2 DEF Sound, FinalIsLast, Final
    <3> QED
      BY <1>3, <3>1
  <2> QED
    BY <1>6, <2>1, <2>2 DEF FinalIsLast, Final
<1>9. SessionsAgree'
  <2>1. Serving /\ request.sid = "StartDiagSession" =>
          /\ \A i \in 1..Len(rx') : rx'[i].kind = "positive" => ecuSession = request.arg
          /\ \A i \in 1..Len(ecuOut') : ecuOut'[i].kind = "positive" => ecuSession = request.arg
    BY <1>3, <1>4 DEF Sound, SessionsAgree, Grants
  <2> QED
    BY <1>1, <1>2, <2>1 DEF Sound, SessionsAgree, Changing, Waiting, Serving, Grants
<1> QED
  BY <1>2, <1>7, <1>8, <1>9 DEF Sound

LEMMA LoseReplySound ==
  ASSUME TypeOK, Discipline, Sound, LoseReply
  PROVE  Sound'
<1>1. /\ ecuOut # <<>> /\ ecuOut' = Tail(ecuOut)
      /\ UNCHANGED <<ecuSession, ecuIn, rx>> /\ busUnchanged
  BY DEF LoseReply
<1>2. /\ UNCHANGED <<client, call, should_run, curr_session_type, resp_chan, thread, job,
                     request>>
      /\ NeverReconnects' /\ OwnAnswers' /\ (Listening' <=> Listening)
      /\ (Serving' <=> Serving)
  BY <1>1, ThreadsKept
<1>3. /\ Len(ecuOut') = Len(ecuOut) - 1 /\ Len(ecuOut) \in Nat
      /\ \A i \in 1..Len(ecuOut') : i + 1 \in 1..Len(ecuOut) /\ ecuOut'[i] = ecuOut[i + 1]
  BY <1>1, TailParts DEF TypeOK
<1>4. Listening
  BY <1>1 DEF Sound, FramesOwn
<1>5. (NoneAsks' <=> NoneAsks) /\ \A i \in 1..Len(rx) : rx[i].kind = "pending"
  BY <1>1 DEF Sound, FinalIsLast, Final, NoneAsks, Asking
<1>6. FramesOwn'
  BY <1>1, <1>2, <1>3, <1>4 DEF Sound, FramesOwn, Asking, OfExchange
<1>7. FinalIsLast'
  <2>1. ASSUME NEW i \in 1..Len(ecuOut'), ecuOut'[i].kind # "pending"
        PROVE  i = Len(ecuOut') /\ NoneAsks
    <3>1. i + 1 = Len(ecuOut) /\ NoneAsks
      BY <1>3, <2>1 DEF Sound, FinalIsLast, Final
    <3> QED
      BY <1>3, <3>1
  <2> QED
    BY <1>1, <1>5, <2>1 DEF FinalIsLast, Final
<1>8. SessionsAgree'
  BY <1>1, <1>2, <1>3 DEF Sound, SessionsAgree, Changing, Waiting, Serving, Grants
<1> QED
  BY <1>2, <1>6, <1>7, <1>8 DEF Sound

LEMMA EcuSound ==
  ASSUME TypeOK, Discipline, Sound, Ecu, ~disturbed'
  PROVE  Sound'
<1>1. CASE PowerOff
  BY <1>1 DEF PowerOff
<1>2. CASE PowerOn
  <2>1. UNCHANGED <<ecuSession, ecuIn, ecuOut, rx>> /\ busUnchanged
    BY <1>2 DEF PowerOn
  <2>2. /\ UNCHANGED <<client, call, should_run, curr_session_type, resp_chan, thread, job,
                       request>>
        /\ NeverReconnects' /\ OwnAnswers'
    BY <2>1, ThreadsKept
  <2>3. FramesOwn' /\ FinalIsLast'
    BY <2>1, <2>2, BusKept
  <2>4. SessionsAgree'
    BY <2>1, <2>2 DEF Sound, SessionsAgree, Changing, Waiting, Serving, Grants
  <2> QED
    BY <2>2, <2>3, <2>4 DEF Sound
<1> QED
  BY <1>1, <1>2, EcuAnswerSound, EcuResponsePendingSound, DeliverReplySound, LoseReplySound
  DEF Ecu

LEMMA DisturbedStays ==
  ASSUME TypeOK, [Next]_vars, ~disturbed'
  PROVE  ~disturbed
<1> USE DEF clientVars, threadVars, chanVars, ecuVars
<1>1. CASE TakeAnswer
  BY <1>1 DEF TakeAnswer, TakeAnswerRecording
<1>2. CASE ReceiveReply
  BY <1>2 DEF ReceiveReply
<1>3. CASE SendFailed \/ ReceiveTimeout \/ PowerOff
  BY <1>3 DEF SendFailed, ReceiveTimeout, PowerOff
<1>4. CASE ~(TakeAnswer \/ ReceiveReply \/ SendFailed \/ ReceiveTimeout \/ PowerOff)
  <2>1. disturbed' = disturbed
    BY <1>4 DEF Next, Client, Server, Exchange, Ecu, vars, Connect, RunCommand,
                SetDiagSessionMode, SetDiagSessionModeOnDeadServer, Panic, ExitDiagSession,
                LoopTop, TakeCommand, NoCommand, BeginTesterPresent, SkipTesterPresent,
                BeginReconnect, BeginExchange, SendRequest, SendUnanswered, ResponsePending,
                CloseInterface, EcuAnswer, EcuResponsePending, DeliverReply, LoseReply,
                PowerOn
  <2> QED
    BY <2>1
<1> QED
  BY <1>1, <1>2, <1>3, <1>4

LEMMA InitSound == Init => Sound
<1> SUFFICES ASSUME Init PROVE Sound
  OBVIOUS
<1>1. Len(ecuIn) = 0 /\ Len(ecuOut) = 0 /\ Len(rx) = 0 /\ Len(resp_chan) = 0
      /\ ecuOut = <<>> /\ rx = <<>>
  BY DEF Init
<1>2. FramesOwn /\ FinalIsLast /\ OwnAnswers
  BY <1>1 DEF FramesOwn, FinalIsLast, OwnAnswers
<1>3. NeverReconnects
  BY DEF Init, NeverReconnects, Exchanging, TesterPresent
<1>4. SessionsAgree
  BY <1>1 DEF Init, SessionsAgree, StartDiagSession, Serving
<1> QED
  BY <1>2, <1>3, <1>4 DEF Sound

LEMMA SoundStep ==
  ASSUME TypeOK, Discipline, ~disturbed => Sound, [Next]_vars, ~disturbed'
  PROVE  Sound'
<1>1. Sound
  BY DisturbedStays
<1>2. CASE UNCHANGED vars
  <2>1. UNCHANGED <<client, call, should_run, curr_session_type, resp_chan, thread, job,
                    request, rx, ecuSession, ecuIn, ecuOut>>
    BY <1>2 DEF vars, clientVars, threadVars, chanVars, ecuVars
  <2>2. NeverReconnects' /\ OwnAnswers' /\ SessionsAgree'
    BY <1>1, <2>1 DEF Sound, NeverReconnects, OwnAnswers, SessionsAgree, Changing, Waiting,
                      Serving, Grants
  <2> QED
    BY <1>1, <2>1, <2>2, BusKept DEF Sound
<1> QED
  BY <1>1, <1>2, ClientSound, ServerSound, EcuSound DEF Next

(* Until an answer is given up every answer the caller gets is the ECU's   *)
(* final one to that very request, the recorded session is the one the ECU *)
(* is in, and the session does not end by itself.                          *)
THEOREM UndisturbedSessionHolds == Spec => []UndisturbedSession
<1>1. UInv => UndisturbedSession
  <2> SUFFICES ASSUME TypeOK, ~disturbed => Sound PROVE UndisturbedSession
    BY DEF UInv, IInv
  <2>1. ~disturbed => \A i \in DOMAIN resp_chan : resp_chan[i].own
    <3>1. DOMAIN resp_chan = 1..Len(resp_chan)
      BY DEF TypeOK
    <3> QED
      BY <3>1 DEF Sound, OwnAnswers
  <2>2. RecordedSessionIsReal
    BY DEF RecordedSessionIsReal, Sound, SessionsAgree, Changing, Waiting
  <2>3. NoSpuriousStop
    BY DEF NoSpuriousStop, Sound, NeverReconnects
  <2> QED
    BY <2>1, <2>2, <2>3 DEF UndisturbedSession, UndisturbedAnswersAreOwn
<1>2. Init => UInv
  BY InitTypeOK, InitChannels, InitSound DEF UInv, IInv
<1>3. UInv /\ [Next]_vars => UInv'
  <2> SUFFICES ASSUME UInv, [Next]_vars PROVE UInv'
    OBVIOUS
  <2>1. IInv /\ IInv' /\ (~disturbed => Sound)
    BY IInvStep DEF UInv
  <2>2. ~disturbed' => Sound'
    BY <2>1, SoundStep DEF IInv
  <2> QED
    BY <2>1, <2>2 DEF UInv
<1> QED
  BY <1>1, <1>2, <1>3, PTL DEF Spec
=============================================================================
