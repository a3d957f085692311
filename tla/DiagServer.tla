------------------------------ MODULE DiagServer ------------------------------
(***************************************************************************)
(* One diagnostic session of the KWP2000 or the UDS server                 *)
(* (protocols/kwp2000/mod.rs, protocols/uds/mod.rs, protocols/mod.rs).     *)
(*                                                                         *)
(* The UI thread holds the server handle (KWP2000ECU / UDSECU) and blocks  *)
(* in run_command; the server thread owns the interface, serves one        *)
(* command at a time, sends tester present while the recorded session is   *)
(* not the default one, and closes the interface when should_run is        *)
(* cleared.  At the other end of the bus is an ECU (external) that answers *)
(* late, more than once ("response pending"), negatively or not at all.    *)
(*                                                                         *)
(* The handle holds an Arc<Receiver>, which is not Send: all callers of    *)
(* one server live in the UI thread, so cmd_mutex is never contended and   *)
(* is not a variable here.                                                 *)
(***************************************************************************)
EXTENDS Naturals, Sequences

CONSTANTS
  Protocol,    \* "KWP2000" or "UDS"
  Modes,       \* diagnostic sessions of the ECU
  Services,    \* every other service the UI runs
  MaxInFlight  \* bound: frames the bus and the receive buffer hold each

ASSUME ServerAssumption ==
  /\ Protocol \in {"KWP2000", "UDS"}
  /\ {"Default", "Extended"} \subseteq Modes
  /\ "StartDiagSession" \notin Services
  /\ "TesterPresent" \notin Services
  /\ MaxInFlight \in Nat \ {0}

VARIABLES
  client,             \* the UI thread's place in the server API
  call,               \* its last request, and whether set_diag_session_mode made it
  global_id,          \* DiagCfg::global_id is Some: tester present is functional
  should_run,         \* the flag both threads share
  curr_session_type,  \* the session both threads believe the ECU to be in
  cmd_chan,           \* cmd_tx to channel_tx_receiver
  resp_chan,          \* channel_rx_sender to cmd_rx
  thread,             \* the server thread's place in its loop
  job,                \* what the exchange on the bus is for
  request,            \* the request of that exchange
  iface,              \* "open" until the thread calls Interface::close
  rx,                 \* replies received and not yet read
  powered, ecuSession, ecuIn, ecuOut,  \* the ECU and the frames under way
  disturbed           \* history: an answer was given up, the ECU lost power, or
                      \* its session was changed behind the server's back

clientVars == <<client, call, global_id>>
threadVars == <<thread, job, request>>
chanVars   == <<cmd_chan, resp_chan>>
ecuVars    == <<powered, ecuSession, ecuIn, ecuOut>>
vars == <<clientVars, should_run, curr_session_type, chanVars, threadVars,
          iface, rx, ecuVars, disturbed>>
-----------------------------------------------------------------------------
(* Requests, replies and results.  "own" tells a frame of the exchange in  *)
(* progress from a frame an earlier exchange left behind.                  *)

Sids == Services \cup {"StartDiagSession", "TesterPresent"}

Request == [sid : Sids, arg : Modes \cup {"none"}, answered : BOOLEAN]

StartDiagSession(mode) ==
  [sid |-> "StartDiagSession", arg |-> mode, answered |-> TRUE]
RunService(sid) == [sid |-> sid, arg |-> "none", answered |-> TRUE]
TesterPresent ==
  [sid |-> "TesterPresent", arg |-> "none",
   answered |-> ~(Protocol = "KWP2000" /\ global_id)]

Sent   == [req : Request, own : BOOLEAN]
Reply  == [sid : Sids, kind : {"positive", "negative", "pending"}, own : BOOLEAN]
Result == [kind : {"ok", "negative", "comm", "mismatch"}, own : BOOLEAN]

LeftBehind(frames) ==
  [i \in DOMAIN frames |-> [frames[i] EXCEPT !.own = FALSE]]
-----------------------------------------------------------------------------
Init ==
  /\ client = "new"
  /\ call = [req |-> StartDiagSession("Extended"), setting |-> TRUE]
  /\ global_id \in BOOLEAN
  /\ Protocol = "UDS" => ~global_id   \* the UDS server never looks at it
  /\ should_run = TRUE
  /\ curr_session_type = "Default"
  /\ cmd_chan = <<>> /\ resp_chan = <<>>
  /\ thread = "top" /\ job = "none" /\ request = TesterPresent
  /\ iface = "open" /\ rx = <<>>
  /\ powered \in BOOLEAN /\ ecuSession \in Modes
  /\ ecuIn = <<>> /\ ecuOut = <<>>
  /\ disturbed = FALSE
-----------------------------------------------------------------------------
(* The UI thread.                                                          *)

Waiting == client \in {"starting", "waiting"}

Submit(req, setting, place) ==
  /\ cmd_chan' = Append(cmd_chan, req)
  /\ call' = [req |-> req, setting |-> setting]
  /\ client' = place
  /\ UNCHANGED global_id

\* start_diag_session ends with set_diag_session_mode(Extended).
Connect ==
  /\ client = "new"
  /\ Submit(StartDiagSession("Extended"), TRUE, "starting")
  /\ UNCHANGED <<should_run, curr_session_type, resp_chan, threadVars, iface,
                 rx, ecuVars, disturbed>>

\* run_command: any service; StartDiagSession too may be run raw (run_cmd).
RunCommand ==
  /\ client = "ready" /\ thread # "dead"
  /\ \/ \E s \in Services : Submit(RunService(s), FALSE, "waiting")
     \/ \E m \in Modes : Submit(StartDiagSession(m), FALSE, "waiting")
  /\ UNCHANGED <<should_run, curr_session_type, resp_chan, threadVars, iface,
                 rx, ecuVars, disturbed>>

\* set_kwp_session, a mode of the KWP2000 server only.
SetDiagSessionMode ==
  /\ client = "ready" /\ thread # "dead" /\ Protocol = "KWP2000"
  /\ \E m \in Modes : Submit(StartDiagSession(m), TRUE, "waiting")
  /\ UNCHANGED <<should_run, curr_session_type, resp_chan, threadVars, iface,
                 rx, ecuVars, disturbed>>

\* cmd_tx.send fails once the thread has dropped its receiver.
SetDiagSessionModeOnDeadServer ==
  /\ client = "ready" /\ thread = "dead" /\ Protocol = "KWP2000"
  /\ curr_session_type' = "Default"
  /\ UNCHANGED <<clientVars, should_run, chanVars, threadVars, iface, rx,
                 ecuVars, disturbed>>

\* The UI thread wakes with an answer; set_diag_session_mode records a session.
TakeAnswerRecording(session, ok) ==
  /\ Waiting /\ resp_chan # <<>>
  /\ curr_session_type' = IF call.setting THEN session ELSE curr_session_type
  /\ LET startFailed == client = "starting" /\ ~ok
     IN /\ should_run' = (should_run /\ ~startFailed)
        /\ client' = IF startFailed THEN "gone" ELSE "ready"
        /\ disturbed' = (disturbed \/ (~call.setting
                                        /\ call.req.sid = "StartDiagSession"))
  /\ resp_chan' = Tail(resp_chan)
  /\ UNCHANGED <<call, global_id, cmd_chan, threadVars, iface, rx, ecuVars>>

\* Faults of TakeAnswer: the refused mode is recorded too; the outcome is
\* recorded in place of the mode.
TakeAnswer_RefusedModeToo ==
  TakeAnswerRecording(call.req.arg, Head(resp_chan).kind = "ok")
TakeAnswer_OutcomeForMode ==
  TakeAnswerRecording(Head(resp_chan).kind, Head(resp_chan).kind = "ok")

\* cmd_rx.recv returns; set_diag_session_mode records the outcome.
TakeAnswer ==
  LET ok == Head(resp_chan).kind = "ok"
  IN TakeAnswerRecording(IF ok THEN call.req.arg ELSE "Default", ok)

\* cmd_rx.recv().unwrap() on a channel whose sender is gone.
Panic ==
  /\ Waiting /\ resp_chan = <<>> /\ thread = "dead"
  /\ client' = "panicked"
  /\ UNCHANGED <<call, global_id, should_run, curr_session_type, chanVars,
                 threadVars, iface, rx, ecuVars, disturbed>>

\* exit_diag_session; the handle is dropped with it.
ExitDiagSession ==
  /\ client = "ready"
  /\ client' = "gone"
  /\ should_run' = FALSE
  /\ UNCHANGED <<call, global_id, curr_session_type, chanVars, threadVars,
                 iface, rx, ecuVars, disturbed>>
-----------------------------------------------------------------------------
(* The server thread.                                                      *)

\* Fault: the loop no longer looks at should_run.
LoopTop_Forever ==
  /\ thread = "top"
  /\ thread' = "poll"
  /\ UNCHANGED <<clientVars, should_run, curr_session_type, chanVars, job,
                 request, iface, rx, ecuVars, disturbed>>

LoopTop ==
  /\ thread = "top"
  /\ thread' = IF should_run THEN "poll" ELSE "closing"
  /\ UNCHANGED <<clientVars, should_run, curr_session_type, chanVars, job,
                 request, iface, rx, ecuVars, disturbed>>

BeginExchange(req, purpose) ==
  /\ thread' = "send" /\ job' = purpose /\ request' = req
  /\ rx' = LeftBehind(rx)
  /\ ecuIn' = LeftBehind(ecuIn)
  /\ ecuOut' = LeftBehind(ecuOut)
  /\ UNCHANGED <<clientVars, should_run, curr_session_type, resp_chan, iface,
                 powered, ecuSession, disturbed>>

\* Fault: the command stays in the queue.
TakeCommand_Peek ==
  /\ thread = "poll" /\ cmd_chan # <<>>
  /\ UNCHANGED cmd_chan
  /\ BeginExchange(Head(cmd_chan), "command")

\* channel_tx_receiver.try_recv
TakeCommand ==
  /\ thread = "poll" /\ cmd_chan # <<>>
  /\ cmd_chan' = Tail(cmd_chan)
  /\ BeginExchange(Head(cmd_chan), "command")

NoCommand ==
  /\ thread = "poll" /\ cmd_chan = <<>>
  /\ thread' = "timer"
  /\ UNCHANGED <<clientVars, should_run, curr_session_type, chanVars, job,
                 request, iface, rx, ecuVars, disturbed>>

\* 2000 ms are over and the recorded session needs tester present.
BeginTesterPresent ==
  /\ thread = "timer" /\ curr_session_type # "Default"
  /\ UNCHANGED cmd_chan
  /\ BeginExchange(TesterPresent, "tester")

SkipTesterPresent ==
  /\ thread = "timer"
  /\ thread' = "top"
  /\ UNCHANGED <<clientVars, should_run, curr_session_type, chanVars, job,
                 request, iface, rx, ecuVars, disturbed>>

\* KWP2000: tester present got an answer to something else (is_timeout).
BeginReconnect ==
  /\ thread = "reconnect"
  /\ UNCHANGED cmd_chan
  /\ BeginExchange(StartDiagSession("Extended"), "reconnect")

\* The loop after run_command_resp: who gets the result, who stops the thread.
FinishWith(result, answers, reconnects, stops) ==
  /\ resp_chan' = IF job = "command" /\ answers THEN Append(resp_chan, result)
                  ELSE resp_chan
  /\ should_run' = (should_run /\ ~stops)
  /\ thread' =
       CASE job = "command" /\ client \in {"gone", "panicked"} -> "closing"
         [] job = "command" /\ client \notin {"gone", "panicked"} -> "timer"
         [] job = "tester" /\ Protocol = "KWP2000" /\ reconnects -> "reconnect"
         [] OTHER -> "top"
  /\ job' = "none"
  /\ UNCHANGED <<clientVars, curr_session_type, cmd_chan, request, iface,
                 powered, ecuSession>>

\* Faults of Finish: only positive results are handed back; any failed tester
\* present is taken for a lost ECU; a failed tester present stops the thread.
Finish_AnswersOnlyOk(result) ==
  FinishWith(result, result.kind = "ok", result.kind = "mismatch",
             job = "reconnect" /\ result.kind # "ok")
Finish_ReconnectsOnRefusal(result) ==
  FinishWith(result, TRUE, result.kind # "ok",
             job = "reconnect" /\ result.kind # "ok")

\* KWP2000 reconnects when is_timeout() says so, and stops when that fails too.
Finish(result) ==
  FinishWith(result, TRUE, result.kind = "mismatch",
             job = "reconnect" /\ result.kind # "ok")

\* The frame reaches the ECU, or is lost on the way.
Transmit ==
  \/ UNCHANGED ecuIn
  \/ /\ powered /\ Len(ecuIn) < MaxInFlight
     /\ ecuIn' = Append(ecuIn, [req |-> request, own |-> TRUE])

\* Interface::send_recv_data: drop what is buffered, then send.
SendRequest ==
  /\ thread = "send" /\ request.answered
  /\ rx' = <<>>
  /\ Transmit
  /\ thread' = "recv"
  /\ UNCHANGED <<clientVars, should_run, curr_session_type, chanVars, job,
                 request, iface, powered, ecuSession, ecuOut, disturbed>>

\* clear_buffer or send_data failed; the frame may be out all the same.
SendFailed ==
  /\ thread = "send" /\ request.answered
  /\ \/ rx' = rx /\ UNCHANGED ecuIn
     \/ rx' = <<>> /\ Transmit
  /\ Finish([kind |-> "comm", own |-> FALSE])
  /\ disturbed' = TRUE
  /\ UNCHANGED ecuOut

\* Functional tester present: send_data only.
SendUnanswered ==
  /\ thread = "send" /\ ~request.answered
  /\ Transmit
  /\ \E kind \in {"ok", "comm"} : Finish([kind |-> kind, own |-> TRUE])
  /\ UNCHANGED <<rx, ecuOut, disturbed>>

\* The first reply announces that the final one takes longer.
ResponsePending ==
  /\ thread = "recv" /\ rx # <<>> /\ Head(rx).kind = "pending"
  /\ thread' = "recv_final"
  /\ rx' = Tail(rx)
  /\ UNCHANGED <<clientVars, should_run, curr_session_type, chanVars, job,
                 request, iface, ecuVars, disturbed>>

\* Only a positive reply is compared with the request's service.
Outcome(reply) ==
  IF reply.kind # "positive" THEN "negative"
  ELSE IF reply.sid = request.sid THEN "ok" ELSE "mismatch"

\* Fault: a pending response is handed back as if it were final.
ReceiveReply_PendingIsFinal ==
  /\ thread \in {"recv", "recv_final"} /\ rx # <<>>
  /\ LET reply == Head(rx) IN
       /\ Finish([kind |-> Outcome(reply), own |-> reply.own])
       /\ disturbed' = (disturbed \/ (thread = "recv_final"
                                       /\ reply.kind = "pending"))
  /\ rx' = Tail(rx)
  /\ UNCHANGED <<ecuIn, ecuOut>>

ReceiveReply ==
  /\ thread \in {"recv", "recv_final"} /\ rx # <<>>
  /\ LET reply == Head(rx) IN
       /\ ~(thread = "recv" /\ reply.kind = "pending")
       /\ Finish([kind |-> Outcome(reply), own |-> reply.own])
       /\ disturbed' = (disturbed \/ (thread = "recv_final"
                                       /\ reply.kind = "pending"))
  /\ rx' = Tail(rx)
  /\ UNCHANGED <<ecuIn, ecuOut>>

\* send_recv_data fails with a ComServerError; an empty second read ends as
\* the pending response itself.
ReceiveTimeout ==
  /\ thread \in {"recv", "recv_final"} /\ rx = <<>>
  /\ Finish([kind |-> IF thread = "recv" THEN "comm" ELSE "negative",
             own |-> FALSE])
  /\ disturbed' = TRUE
  /\ UNCHANGED <<rx, ecuIn, ecuOut>>

\* After the loop: Interface::close, then the thread's captures are dropped.
CloseInterface ==
  /\ thread = "closing"
  /\ thread' = "dead"
  /\ iface' = "closed"
  /\ cmd_chan' = <<>> /\ rx' = <<>>
  /\ UNCHANGED <<clientVars, should_run, curr_session_type, resp_chan, job,
                 request, ecuVars, disturbed>>
-----------------------------------------------------------------------------
(* The ECU and the bus (external).                                         *)

busUnchanged == UNCHANGED <<clientVars, should_run, curr_session_type, chanVars,
                            threadVars, iface>>

EcuAnswer ==
  /\ powered /\ ecuIn # <<>> /\ Len(ecuOut) < MaxInFlight
  /\ \E kind \in {"positive", "negative"} :
       LET frame == Head(ecuIn) IN
       /\ ecuSession' = IF kind = "positive" /\ frame.req.sid = "StartDiagSession"
                        THEN frame.req.arg ELSE ecuSession
       /\ ecuOut' = IF frame.req.answered
                    THEN Append(ecuOut, [sid |-> frame.req.sid, kind |-> kind,
                                         own |-> frame.own])
                    ELSE ecuOut
  /\ ecuIn' = Tail(ecuIn)
  /\ UNCHANGED <<powered, rx, disturbed>> /\ busUnchanged

EcuResponsePending ==
  /\ powered /\ ecuIn # <<>> /\ Len(ecuOut) < MaxInFlight
  /\ Head(ecuIn).req.answered
  /\ ecuOut' = Append(ecuOut, [sid |-> Head(ecuIn).req.sid, kind |-> "pending",
                               own |-> Head(ecuIn).own])
  /\ UNCHANGED <<powered, ecuSession, ecuIn, rx, disturbed>> /\ busUnchanged

DeliverReply ==
  /\ ecuOut # <<>> /\ Len(rx) < MaxInFlight
  /\ rx' = IF iface = "open" THEN Append(rx, Head(ecuOut)) ELSE rx
  /\ ecuOut' = Tail(ecuOut)
  /\ UNCHANGED <<powered, ecuSession, ecuIn, disturbed>> /\ busUnchanged

LoseReply ==
  /\ ecuOut # <<>>
  /\ ecuOut' = Tail(ecuOut)
  /\ UNCHANGED <<powered, ecuSession, ecuIn, rx, disturbed>> /\ busUnchanged

PowerOff ==
  /\ powered
  /\ powered' = FALSE /\ ecuSession' = "Default" /\ ecuIn' = <<>>
  /\ disturbed' = TRUE
  /\ UNCHANGED <<ecuOut, rx>> /\ busUnchanged

PowerOn ==
  /\ ~powered
  /\ powered' = TRUE
  /\ UNCHANGED <<ecuSession, ecuIn, ecuOut, rx, disturbed>> /\ busUnchanged
-----------------------------------------------------------------------------
Client == Connect \/ RunCommand \/ SetDiagSessionMode
            \/ SetDiagSessionModeOnDeadServer \/ TakeAnswer \/ Panic
            \/ ExitDiagSession

Exchange == SendRequest \/ SendFailed \/ SendUnanswered \/ ResponsePending
              \/ ReceiveReply \/ ReceiveTimeout

Server == LoopTop \/ TakeCommand \/ NoCommand \/ BeginTesterPresent
            \/ SkipTesterPresent \/ BeginReconnect \/ Exchange \/ CloseInterface

Ecu == EcuAnswer \/ EcuResponsePending \/ DeliverReply \/ LoseReply
         \/ PowerOff \/ PowerOn

Next == Client \/ Server \/ Ecu

Spec == Init /\ [][Next]_vars

(* The server thread runs until it ends, its 2000 ms timer keeps elapsing, *)
(* and a blocked UI thread wakes when its channel has an answer or has     *)
(* died.  Nothing obliges the user, the ECU or the bus.                    *)
FairSpec ==
  /\ Spec
  /\ WF_vars(Server)
  /\ SF_vars(BeginTesterPresent)
  /\ WF_vars(TakeAnswer \/ Panic)
-----------------------------------------------------------------------------
TypeOK ==
  /\ client \in {"new", "starting", "ready", "waiting", "gone", "panicked"}
  /\ call \in [req : Request, setting : BOOLEAN]
  /\ global_id \in BOOLEAN
  /\ should_run \in BOOLEAN
  /\ curr_session_type \in Modes \cup {"none"}
  /\ cmd_chan \in Seq(Request) /\ resp_chan \in Seq(Result)
  /\ thread \in {"top", "poll", "timer", "send", "recv", "recv_final",
                 "reconnect", "closing", "dead"}
  /\ job \in {"none", "command", "tester", "reconnect"}
  /\ request \in Request
  /\ iface \in {"open", "closed"}
  /\ rx \in Seq(Reply)
  /\ powered \in BOOLEAN
  /\ ecuSession \in Modes \cup {"none"}
  /\ ecuIn \in Seq(Sent) /\ ecuOut \in Seq(Reply)
  /\ disturbed \in BOOLEAN

Serving == job = "command"

(* The two channels carry one conversation: while the UI thread waits, its *)
(* request is in exactly one place (queued, on the bus, or answered), and  *)
(* while it does not wait both channels are empty.  cmd_rx.recv can then   *)
(* never return the answer to a request other than the caller's.           *)
ChannelDiscipline ==
  /\ ~Waiting => cmd_chan = <<>> /\ ~Serving /\ resp_chan = <<>>
  /\ cmd_chan # <<>> => /\ cmd_chan = <<call.req>>
                        /\ ~Serving /\ resp_chan = <<>>
  /\ Serving => request = call.req /\ resp_chan = <<>>
  /\ Len(resp_chan) <= 1
  /\ Waiting /\ thread # "dead" =>
       cmd_chan # <<>> \/ Serving \/ resp_chan # <<>>

(* As long as no answer was given up, every answer the caller gets is the  *)
(* ECU's final answer to that very request: clear_buffer and the wait for  *)
(* the second reply keep replies from slipping by one exchange.            *)
UndisturbedAnswersAreOwn ==
  ~disturbed => \A i \in DOMAIN resp_chan : resp_chan[i].own

(* As long as no answer was given up and nobody started a session behind   *)
(* the server's back, a recorded session other than Default is the session *)
(* the ECU is in, so tester present is sent for a session that exists.     *)
RecordedSessionIsReal ==
  ~disturbed /\ client = "ready" /\ curr_session_type # "Default"
    => ecuSession = curr_session_type

(* A live session ends by itself only after an answer was given up: an ECU *)
(* that answers everything is never declared lost.                         *)
NoSpuriousStop ==
  ~should_run /\ client = "ready" => disturbed

(* Until an answer is given up, the session is sound on both sides: the    *)
(* caller's answers, the recorded session and the server's life are what   *)
(* the ECU made them.                                                      *)
UndisturbedSession == UndisturbedAnswersAreOwn /\ RecordedSessionIsReal /\ NoSpuriousStop

(* run_command never unwraps a dead channel.                               *)
ClientNeverPanics == client # "panicked"

(* A blocked caller gets its answer, whatever the ECU does.                *)
CallsReturn == Waiting ~> client \in {"ready", "gone"}

(* A caller is never blocked for good, even when the answer is a panic.    *)
CallsEnd == Waiting ~> ~Waiting

(* After exit_diag_session, or a failed start, the interface gets closed.  *)
ExitClosesInterface == client = "gone" ~> iface = "closed"
=============================================================================
