---------------------------- MODULE SessionHandover ----------------------------
(***************************************************************************)
(* One diagnostic session after another on one adapter                     *)
(* (UDSECU::start_diag_session and exit_diag_session, the scanner's stage  *)
(* 6, the Connect and Disconnect buttons of a session window).             *)
(*                                                                         *)
(* exit_diag_session only clears should_run: the server thread finishes    *)
(* what it is doing and then closes the interface, in its own time.  The   *)
(* UI thread may open the next session meanwhile.  All sessions use the    *)
(* adapter's one ISO-TP channel, one filter and one receive queue (module  *)
(* SlcanAdapter); every call below holds the adapter's mutex for itself    *)
(* only.  Session s talks to ECU s.  What one server does between start    *)
(* and exit is module DiagServer's subject.                                *)
(***************************************************************************)
EXTENDS Naturals, Sequences, FiniteSets

CONSTANTS
  MaxSessions,  \* bound: sessions the UI starts
  MaxQueue      \* bound: frames in the receive queue

ASSUME HandoverAssumption == MaxSessions \in Nat /\ MaxQueue \in Nat \ {0}

Sessions == 1..MaxSessions

VARIABLES
  ui,             \* the UI thread's place; "waiting" in a session's run_command
  session,        \* the session it started last
  should_run, thread, job,   \* per session: the flag, the server thread's place
                             \* and what its exchange is for
  command, answer,           \* per session: the two channels
  iso_tp_open, iso_tp_filter, iso_receive_queue,  \* the adapter
  asked,          \* ECUs with a request they may answer
  overlap,        \* history: the session began while an older thread was alive
  misdelivered    \* history: since it began, a server took another ECU's answer

sessionVars == <<should_run, thread, job, command, answer>>
adapterVars == <<iso_tp_open, iso_tp_filter, iso_receive_queue>>
vars == <<ui, session, sessionVars, adapterVars, asked, overlap, misdelivered>>
-----------------------------------------------------------------------------
NoFilter == 0

Alive(s) == thread[s] \notin {"unborn", "dead"}

Init ==
  /\ ui = "idle" /\ session = 0
  /\ should_run = [s \in Sessions |-> FALSE]
  /\ thread = [s \in Sessions |-> "unborn"]
  /\ job = [s \in Sessions |-> "none"]
  /\ command = [s \in Sessions |-> FALSE]
  /\ answer = [s \in Sessions |-> "none"]
  /\ iso_tp_open = FALSE /\ iso_tp_filter = NoFilter /\ iso_receive_queue = <<>>
  /\ asked = {} /\ overlap = FALSE /\ misdelivered = FALSE
-----------------------------------------------------------------------------
(* The UI thread: start_diag_session, run_command, exit_diag_session.      *)

\* IsoTPInterface::setup, first half; ui stays "idle" when the adapter refuses.
OpenInterface ==
  /\ ui = "idle" /\ session < MaxSessions
  /\ session' = session + 1
  /\ ui' \in {"setup", "idle"}
  /\ iso_tp_open' = (ui' = "setup")
  /\ iso_tp_filter' = NoFilter /\ iso_receive_queue' = <<>>
  /\ overlap' = (\E s \in Sessions : Alive(s))
  /\ misdelivered' = FALSE
  /\ UNCHANGED <<sessionVars, asked>>

\* set_iso15765_params; error 6 when the channel is gone already.
SetParams ==
  /\ ui = "setup"
  /\ ui' = IF iso_tp_open THEN "filter" ELSE "idle"
  /\ UNCHANGED <<session, sessionVars, adapterVars, asked, overlap, misdelivered>>

\* add_iso15765_filter, error 6 likewise; then the thread is spawned and the
\* session is entered with the first command.
AddFilterAndSpawn ==
  /\ ui = "filter"
  /\ IF iso_tp_open
     THEN /\ iso_tp_filter' = session
          /\ should_run' = [should_run EXCEPT ![session] = TRUE]
          /\ thread' = [thread EXCEPT ![session] = "top"]
          /\ command' = [command EXCEPT ![session] = TRUE]
          /\ ui' = "starting"
     ELSE /\ ui' = "idle"
          /\ UNCHANGED <<iso_tp_filter, should_run, thread, command>>
  /\ UNCHANGED <<session, job, answer, iso_tp_open, iso_receive_queue, asked,
                 overlap, misdelivered>>

\* Fault: a session that could not be entered leaves its thread running.
TakeAnswer_LeavesThread ==
  /\ ui \in {"starting", "waiting"} /\ answer[session] # "none"
  /\ answer' = [answer EXCEPT ![session] = "none"]
  /\ ui' = IF ui = "starting" /\ answer[session] = "error" THEN "idle"
           ELSE "connected"
  /\ UNCHANGED <<session, should_run, thread, job, command, adapterVars, asked,
                 overlap, misdelivered>>

TakeAnswer ==
  /\ ui \in {"starting", "waiting"} /\ answer[session] # "none"
  /\ answer' = [answer EXCEPT ![session] = "none"]
  /\ IF ui = "starting" /\ answer[session] = "error"
     THEN /\ ui' = "idle"
          /\ should_run' = [should_run EXCEPT ![session] = FALSE]
     ELSE ui' = "connected" /\ UNCHANGED should_run
  /\ UNCHANGED <<session, thread, job, command, adapterVars, asked, overlap,
                 misdelivered>>

RunCommand ==
  /\ ui = "connected"
  /\ ui' = "waiting"
  /\ command' = [command EXCEPT ![session] = TRUE]
  /\ UNCHANGED <<session, should_run, thread, job, answer, adapterVars, asked,
                 overlap, misdelivered>>

ExitDiagSession ==
  /\ ui = "connected"
  /\ ui' = "idle"
  /\ should_run' = [should_run EXCEPT ![session] = FALSE]
  /\ UNCHANGED <<session, thread, job, command, answer, adapterVars, asked,
                 overlap, misdelivered>>
-----------------------------------------------------------------------------
(* The server threads.  An exchange is three calls of the adapter.         *)

\* Fault: the loop does not look at should_run.
BeginExchange_Forever(s, purpose) ==
  /\ thread[s] = "top"
  /\ thread' = [thread EXCEPT ![s] = "send"]
  /\ job' = [job EXCEPT ![s] = purpose]
  /\ iso_receive_queue' = <<>>
  /\ UNCHANGED <<ui, session, should_run, answer, iso_tp_open, iso_tp_filter,
                 asked, overlap, misdelivered>>

\* Interface::send_recv_data, clear_buffer(RX).
BeginExchange(s, purpose) ==
  /\ thread[s] = "top" /\ should_run[s]
  /\ thread' = [thread EXCEPT ![s] = "send"]
  /\ job' = [job EXCEPT ![s] = purpose]
  /\ iso_receive_queue' = <<>>
  /\ UNCHANGED <<ui, session, should_run, answer, iso_tp_open, iso_tp_filter,
                 asked, overlap, misdelivered>>

TakeCommand(s) ==
  /\ command[s]
  /\ command' = [command EXCEPT ![s] = FALSE]
  /\ BeginExchange(s, "command")

BeginTesterPresent(s) ==
  /\ ~command[s]
  /\ UNCHANGED command
  /\ BeginExchange(s, "tester")

\* Fault: the exchange is not marked as over.
Finish_KeepsJob(s, outcome) ==
  /\ thread' = [thread EXCEPT ![s] = "top"]
  /\ answer' = IF job[s] = "command" THEN [answer EXCEPT ![s] = outcome] ELSE answer
  /\ UNCHANGED <<ui, session, should_run, job, command, iso_tp_open,
                 iso_tp_filter, overlap>>

Finish(s, outcome) ==
  /\ thread' = [thread EXCEPT ![s] = "top"]
  /\ job' = [job EXCEPT ![s] = "none"]
  /\ answer' = IF job[s] = "command" THEN [answer EXCEPT ![s] = outcome] ELSE answer
  /\ UNCHANGED <<ui, session, should_run, command, iso_tp_open, iso_tp_filter,
                 overlap>>

\* Faults: a send that fails ends the thread without an answer; or it takes
\* the channel for lost and closes it.
SendFails_Dies(s) ==
  /\ thread[s] = "send"
  /\ thread' = [thread EXCEPT ![s] = "dead"]
  /\ UNCHANGED <<ui, session, should_run, job, command, answer, adapterVars,
                 asked, overlap, misdelivered>>
SendFails_Closes(s) ==
  /\ thread[s] = "send"
  /\ thread' = [thread EXCEPT ![s] = "top"]
  /\ job' = [job EXCEPT ![s] = "none"]
  /\ answer' = [answer EXCEPT ![s] = "error"]
  /\ iso_tp_open' = FALSE /\ iso_tp_filter' = NoFilter
  /\ UNCHANGED <<ui, session, should_run, command, iso_receive_queue, asked,
                 overlap, misdelivered>>

\* Errors 6 and 21, or the adapter rejects the frame.
SendFails(s) ==
  /\ thread[s] = "send"
  /\ Finish(s, "error")
  /\ UNCHANGED <<iso_receive_queue, asked, misdelivered>>

Send(s) ==
  /\ thread[s] = "send" /\ iso_tp_open /\ iso_tp_filter # NoFilter
  /\ thread' = [thread EXCEPT ![s] = "recv"]
  /\ asked' = asked \cup {s}
  /\ UNCHANGED <<ui, session, should_run, job, command, answer, adapterVars,
                 overlap, misdelivered>>

\* Fault: the filter is not looked at.
Receive_Unfiltered(s) ==
  /\ thread[s] = "recv" /\ iso_tp_open /\ iso_receive_queue # <<>>
  /\ iso_receive_queue' = Tail(iso_receive_queue)
  /\ Finish(s, "ok")
  /\ misdelivered' = (misdelivered \/ Head(iso_receive_queue) # s)
  /\ UNCHANGED asked

\* The first frame that passes the filter, whoever set it; others are dropped.
\* What is not the answer asked for is an error of run_command_resp.
Receive(s) ==
  /\ thread[s] = "recv" /\ iso_tp_open /\ iso_receive_queue # <<>>
  /\ iso_receive_queue' = Tail(iso_receive_queue)
  /\ LET ecu == Head(iso_receive_queue) IN
       IF ecu = iso_tp_filter
       THEN /\ \/ ecu = s /\ Finish(s, "ok")
               \/ Finish(s, "error")
            /\ misdelivered' = (misdelivered \/ ecu # s)
       ELSE UNCHANGED <<ui, session, sessionVars, iso_tp_open, iso_tp_filter,
                        overlap, misdelivered>>
  /\ UNCHANGED asked

\* The read's deadline, or error 6.
ReceiveTimeout(s) ==
  /\ thread[s] = "recv"
  /\ Finish(s, "error")
  /\ UNCHANGED <<iso_receive_queue, asked, misdelivered>>

\* close_iso15765_interface: the channel, whoever opened it, and its filter.
CloseInterface(s) ==
  /\ thread[s] = "top" /\ ~should_run[s]
  /\ thread' = [thread EXCEPT ![s] = "dead"]
  /\ iso_tp_open' = FALSE /\ iso_tp_filter' = NoFilter /\ iso_receive_queue' = <<>>
  /\ UNCHANGED <<ui, session, should_run, job, command, answer, asked, overlap,
                 misdelivered>>
-----------------------------------------------------------------------------
\* An ECU (external) answers, early or late.
EcuAnswers ==
  /\ \E s \in asked :
       /\ iso_receive_queue' =
            IF iso_tp_open /\ Len(iso_receive_queue) < MaxQueue
            THEN Append(iso_receive_queue, s) ELSE iso_receive_queue
       /\ asked' \in {asked, asked \ {s}}   \* it may answer again
  /\ UNCHANGED <<ui, session, sessionVars, iso_tp_open, iso_tp_filter, overlap,
                 misdelivered>>
-----------------------------------------------------------------------------
Ui == OpenInterface \/ SetParams \/ AddFilterAndSpawn \/ TakeAnswer
        \/ RunCommand \/ ExitDiagSession

Server(s) == TakeCommand(s) \/ BeginTesterPresent(s) \/ Send(s) \/ SendFails(s)
               \/ Receive(s) \/ ReceiveTimeout(s) \/ CloseInterface(s)

Next == Ui \/ (\E s \in Sessions : Server(s)) \/ EcuAnswers

Spec == Init /\ [][Next]_vars

(* The scheduler runs every server thread and wakes the UI thread; a read  *)
(* ends at its deadline.  The user and the ECUs may do nothing.            *)
FairSpec ==
  /\ Spec
  /\ \A s \in Sessions :
       /\ WF_vars(Server(s))
       /\ WF_vars(ReceiveTimeout(s))
  /\ WF_vars(TakeAnswer)
-----------------------------------------------------------------------------
TypeOK ==
  /\ ui \in {"idle", "setup", "filter", "starting", "connected", "waiting"}
  /\ session \in 0..MaxSessions
  /\ should_run \in [Sessions -> BOOLEAN]
  /\ thread \in [Sessions -> {"unborn", "top", "send", "recv", "dead"}]
  /\ job \in [Sessions -> {"none", "command", "tester"}]
  /\ \A s \in Sessions : (job[s] # "none") <=> (thread[s] \in {"send", "recv"})
  /\ command \in [Sessions -> BOOLEAN]
  /\ answer \in [Sessions -> {"none", "ok", "error"}]
  /\ iso_tp_open \in BOOLEAN /\ iso_tp_filter \in Sessions \cup {NoFilter}
  /\ iso_receive_queue \in Seq(Sessions) /\ asked \subseteq Sessions
  /\ overlap \in BOOLEAN /\ misdelivered \in BOOLEAN

(* A session that began after the threads of all earlier ones had ended    *)
(* keeps the channel and its own filter until it is told to stop, whatever *)
(* those sessions left behind.                                             *)
LoneSessionKeepsChannel ==
  session # 0 /\ ~overlap /\ should_run[session] =>
    iso_tp_open /\ iso_tp_filter = session

(* Nor does it take an answer of another ECU, however late that comes.     *)
LoneSessionHearsItsEcu == ~overlap => ~misdelivered

(* A server thread nobody holds a handle of has been told to stop: at most *)
(* one session sends tester present for good.                              *)
OneServerRuns ==
  \A s \in Sessions : should_run[s] =>
    s = session /\ ui \in {"starting", "connected", "waiting"}

(* "You must set the flow control filter (Response ID) ... prior to        *)
(* sending messages" (comm_api.rs): a running session sends with the       *)
(* filter it has set.                                                      *)
SendsWithOwnFilter ==
  \A s \in Sessions : should_run[s] /\ thread[s] = "send" => iso_tp_filter = s

(* The UI gets its answer, also when sessions pull the channel from under  *)
(* each other.                                                             *)
CallsReturn == ui \in {"starting", "waiting"} ~> ui \notin {"starting", "waiting"}

(* Every session that was told to stop closes down.                        *)
ThreadsEnd ==
  \A s \in Sessions :
    (thread[s] # "unborn" /\ ~should_run[s]) ~> thread[s] = "dead"

(* Nobody is left behind: neither the UI's call nor a stopped thread.      *)
CallsAndThreadsEnd == CallsReturn /\ ThreadsEnd
=============================================================================
