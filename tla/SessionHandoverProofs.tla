------------------------ MODULE SessionHandoverProofs ------------------------
(***************************************************************************)
(* Which session's thread may touch the adapter, for any number of         *)
(* sessions: at most one server has not been told to stop, and a session   *)
(* begun after the threads of all earlier ones had ended keeps its channel *)
(* and takes no answer but its own ECU's.                                  *)
(***************************************************************************)
EXTENDS SessionHandover, TLAPS

(* The part of TypeOK the properties rest on.                              *)
Typed ==
  /\ session \in 0..MaxSessions
  /\ should_run \in [Sessions -> BOOLEAN]
  /\ thread \in [Sessions -> {"unborn", "top", "send", "recv", "dead"}]

(* A session that overlapped no older thread is alone on the adapter.      *)
Alone == ~overlap => \A s \in Sessions : Alive(s) => s = session

IInv == Typed /\ OneServerRuns /\ Alone /\ LoneSessionKeepsChannel
-----------------------------------------------------------------------------
(* Before the first session there is nothing to stop and nobody to share   *)
(* the adapter with.                                                       *)
LEMMA InitIInv == Init => IInv
BY HandoverAssumption
   DEF Init, IInv, Typed, OneServerRuns, Alone, Alive, LoneSessionKeepsChannel,
       Sessions

(* The UI thread begins a session only after it has told the last one to   *)
(* stop.                                                                   *)
LEMMA UiIInv == IInv /\ Ui => IInv'
<1> SUFFICES ASSUME IInv, Ui PROVE IInv'
  OBVIOUS
<1> USE HandoverAssumption DEF Sessions, sessionVars, adapterVars
<1>1. CASE OpenInterface
  <2>1. \A s \in Sessions : ~should_run[s]
    BY <1>1 DEF IInv, OneServerRuns, OpenInterface
  <2>2. session' \in 1..MaxSessions /\ UNCHANGED <<should_run, thread>>
    BY <1>1 DEF IInv, Typed, OpenInterface
  <2>3. Alone'
    BY <1>1, <2>2 DEF Alone, Alive, OpenInterface
  <2> QED
    BY <2>1, <2>2, <2>3 DEF IInv, Typed, OneServerRuns, LoneSessionKeepsChannel
<1>2. CASE SetParams
  BY <1>2 DEF IInv, Typed, OneServerRuns, Alone, Alive, LoneSessionKeepsChannel,
              SetParams
<1>3. CASE AddFilterAndSpawn
  <2>1. CASE ~iso_tp_open
    BY <1>3, <2>1 DEF IInv, Typed, OneServerRuns, Alone, Alive,
                      LoneSessionKeepsChannel, AddFilterAndSpawn
  <2>2. CASE iso_tp_open
    <3>1. /\ iso_tp_filter' = session /\ iso_tp_open' = iso_tp_open
          /\ session' = session /\ overlap' = overlap /\ ui' = "starting"
          /\ should_run' = [should_run EXCEPT ![session] = TRUE]
          /\ thread' = [thread EXCEPT ![session] = "top"]
      BY <1>3, <2>2 DEF AddFilterAndSpawn
    <3>2. \A s \in Sessions : ~should_run[s]
      BY <1>3 DEF IInv, OneServerRuns, AddFilterAndSpawn
    <3>3. Typed'
      BY <3>1 DEF IInv, Typed
    <3>4. OneServerRuns'
      BY <3>1, <3>2 DEF IInv, Typed, OneServerRuns
    <3>5. Alone'
      BY <3>1 DEF IInv, Typed, Alone, Alive
    <3>6. LoneSessionKeepsChannel'
      BY <3>1, <2>2 DEF LoneSessionKeepsChannel
    <3> QED
      BY <3>3, <3>4, <3>5, <3>6 DEF IInv
  <2> QED
    BY <2>1, <2>2
<1>4. ASSUME should_run' = [should_run EXCEPT ![session] = FALSE],
             UNCHANGED <<session, thread, adapterVars, overlap>>
      PROVE  IInv'
  BY <1>4 DEF IInv, Typed, OneServerRuns, Alone, Alive, LoneSessionKeepsChannel
<1>5. ASSUME ui \in {"starting", "connected", "waiting"},
             ui' \in {"starting", "connected", "waiting"},
             UNCHANGED <<session, should_run, thread, adapterVars, overlap>>
      PROVE  IInv'
  BY <1>5 DEF IInv, Typed, OneServerRuns, Alone, Alive, LoneSessionKeepsChannel
<1>6. CASE TakeAnswer
  BY <1>4, <1>5, <1>6 DEF TakeAnswer
<1>7. CASE RunCommand
  BY <1>5, <1>7 DEF RunCommand
<1>8. CASE ExitDiagSession
  BY <1>4, <1>8 DEF ExitDiagSession
<1> QED
  BY <1>1, <1>2, <1>3, <1>6, <1>7, <1>8 DEF Ui

(* A server thread that goes on takes nothing from anybody; one that ends  *)
(* closes the channel, but then it is the lone session that was told to    *)
(* stop, or not alone.                                                     *)
LEMMA ServerIInv == IInv /\ (\E s \in Sessions : Server(s)) => IInv'
<1> SUFFICES ASSUME IInv, NEW s \in Sessions, Server(s) PROVE IInv'
  OBVIOUS
<1> USE DEF sessionVars, adapterVars
<1>1. ASSUME NEW place \in {"top", "send", "recv"},
             Alive(s), thread' = [thread EXCEPT ![s] = place],
             UNCHANGED <<ui, session, should_run, iso_tp_open, iso_tp_filter,
                         overlap>>
      PROVE  IInv'
  <2>1. Typed'
    BY <1>1 DEF IInv, Typed
  <2>2. Alone'
    BY <1>1 DEF IInv, Typed, Alone, Alive
  <2> QED
    BY <1>1, <2>1, <2>2 DEF IInv, OneServerRuns, LoneSessionKeepsChannel
<1>2. CASE TakeCommand(s)
  BY <1>1, <1>2 DEF TakeCommand, BeginExchange, Alive
<1>3. CASE BeginTesterPresent(s)
  BY <1>1, <1>3 DEF BeginTesterPresent, BeginExchange, Alive
<1>4. CASE Send(s)
  BY <1>1, <1>4 DEF Send, Alive
<1>5. CASE SendFails(s)
  BY <1>1, <1>5 DEF SendFails, Finish, Alive
<1>6. CASE Receive(s)
  <2>1. CASE Finish(s, "ok") \/ Finish(s, "error")
    BY <1>1, <1>6, <2>1 DEF Receive, Finish, Alive
  <2>2. CASE UNCHANGED <<ui, session, sessionVars, iso_tp_open, iso_tp_filter,
                         overlap, misdelivered>>
    BY <2>2 DEF IInv, Typed, OneServerRuns, Alone, Alive, LoneSessionKeepsChannel
  <2> QED
    BY <1>6, <2>1, <2>2 DEF Receive
<1>7. CASE ReceiveTimeout(s)
  BY <1>1, <1>7 DEF ReceiveTimeout, Finish, Alive
<1>8. CASE CloseInterface(s)
  <2>1. /\ thread' = [thread EXCEPT ![s] = "dead"]
        /\ UNCHANGED <<ui, session, should_run, overlap>>
    BY <1>8 DEF CloseInterface
  <2>2. ~should_run[s] /\ Alive(s)
    BY <1>8 DEF CloseInterface, Alive
  <2>3. ~overlap => ~should_run[session]
    BY <2>2 DEF IInv, Alone
  <2>4. Typed' /\ Alone'
    BY <2>1 DEF IInv, Typed, Alone, Alive
  <2> QED
    BY <2>1, <2>3, <2>4 DEF IInv, OneServerRuns, LoneSessionKeepsChannel
<1> QED
  BY <1>2, <1>3, <1>4, <1>5, <1>6, <1>7, <1>8 DEF Server

(* The ECUs' answers go to the queue.                                      *)
LEMMA EcuIInv == IInv /\ EcuAnswers => IInv'
BY DEF IInv, Typed, OneServerRuns, Alone, Alive, LoneSessionKeepsChannel,
       EcuAnswers, sessionVars

(* All steps together, for the theorems below.                             *)
LEMMA IInvHolds == Spec => []IInv
<1>1. IInv /\ UNCHANGED vars => IInv'
  BY DEF IInv, Typed, OneServerRuns, Alone, Alive, LoneSessionKeepsChannel, vars,
         sessionVars, adapterVars
<1>2. IInv /\ [Next]_vars => IInv'
  BY <1>1, UiIInv, ServerIInv, EcuIInv DEF Next
<1> QED
  BY <1>2, InitIInv, PTL DEF Spec
-----------------------------------------------------------------------------
(* However many sessions are started and fail, a server that has not been  *)
(* told to stop is the one the UI thread holds: none is left behind.       *)
THEOREM OneServerRunsHolds == Spec => []OneServerRuns
<1>1. IInv => OneServerRuns
  BY DEF IInv
<1> QED
  BY <1>1, IInvHolds, PTL

(* A session that began after the threads of all earlier ones had ended    *)
(* keeps the ISO-TP channel and its filter until it is told to stop.       *)
THEOREM LoneSessionKeepsChannelHolds == Spec => []LoneSessionKeepsChannel
<1>1. IInv => LoneSessionKeepsChannel
  BY DEF IInv
<1> QED
  BY <1>1, IInvHolds, PTL
-----------------------------------------------------------------------------
(* Types, and what comes through the filter.                               *)

(* A session has no thread before its filter is set.                       *)
NotYetBorn ==
  \A s \in Sessions : s > session \/ (s = session /\ ui \in {"setup", "filter"})
    => thread[s] = "unborn"

(* The filter of a session that shares the adapter with nobody is its own. *)
OwnFilter == ~overlap => iso_tp_filter \in {NoFilter, session} /\ ~misdelivered

TInv == TypeOK /\ NotYetBorn

LEMMA InitTInv == Init => TInv
<1> SUFFICES ASSUME Init PROVE TInv
  OBVIOUS
<1>1. iso_receive_queue \in Seq(Sessions) /\ asked \subseteq Sessions /\ session \in 0..MaxSessions
  BY HandoverAssumption DEF Init
<1> QED
  BY <1>1 DEF Init, TInv, TypeOK, NotYetBorn

LEMMA UiTInv ==
  ASSUME TInv, Ui
  PROVE  TInv'
<1> USE DEF sessionVars, adapterVars
<1>1. CASE OpenInterface
  <2>1. session' = session + 1 /\ session' \in 0..MaxSessions /\ session' \in Sessions
    BY <1>1, HandoverAssumption DEF OpenInterface, TInv, TypeOK, Sessions
  <2>2. /\ ui' \in {"setup", "idle"} /\ iso_tp_open' \in BOOLEAN /\ iso_tp_filter' = NoFilter
        /\ iso_receive_queue' = <<>> /\ overlap' \in BOOLEAN /\ misdelivered' \in BOOLEAN
        /\ UNCHANGED <<should_run, thread, job, command, answer, asked>>
    BY <1>1 DEF OpenInterface
  <2>3. <<>> \in Seq(Sessions)
    OBVIOUS
  <2>4. TypeOK'
    BY <2>1, <2>2, <2>3 DEF TInv, TypeOK
  <2>5. \A s \in Sessions : s >= session' => s > session
    BY <2>1 DEF TInv, TypeOK, Sessions
  <2>6. \A s \in Sessions : s > session' \/ s = session' => s >= session'
    BY <2>1 DEF Sessions
  <2>7. NotYetBorn'
    BY <2>2, <2>5, <2>6 DEF TInv, NotYetBorn
  <2> QED
    BY <2>4, <2>7 DEF TInv
<1>2. CASE SetParams
  <2>1. /\ ui = "setup" /\ ui' \in {"filter", "idle"}
        /\ UNCHANGED <<session, should_run, thread, job, command, answer, iso_tp_open,
                       iso_tp_filter, iso_receive_queue, asked, overlap, misdelivered>>
    BY <1>2 DEF SetParams
  <2> QED
    BY <2>1 DEF TInv, TypeOK, NotYetBorn
<1>3. CASE AddFilterAndSpawn
  <2>1. /\ ui = "filter"
        /\ UNCHANGED <<session, job, answer, iso_tp_open, iso_receive_queue, asked,
                       overlap, misdelivered>>
    BY <1>3 DEF AddFilterAndSpawn
  <2>2. CASE iso_tp_open
    <3>1. /\ iso_tp_filter' = session /\ ui' = "starting"
          /\ should_run' = [should_run EXCEPT ![session] = TRUE]
          /\ thread' = [thread EXCEPT ![session] = "top"]
          /\ command' = [command EXCEPT ![session] = TRUE]
      BY <1>3, <2>2 DEF AddFilterAndSpawn
    <3>2. session \in Sessions => thread[session] = "unborn"
      BY <2>1 DEF TInv, NotYetBorn
    <3>3. iso_tp_filter' \in Sessions \cup {NoFilter}
      BY <3>1, HandoverAssumption DEF TInv, TypeOK, Sessions, NoFilter
    <3>4. \A s \in Sessions : (job'[s] # "none") <=> (thread'[s] \in {"send", "recv"})
      BY <2>1, <3>1, <3>2 DEF TInv, TypeOK
    <3>5. /\ should_run' \in [Sessions -> BOOLEAN] /\ command' \in [Sessions -> BOOLEAN]
          /\ thread' \in [Sessions -> {"unborn", "top", "send", "recv", "dead"}]
      BY <3>1 DEF TInv, TypeOK
    <3>6. TypeOK'
      BY <2>1, <3>1, <3>3, <3>4, <3>5 DEF TInv, TypeOK
    <3>7. \A s \in Sessions : s > session => s # session
      BY DEF TInv, TypeOK, Sessions
    <3>8. NotYetBorn'
      BY <2>1, <3>1, <3>7 DEF TInv, TypeOK, NotYetBorn
    <3> QED
      BY <3>6, <3>8 DEF TInv
  <2>3. CASE ~iso_tp_open
    <3>1. ui' = "idle" /\ UNCHANGED <<iso_tp_filter, should_run, thread, command>>
      BY <1>3, <2>3 DEF AddFilterAndSpawn
    <3> QED
      BY <2>1, <3>1 DEF TInv, TypeOK, NotYetBorn
  <2> QED
    BY <2>2, <2>3
<1>4. CASE TakeAnswer \/ RunCommand \/ ExitDiagSession
  <2>1. /\ ui' \in {"idle", "connected", "waiting"}
        /\ UNCHANGED <<session, thread, job, iso_tp_open, iso_tp_filter, iso_receive_queue,
                       asked, overlap, misdelivered>>
    BY <1>4 DEF TakeAnswer, RunCommand, ExitDiagSession
  <2>2. should_run' \in [Sessions -> BOOLEAN]
    <3>1. should_run' = should_run \/ should_run' = [should_run EXCEPT ![session] = FALSE]
      BY <1>4 DEF TakeAnswer, RunCommand, ExitDiagSession
    <3> QED
      BY <3>1 DEF TInv, TypeOK
  <2>3. command' \in [Sessions -> BOOLEAN]
    <3>1. command' = command \/ command' = [command EXCEPT ![session] = TRUE]
      BY <1>4 DEF TakeAnswer, RunCommand, ExitDiagSession
    <3> QED
      BY <3>1 DEF TInv, TypeOK
  <2>4. answer' \in [Sessions -> {"none", "ok", "error"}]
    <3>1. answer' = answer \/ answer' = [answer EXCEPT ![session] = "none"]
      BY <1>4 DEF TakeAnswer, RunCommand, ExitDiagSession
    <3> QED
      BY <3>1 DEF TInv, TypeOK
  <2> QED
    BY <2>1, <2>2, <2>3, <2>4 DEF TInv, TypeOK, NotYetBorn
<1> QED
  BY <1>1, <1>2, <1>3, <1>4 DEF Ui

\* A thread that lives goes on living, and its job goes with its exchange.
LEMMA ThreadMoves ==
  ASSUME TInv, NEW s \in Sessions, Alive(s),
         NEW place \in {"top", "send", "recv", "dead"},
         NEW purpose \in {"none", "command", "tester"},
         (purpose # "none") <=> (place \in {"send", "recv"}),
         thread' = [thread EXCEPT ![s] = place], job' = [job EXCEPT ![s] = purpose],
         UNCHANGED <<ui, session>>
  PROVE  /\ thread' \in [Sessions -> {"unborn", "top", "send", "recv", "dead"}]
         /\ job' \in [Sessions -> {"none", "command", "tester"}]
         /\ \A t \in Sessions : (job'[t] # "none") <=> (thread'[t] \in {"send", "recv"})
         /\ NotYetBorn'
<1>1. /\ thread' \in [Sessions -> {"unborn", "top", "send", "recv", "dead"}]
      /\ job' \in [Sessions -> {"none", "command", "tester"}]
  BY DEF TInv, TypeOK
<1>2. ASSUME NEW t \in Sessions
      PROVE  (job'[t] # "none") <=> (thread'[t] \in {"send", "recv"})
  BY DEF TInv, TypeOK
<1>3. NotYetBorn'
  BY DEF TInv, TypeOK, NotYetBorn, Alive
<1> QED
  BY <1>1, <1>2, <1>3

LEMMA ServerTInv ==
  ASSUME TInv, NEW s \in Sessions, Server(s)
  PROVE  TInv'
<1> USE DEF sessionVars, adapterVars
<1>1. CASE TakeCommand(s) \/ BeginTesterPresent(s)
  <2>1. PICK purpose \in {"command", "tester"} : BeginExchange(s, purpose)
    BY <1>1 DEF TakeCommand, BeginTesterPresent
  <2>2. /\ thread' = [thread EXCEPT ![s] = "send"] /\ job' = [job EXCEPT ![s] = purpose]
        /\ Alive(s) /\ iso_receive_queue' = <<>>
        /\ UNCHANGED <<ui, session, should_run, answer, iso_tp_open, iso_tp_filter,
                       asked, overlap, misdelivered>>
    BY <2>1 DEF BeginExchange, Alive
  <2>3. /\ thread' \in [Sessions -> {"unborn", "top", "send", "recv", "dead"}]
        /\ job' \in [Sessions -> {"none", "command", "tester"}]
        /\ \A t \in Sessions : (job'[t] # "none") <=> (thread'[t] \in {"send", "recv"})
        /\ NotYetBorn'
    BY <2>2, ThreadMoves
  <2>4. command' \in [Sessions -> BOOLEAN]
    <3>1. command' = command \/ command' = [command EXCEPT ![s] = FALSE]
      BY <1>1 DEF TakeCommand, BeginTesterPresent
    <3> QED
      BY <3>1 DEF TInv, TypeOK
  <2>5. iso_receive_queue' \in Seq(Sessions)
    BY <2>2
  <2> QED
    BY <2>2, <2>3, <2>4, <2>5 DEF TInv, TypeOK
<1>2. ASSUME NEW outcome \in {"ok", "error"}, Finish(s, outcome), Alive(s),
             iso_receive_queue' \in Seq(Sessions), asked' = asked, misdelivered' \in BOOLEAN
      PROVE  TInv'
  <2>1. /\ thread' = [thread EXCEPT ![s] = "top"] /\ job' = [job EXCEPT ![s] = "none"]
        /\ UNCHANGED <<ui, session, should_run, command, iso_tp_open, iso_tp_filter, overlap>>
    BY <1>2 DEF Finish
  <2>2. /\ thread' \in [Sessions -> {"unborn", "top", "send", "recv", "dead"}]
        /\ job' \in [Sessions -> {"none", "command", "tester"}]
        /\ \A t \in Sessions : (job'[t] # "none") <=> (thread'[t] \in {"send", "recv"})
        /\ NotYetBorn'
    BY <1>2, <2>1, ThreadMoves
  <2>3. answer' \in [Sessions -> {"none", "ok", "error"}]
    <3>1. answer' = answer \/ answer' = [answer EXCEPT ![s] = outcome]
      BY <1>2 DEF Finish
    <3> QED
      BY <3>1 DEF TInv, TypeOK
  <2> QED
    BY <1>2, <2>1, <2>2, <2>3 DEF TInv, TypeOK
<1>3. CASE SendFails(s) \/ ReceiveTimeout(s)
  <2>1. /\ Finish(s, "error") /\ Alive(s)
        /\ UNCHANGED <<iso_receive_queue, asked, misdelivered>>
    BY <1>3 DEF SendFails, ReceiveTimeout, Alive
  <2> QED
    BY <1>2, <2>1 DEF TInv, TypeOK
<1>4. CASE Send(s)
  <2>1. /\ thread[s] = "send" /\ thread' = [thread EXCEPT ![s] = "recv"]
        /\ asked' = asked \cup {s}
        /\ UNCHANGED <<ui, session, should_run, job, command, answer, iso_tp_open,
                       iso_tp_filter, iso_receive_queue, overlap, misdelivered>>
    BY <1>4 DEF Send
  <2>2. /\ thread' \in [Sessions -> {"unborn", "top", "send", "recv", "dead"}]
        /\ \A t \in Sessions : (job'[t] # "none") <=> (thread'[t] \in {"send", "recv"})
    BY <2>1 DEF TInv, TypeOK
  <2>3. NotYetBorn'
    BY <2>1 DEF TInv, TypeOK, NotYetBorn
  <2> QED
    BY <2>1, <2>2, <2>3 DEF TInv, TypeOK
<1>5. CASE Receive(s)
  <2>1. /\ Alive(s) /\ iso_receive_queue # <<>> /\ iso_receive_queue' = Tail(iso_receive_queue)
        /\ asked' = asked
    BY <1>5 DEF Receive, Alive
  <2>2. iso_receive_queue' \in Seq(Sessions)
    BY <2>1 DEF TInv, TypeOK
  <2>3. CASE Finish(s, "ok") \/ Finish(s, "error")
    <3>1. misdelivered' = misdelivered
            \/ misdelivered' = (misdelivered \/ Head(iso_receive_queue) # s)
      BY <1>5 DEF Receive
    <3>2. misdelivered' \in BOOLEAN
      BY <3>1 DEF TInv, TypeOK
    <3> QED
      BY <1>2, <2>1, <2>2, <2>3, <3>2
  <2>4. CASE UNCHANGED <<ui, session, sessionVars, iso_tp_open, iso_tp_filter, overlap,
                         misdelivered>>
    BY <2>1, <2>2, <2>4 DEF TInv, TypeOK, NotYetBorn
  <2> QED
    BY <1>5, <2>3, <2>4 DEF Receive
<1>6. CASE CloseInterface(s)
  <2>1. /\ thread[s] = "top" /\ thread' = [thread EXCEPT ![s] = "dead"]
        /\ iso_tp_open' = FALSE /\ iso_tp_filter' = NoFilter /\ iso_receive_queue' = <<>>
        /\ UNCHANGED <<ui, session, should_run, job, command, answer, asked, overlap,
                       misdelivered>>
    BY <1>6 DEF CloseInterface
  <2>2. /\ thread' \in [Sessions -> {"unborn", "top", "send", "recv", "dead"}]
        /\ \A t \in Sessions : (job'[t] # "none") <=> (thread'[t] \in {"send", "recv"})
    BY <2>1 DEF TInv, TypeOK
  <2>3. NotYetBorn'
    BY <2>1 DEF TInv, TypeOK, NotYetBorn
  <2>4. iso_receive_queue' \in Seq(Sessions)
    BY <2>1
  <2> QED
    BY <2>1, <2>2, <2>3, <2>4 DEF TInv, TypeOK
<1> QED
  BY <1>1, <1>3, <1>4, <1>5, <1>6 DEF Server

LEMMA EcuTInv ==
  ASSUME TInv, EcuAnswers
  PROVE  TInv'
<1>1. PICK s \in asked :
        /\ iso_receive_queue' = IF iso_tp_open /\ Len(iso_receive_queue) < MaxQueue
                                THEN Append(iso_receive_queue, s) ELSE iso_receive_queue
        /\ asked' \in {asked, asked \ {s}}
  BY DEF EcuAnswers
<1>2. UNCHANGED <<ui, session, should_run, thread, job, command, answer, iso_tp_open,
                  iso_tp_filter, overlap, misdelivered>>
  BY DEF EcuAnswers, sessionVars
<1>3. iso_receive_queue' \in Seq(Sessions) /\ asked' \subseteq Sessions
  BY <1>1 DEF TInv, TypeOK
<1> QED
  BY <1>2, <1>3 DEF TInv, TypeOK, NotYetBorn

LEMMA TInvStep == TInv /\ [Next]_vars => TInv'
<1>1. TInv /\ UNCHANGED vars => TInv'
  BY DEF TInv, TypeOK, NotYetBorn, vars, sessionVars, adapterVars
<1> QED
  BY <1>1, UiTInv, ServerTInv, EcuTInv DEF Next

(* The UI thread, the server threads and the adapter keep to their places, *)
(* and a thread has a job while it exchanges frames and no longer.         *)
THEOREM HandoverTypeCorrect == Spec => []TypeOK
<1>1. TInv => TypeOK
  BY DEF TInv
<1> QED
  BY <1>1, InitTInv, TInvStep, PTL DEF Spec

LEMMA OwnFilterStep == TInv /\ IInv /\ OwnFilter /\ [Next]_vars => OwnFilter'
<1> SUFFICES ASSUME TInv, IInv, OwnFilter, [Next]_vars PROVE OwnFilter'
  OBVIOUS
<1> USE DEF sessionVars, adapterVars, OwnFilter
<1>1. CASE OpenInterface
  BY <1>1 DEF OpenInterface
<1>2. CASE AddFilterAndSpawn
  BY <1>2 DEF AddFilterAndSpawn
<1>3. ASSUME NEW s \in Sessions, Receive(s) PROVE OwnFilter'
  <2>1. /\ Alive(s) /\ iso_receive_queue # <<>>
        /\ UNCHANGED <<session, iso_tp_filter, overlap>>
    BY <1>3 DEF Receive, Alive, Finish
  <2>2. Head(iso_receive_queue) \in Sessions /\ Head(iso_receive_queue) # NoFilter
    <3>1. Head(iso_receive_queue) \in Sessions
      BY <2>1 DEF TInv, TypeOK
    <3> QED
      BY <3>1, HandoverAssumption DEF Sessions, NoFilter
  <2>3. ~overlap => s = session
    BY <2>1 DEF IInv, Alone
  <2>4. \/ misdelivered' = misdelivered
        \/ /\ Head(iso_receive_queue) = iso_tp_filter
           /\ misdelivered' = (misdelivered \/ Head(iso_receive_queue) # s)
    BY <1>3 DEF Receive
  <2>5. ~overlap /\ Head(iso_receive_queue) = iso_tp_filter => Head(iso_receive_queue) = s
    BY <2>2, <2>3
  <2>6. ~overlap => ~misdelivered'
    BY <2>4, <2>5
  <2> QED
    BY <2>1, <2>6
<1>4. ASSUME NEW s \in Sessions, CloseInterface(s) PROVE OwnFilter'
  BY <1>4 DEF CloseInterface
<1>5. ASSUME UNCHANGED <<session, iso_tp_filter, overlap, misdelivered>> PROVE OwnFilter'
  BY <1>5
<1>6. CASE SetParams \/ TakeAnswer \/ RunCommand \/ ExitDiagSession \/ EcuAnswers
             \/ UNCHANGED vars
  BY <1>5, <1>6 DEF SetParams, TakeAnswer, RunCommand, ExitDiagSession, EcuAnswers, vars
<1>7. ASSUME NEW s \in Sessions,
             TakeCommand(s) \/ BeginTesterPresent(s) \/ Send(s) \/ SendFails(s)
               \/ ReceiveTimeout(s)
      PROVE  OwnFilter'
  BY <1>5, <1>7 DEF TakeCommand, BeginTesterPresent, BeginExchange, Send, SendFails,
                    ReceiveTimeout, Finish
<1> QED
  BY <1>1, <1>2, <1>3, <1>4, <1>6, <1>7 DEF Next, Ui, Server

(* A session that shares the adapter with no older thread takes no answer  *)
(* of another ECU, however late that comes.                                *)
THEOREM LoneSessionHearsItsEcuHolds == Spec => []LoneSessionHearsItsEcu
<1>1. Init => OwnFilter
  BY DEF Init, OwnFilter
<1>2. OwnFilter => LoneSessionHearsItsEcu
  BY DEF OwnFilter, LoneSessionHearsItsEcu
<1>3. Spec => []TInv
  BY InitTInv, TInvStep, PTL DEF Spec
<1> QED
  BY <1>1, <1>2, <1>3, IInvHolds, OwnFilterStep, PTL DEF Spec
=============================================================================
