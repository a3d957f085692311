-------------------------------- MODULE Windows --------------------------------
(***************************************************************************)
(* The application's one window (struct MainWindow): which page it shows,  *)
(* which diagnostic server the page holds, which interfaces are open, and  *)
(* whether the home button may be pressed.                                 *)
(*                                                                         *)
(* The toolkit draws a view and collects what the user presses; messages   *)
(* collected together (clicks made while update was blocking) are handled  *)
(* one after another, all judged against that one view.  A server's thread *)
(* may stop itself at any time, and ends some time after it is told to.    *)
(* The scanner and the JSON session are DiagScanner's and JsonSession's    *)
(* subject: here they are pages that hold interfaces or a server.          *)
(***************************************************************************)
EXTENDS Naturals, Sequences, FiniteSets

CONSTANTS
  JsonEcus,    \* ECU files: the sequence of their connections, "ISOTP" or "LIN"
  MaxBatch,    \* bound: messages handled between two drawings
  MaxThreads   \* bound: threads ending, and threads nobody holds

ASSUME WindowsAssumption ==
  MaxBatch \in Nat /\ MaxThreads \in Nat /\ JsonEcus \subseteq Seq({"ISOTP", "LIN"})

VARIABLES
  page,            \* "session" is a KWP2000 or UDS session
  form,            \* the manual page's: file loaded, ECU picked, connections
                   \* of an ECU file, the one picked, whether the fields parse
  server,          \* the page's: "none", "running" or "stopped" by itself
  ending, orphans, \* threads told to stop; running threads nobody holds
  open,            \* interfaces open on the adapter: "can", "iso"
  is_connected,    \* the tracer's
  show_home,       \* SHOW_HOME, one for all pages
  drawn, handled,  \* what the view drawn offers; messages handled since
  crowded,         \* history: two messages were judged against one view
  close_failed,    \* history: an interface refused to close
  panicked

windowVars == <<page, form, server, ending, orphans, open, is_connected, show_home,
                drawn, handled, crowded, close_failed, panicked>>
-----------------------------------------------------------------------------
NoForm == [loaded |-> "nothing", ecu |-> FALSE, connections |-> <<>>, connection |-> 0,
           fields |-> FALSE]

\* json_connection_error: None.
Launchable(f) == f.connection \in DOMAIN f.connections /\ f.connections[f.connection] = "ISOTP"

\* Fault: the fields need not all parse.
CanLaunch_Any == form.loaded = "nothing"

\* can_launch: every field parses.
CanLaunch == form.fields

\* What each page's view and subscription offer.
HomeOffers == {"GoCanTracer", "GoUDS", "GoOBD"}
TracerOffers == {"ToggleCan", "ToggleExt"}
ObdOffers == IF server = "none" THEN {"InitIsoTP"} ELSE {"Disconnect", "ReadCodes"}
DiagOffers == {"LaunchScan", "LaunchManual"}

\* A car's ECU is picked and its session launched; an ECU file's connection is;
\* the fields launch a session of their own.
ManualOffers ==
  {"LoadFile", "EnterField"}
    \cup (IF form.loaded = "car" THEN {"PickECU"} ELSE {})
    \cup (IF form.loaded = "car" /\ form.ecu THEN {"LaunchSession"} ELSE {})
    \cup (IF form.connections # <<>> THEN {"PickConnection"} ELSE {})
    \cup (IF Launchable(form) THEN {"LaunchJSON"} ELSE {})
    \cup (IF CanLaunch THEN {"LaunchSessionCustom"} ELSE {})

SessionOffers == IF server = "running" THEN {"DisconnectECU"} ELSE {"ConnectECU", "Back"}
SessionTicks == IF server # "none" THEN {"PollServer"} ELSE {}

PageOffers ==
  CASE page = "launcher" -> {"StartApp"}
    [] page = "home" -> HomeOffers
    [] page = "tracer" -> TracerOffers
    [] page = "obd" -> ObdOffers
    [] page = "diag" -> DiagOffers
    [] page = "scanner" -> {"Scan"}
    [] page = "manual" -> ManualOffers
    [] page = "session" -> SessionOffers \cup SessionTicks
    [] OTHER -> {}

Offers == PageOffers \cup IF show_home /\ page \notin {"launcher", "home"} THEN {"GoHome"} ELSE {}

WindowsInit ==
  /\ page = "launcher" /\ form = NoForm /\ server = "none" /\ ending = 0 /\ orphans = 0
  /\ open = {} /\ is_connected = FALSE /\ show_home = TRUE
  /\ drawn = Offers /\ handled = 0
  /\ crowded = FALSE /\ close_failed = FALSE /\ panicked = FALSE
-----------------------------------------------------------------------------
KeepThreads == UNCHANGED <<server, ending, orphans>>
KeepAdapter == UNCHANGED <<open, is_connected, close_failed>>
Keep == UNCHANGED <<page, form, show_home, panicked>> /\ KeepThreads /\ KeepAdapter

\* exit_diag_session on what is held, then dropped.
Release ==
  /\ server' = "none" /\ UNCHANGED orphans
  /\ ending' = ending + IF server = "running" THEN 1 ELSE 0

\* An interface is closed, or the adapter refuses.
Close(interface) ==
  \/ open' = open \ {interface} /\ UNCHANGED close_failed
  \/ open' = open /\ close_failed' = TRUE

\* Fault: only the CAN interface is closed.
CloseAll_Can == Close("can")

\* Home::new.
CloseAll ==
  \/ open' = {} /\ UNCHANGED close_failed
  \/ open' \in SUBSET open /\ close_failed' = TRUE

\* GoHome, and StartApp.  The old page is dropped after the new one is made.
GoHome ==
  /\ page' = "home" /\ form' = NoForm /\ Release
  /\ CloseAll /\ is_connected' = FALSE
  /\ UNCHANGED <<show_home, panicked>>

GoTo(target) ==
  /\ page' = target /\ form' = NoForm /\ Release
  /\ is_connected' = FALSE
  /\ UNCHANGED <<open, close_failed, show_home, panicked>>
-----------------------------------------------------------------------------
\* CanTracer::update.
Opened == is_connected' = TRUE /\ open' = open \cup {"can"} /\ UNCHANGED close_failed
NotOpened == UNCHANGED <<is_connected, open, close_failed>>

CloseCan ==
  /\ Close("can")
  /\ is_connected' = (is_connected /\ open' = open)

ToggleCan ==
  /\ IF is_connected THEN CloseCan ELSE Opened \/ NotOpened
  /\ UNCHANGED <<page, form, show_home, panicked>> /\ KeepThreads

\* Fault: reopening fails unnoticed.
ToggleExt_Unnoticed ==
  /\ is_connected /\ open' \in {open, open \ {"can"}} /\ UNCHANGED <<is_connected, close_failed>>
  /\ UNCHANGED <<page, form, show_home, panicked>> /\ KeepThreads

\* Closed and opened again, either of which may fail.
ToggleExt ==
  /\ \/ ~is_connected /\ NotOpened
     \/ is_connected /\ (Opened \/ CloseCan)
     \/ is_connected /\ UNCHANGED is_connected /\ open' = open /\ close_failed' = TRUE
  /\ UNCHANGED <<page, form, show_home, panicked>> /\ KeepThreads
-----------------------------------------------------------------------------
\* A server is started: refused before its thread was spawned, or after it, or
\* held in place of the one before, which Dropping ends or else nobody holds.
RefusedEarly == open' \in {open, open \cup {"iso"}} /\ KeepThreads
Refused ==
  \/ RefusedEarly
  \/ open' = open \cup {"iso"} /\ ending' = ending + 1 /\ UNCHANGED <<server, orphans>>

Started(dropping) ==
  LET former == IF server = "running" THEN 1 ELSE 0 IN
  /\ server' = "running" /\ open' = open \cup {"iso"}
  /\ ending' = ending + (IF dropping THEN former ELSE 0)
  /\ orphans' = orphans + (IF dropping THEN 0 ELSE former)

\* OBDHome::update.  start_diag_session asks no ECU: the first of the three
\* identifiers is taken as soon as the adapter opens.  A former ObdServer is ended
\* by its Drop.
InitIsoTP ==
  /\ (Started(TRUE) \/ RefusedEarly)
  /\ UNCHANGED <<page, form, show_home, panicked, is_connected, close_failed>>

Disconnect ==
  /\ Release
  /\ UNCHANGED <<page, form, show_home, panicked>> /\ KeepAdapter

ReadCodes ==
  /\ panicked' = (server = "none")
  /\ UNCHANGED <<page, form, show_home>> /\ KeepThreads /\ KeepAdapter

\* DiagHome::update; the scanner opens and closes both interfaces.
\* (The manual page hides the scanner when one view launched both.)
LaunchDiag(target) ==
  /\ page' = IF page = "diag" \/ target = "manual" THEN target ELSE page
  /\ UNCHANGED <<form, show_home, panicked>> /\ KeepThreads /\ KeepAdapter

Scan ==
  /\ open' \in SUBSET {"can", "iso"}
  /\ UNCHANGED <<page, form, show_home, panicked, is_connected, close_failed>> /\ KeepThreads
-----------------------------------------------------------------------------
\* DiagManual::update.  A launch with a session already there only says so.
Loaded(f) ==
  /\ form' = f /\ UNCHANGED <<show_home, panicked, is_connected, close_failed>>

JsonStarted(f) ==
  \/ Refused /\ UNCHANGED page
  \/ page' = "json" /\ Started(TRUE)

LaunchJson(f) ==
  IF page = "manual" /\ Launchable(f) THEN JsonStarted(f)
  ELSE UNCHANGED <<page, open>> /\ KeepThreads

\* Fault: the connection picked for the file before stays picked.
EcuForm_KeepsConnection(connections) ==
  [form EXCEPT !.loaded = "ecu", !.ecu = FALSE, !.connections = connections]

EcuForm(connections) ==
  [form EXCEPT !.loaded = "ecu", !.ecu = FALSE, !.connections = connections,
               !.connection = IF Len(connections) = 1 THEN 1 ELSE 0]

\* A car; an ECU, whose only connection is launched at once; or an error.
LoadFile ==
  \/ /\ Loaded([NoForm EXCEPT !.loaded = "car", !.fields = form.fields])
     /\ UNCHANGED <<page, open>> /\ KeepThreads
  \/ \E connections \in JsonEcus :
       LET f == EcuForm(connections) IN
       /\ Loaded(f)
       /\ IF Len(connections) = 1 THEN LaunchJson(f)
          ELSE UNCHANGED <<page, open>> /\ KeepThreads
  \/ Keep

FormSet(f) ==
  /\ form' = f
  /\ UNCHANGED <<page, show_home, panicked>> /\ KeepThreads /\ KeepAdapter

PickECU == FormSet([form EXCEPT !.ecu = TRUE])
EnterField == \E parse \in BOOLEAN : FormSet([form EXCEPT !.fields = parse])

\* An index the ECU does not have (of a file shown before) picks none.
PickConnection ==
  \E i \in DOMAIN form.connections \cup (IF handled = 0 THEN {} ELSE {0}) :
    FormSet([form EXCEPT !.connection = i])

LaunchJSON == LaunchJson(form) /\ Loaded(form)

LaunchSession ==
  /\ page' = IF page = "manual" /\ form.ecu THEN "session" ELSE page
  /\ UNCHANGED <<form, show_home, panicked>> /\ KeepThreads /\ KeepAdapter

\* The fields' values are unwrapped.
LaunchSessionCustom ==
  /\ page' = IF page = "manual" /\ form.fields THEN "session" ELSE page
  /\ panicked' = (page = "manual" /\ ~form.fields)
  /\ UNCHANGED <<form, show_home>> /\ KeepThreads /\ KeepAdapter
-----------------------------------------------------------------------------
\* KWP2000DiagSession::update, UDSDiagSession::update.  They hold a KWP2000ECU or a
\* UDSECU, structs without a Drop (the enum DiagServer around them has one, which
\* only the JSON session holds): one that is overwritten runs on.
ConnectECU ==
  /\ \/ Started(FALSE) /\ show_home' = FALSE
     \/ Refused /\ UNCHANGED show_home
  /\ UNCHANGED <<page, form, panicked, is_connected, close_failed>>

\* Fault: the thread is left to itself.
DisconnectECU_Forgets ==
  /\ server' = "none" /\ show_home' = TRUE /\ orphans' = orphans + (IF server = "running" THEN 1 ELSE 0)
  /\ UNCHANGED <<page, form, panicked, ending>> /\ KeepAdapter

DisconnectECU ==
  /\ Release /\ show_home' = TRUE
  /\ UNCHANGED <<page, form, panicked>> /\ KeepAdapter

\* Fault: every poll enables the home button.
PollServer_Enables ==
  \/ server = "stopped" /\ DisconnectECU
  \/ /\ server # "stopped" /\ show_home' = TRUE
     /\ UNCHANGED <<page, form, panicked>> /\ KeepThreads /\ KeepAdapter

\* Fault: a server that stopped is kept.
PollServer_Keeps ==
  /\ show_home' = (show_home \/ server = "stopped")
  /\ UNCHANGED <<page, form, panicked>> /\ KeepThreads /\ KeepAdapter

PollServer ==
  \/ server = "stopped" /\ DisconnectECU
  \/ server # "stopped" /\ Keep

\* DiagManual::update takes the session, whose Drop exits.
Back ==
  /\ page' = "manual" /\ Release
  /\ UNCHANGED <<form, show_home, panicked>> /\ KeepAdapter
-----------------------------------------------------------------------------
\* Who a message is for; with another page shown it is dropped.
On(pages, messages, m) == page \in pages /\ m \in messages
ForPage(m) ==
  \/ m \in {"GoHome", "GoCanTracer", "GoUDS", "GoOBD"}
  \/ On({"launcher"}, {"StartApp"}, m)
  \/ On({"tracer"}, {"ToggleCan", "ToggleExt"}, m)
  \/ On({"obd"}, {"InitIsoTP", "Disconnect", "ReadCodes"}, m)
  \/ On({"diag", "scanner", "manual"}, {"LaunchScan", "LaunchManual"}, m)
  \/ On({"scanner"}, {"Scan"}, m)
  \/ On({"manual", "session", "json"}, {"LoadFile", "EnterField", "PickECU", "PickConnection",
        "LaunchSession", "LaunchJSON", "LaunchSessionCustom"}, m)
  \/ On({"session"}, {"ConnectECU", "DisconnectECU", "PollServer", "Back"}, m)

\* MainWindow::update and what it passes messages to.
Update(m) ==
  \/ ~ForPage(m) /\ Keep
  \/ /\ ForPage(m)
     /\ \/ m \in {"StartApp", "GoHome"} /\ GoHome
        \/ m = "GoCanTracer" /\ GoTo("tracer")
        \/ m = "GoUDS" /\ GoTo("diag")
        \/ m = "GoOBD" /\ GoTo("obd")
        \/ m = "ToggleCan" /\ ToggleCan
        \/ m = "ToggleExt" /\ ToggleExt
        \/ m = "InitIsoTP" /\ InitIsoTP
        \/ m = "Disconnect" /\ Disconnect
        \/ m = "ReadCodes" /\ ReadCodes
        \/ m = "LaunchScan" /\ LaunchDiag("scanner")
        \/ m = "LaunchManual" /\ LaunchDiag("manual")
        \/ m = "Scan" /\ Scan
        \/ m = "LoadFile" /\ LoadFile
        \/ m = "EnterField" /\ EnterField
        \/ m = "PickECU" /\ PickECU
        \/ m = "PickConnection" /\ PickConnection
        \/ m = "LaunchSession" /\ LaunchSession
        \/ m = "LaunchJSON" /\ LaunchJSON
        \/ m = "LaunchSessionCustom" /\ LaunchSessionCustom
        \/ m = "ConnectECU" /\ ConnectECU
        \/ m = "DisconnectECU" /\ DisconnectECU
        \/ m = "PollServer" /\ PollServer
        \/ m = "Back" /\ Back

Handle(m) ==
  /\ ~panicked /\ m \in drawn /\ handled < MaxBatch
  /\ Update(m) /\ ending' <= MaxThreads /\ orphans' <= MaxThreads
  /\ handled' = handled + 1 /\ UNCHANGED drawn
  /\ crowded' = (crowded \/ handled > 0)

Draw ==
  /\ ~panicked /\ handled > 0 /\ handled' = 0
  /\ drawn' = Offers
  /\ UNCHANGED crowded /\ Keep

\* The threads.  One that ends closes its interface.
StopsItself ==
  /\ ending < MaxThreads /\ ending' = ending + 1
  /\ \/ server = "running" /\ server' = "stopped" /\ UNCHANGED orphans
     \/ orphans > 0 /\ orphans' = orphans - 1 /\ UNCHANGED server
  /\ UNCHANGED <<page, form, show_home, drawn, handled, crowded, panicked>> /\ KeepAdapter

ThreadEnds ==
  /\ ending > 0 /\ ending' = ending - 1 /\ Close("iso")
  /\ UNCHANGED <<page, form, server, orphans, is_connected, show_home,
                 drawn, handled, crowded, panicked>>

WindowsNext == (\E m \in drawn : Handle(m)) \/ Draw \/ StopsItself \/ ThreadEnds

\* The event loop goes on: a view is drawn again, the 250 ms timer is heard.
WindowsFairness == WF_windowVars(Draw) /\ SF_windowVars(Handle("PollServer"))
WindowsSpec == WindowsInit /\ [][WindowsNext]_windowVars /\ WindowsFairness
-----------------------------------------------------------------------------
WindowsTypeOK ==
  /\ page \in {"launcher", "home", "tracer", "obd", "diag", "scanner", "manual", "session", "json"}
  /\ form.loaded \in {"nothing", "car", "ecu"} /\ form.connections \in JsonEcus \cup {<<>>}
  /\ form.connection \in {0} \cup DOMAIN form.connections
  /\ server \in {"none", "running", "stopped"}
  /\ ending \in 0..MaxThreads /\ orphans \in 0..MaxThreads
  /\ open \subseteq {"can", "iso"} /\ is_connected \in BOOLEAN /\ show_home \in BOOLEAN
  /\ handled \in 0..MaxBatch /\ crowded \in BOOLEAN /\ close_failed \in BOOLEAN
  /\ panicked \in BOOLEAN

(* "Home screen should have NO interfaces open" (home.rs), whatever page   *)
(* was left, and however; unless the adapter refused to close one.         *)
NoInterfacesAtHome == page = "home" /\ ~close_failed => open = {}

(* While a KWP2000 or UDS session talks to its ECU one cannot press home.  *)
HomeHiddenInSession == page = "session" /\ server = "running" => ~show_home

(* A server that runs is one the page shown holds and can stop.  Only      *)
(* "Connect" pressed twice on one view leaves one that nobody can stop.    *)
NoOrphanUnlessCrowded == orphans > 0 => crowded

(* What is unwrapped is there, whatever order pages are visited in, unless *)
(* two messages were judged against one view.                              *)
PanicsOnlyCrowded == panicked => crowded

(* The tracer polls every 10 ms an interface that is open.                 *)
TracerPollsOpenCan == page = "tracer" /\ is_connected /\ ~close_failed => "can" \in open

(* Whatever is open or runs belongs to the page shown, which offers only   *)
(* what is there, in whatever order pages are visited and threads end.     *)
PageOwnsWhatRuns ==
  /\ WindowsTypeOK
  /\ NoInterfacesAtHome /\ HomeHiddenInSession /\ TracerPollsOpenCan
  /\ NoOrphanUnlessCrowded /\ PanicsOnlyCrowded

(* A session whose server stopped by itself is noticed: it is let go, or   *)
(* left.                                                                   *)
StoppedServerNoticed ==
  page = "session" /\ server = "stopped" ~> server # "stopped" \/ page # "session" \/ panicked
=============================================================================
