-------------------------------- MODULE Launcher --------------------------------
(***************************************************************************)
(* The launcher page, and the adapter it starts the program on.            *)
(*                                                                         *)
(* The user chooses an API and a device of it and asks to launch; with the *)
(* device open, the launcher gives way to the program, which uses the      *)
(* adapter for good.  What the program then calls on a Passthru or on a    *)
(* SocketCAN adapter is the subject of PassthruApi and SocketCanApi; the   *)
(* SLCAN adapter has SlcanAdapter.                                         *)
(***************************************************************************)
EXTENDS PassthruApi, SocketCanApi

CONSTANTS
  PassthruDevices, SocketCanDevices, SlcanDevices  \* what each API's search finds

VARIABLES
  offered,        \* the APIs the page offers, by the platform of the build
  api_selection,
  selected,       \* per API: the device selected, or Nothing
  app             \* "launcher", "stuck", or the API and the device it runs on

launcherVars == <<offered, api_selection, selected, app>>
allVars == <<vars, skVars, launcherVars>>
-----------------------------------------------------------------------------
Devices(api) ==
  CASE api = "passthru"  -> PassthruDevices
    [] api = "slcan"     -> SlcanDevices
    [] api = "socketcan" -> SocketCanDevices
    [] OTHER             -> {}

Apis(os) == {"dpdu", "passthru", IF os = "windows" THEN "slcan" ELSE "socketcan"}

FirstOf(devices) == IF devices = {} THEN Nothing ELSE CHOOSE d \in devices : TRUE

\* Passthru and SLCAN start with the first device found, SocketCAN with none.
LauncherInit ==
  /\ offered \in {Apis("windows"), Apis("linux")}
  /\ api_selection = "passthru"
  /\ selected = [api \in {"dpdu", "passthru", "slcan", "socketcan"} |->
                   IF api = "socketcan" THEN Nothing ELSE FirstOf(Devices(api))]
  /\ app = [on |-> "launcher", device |-> Nothing]
  /\ Init /\ SkInit

SwitchAPI ==
  /\ app.on = "launcher"
  /\ api_selection' \in offered
  /\ UNCHANGED <<offered, selected, app>>

\* Fault: one selection serves all APIs.
DeviceSelected_Shared ==
  /\ app.on = "launcher"
  /\ \E d \in Devices(api_selection) : selected' = [api \in DOMAIN selected |-> d]
  /\ UNCHANGED <<offered, api_selection, app>>

DeviceSelected ==
  /\ app.on = "launcher"
  /\ \E d \in Devices(api_selection) : selected' = [selected EXCEPT ![api_selection] = d]
  /\ UNCHANGED <<offered, api_selection, app>>

\* The view's launch button: Passthru shows it with a selected device, the
\* others with any device found.
MayLaunch ==
  IF api_selection = "passthru" THEN selected["passthru"] # Nothing
                                ELSE Devices(api_selection) # {}

LaunchOn(device) == device = selected[api_selection]

\* The device is opened (an error is only shown); ERR_FAILED leaves the UI thread
\* waiting for the driver it has locked itself (PassthruApi!Failed).
LaunchRequested ==
  /\ app.on = "launcher" /\ api_selection # "dpdu" /\ MayLaunch
  /\ \/ \E d \in (UNION {Devices(api) : api \in offered}) \cup {Nothing} :
          LaunchOn(d) /\ app' = [on |-> api_selection, device |-> d]
     \/ api_selection = "passthru" /\ app' = [on |-> "stuck", device |-> Nothing]
  /\ offered' = {} /\ selected' = [api \in DOMAIN selected |-> Nothing]  \* the page is gone
  /\ UNCHANGED api_selection

LauncherStep ==
  (SwitchAPI \/ DeviceSelected \/ LaunchRequested) /\ UNCHANGED <<vars, skVars>>

PassthruStep(A) == app.on = "passthru" /\ A /\ UNCHANGED <<skVars, launcherVars>>
SocketCanStep(A) == app.on = "socketcan" /\ A /\ UNCHANGED <<vars, launcherVars>>

LauncherNext == LauncherStep \/ PassthruStep(Next) \/ SocketCanStep(SkNext)

(* The scheduler runs every thread that can go on, and no lock is refused  *)
(* to a waiting thread for ever; users, callers and drivers are free.      *)
LauncherSpec ==
  /\ LauncherInit /\ [][LauncherNext]_allVars
  /\ \A t \in Threads : SF_allVars(PassthruStep(Proceed(t)))
-----------------------------------------------------------------------------
LauncherTypeOK ==
  /\ offered \in {Apis("windows"), Apis("linux"), {}}
  /\ app.on = "launcher" => api_selection \in offered
  /\ \A api \in DOMAIN selected : selected[api] \in Devices(api) \cup {Nothing}
  /\ app.on \in {"passthru", "slcan", "socketcan", "launcher", "stuck"}
  /\ TypeOK /\ SkTypeOK
=============================================================================
