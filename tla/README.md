# OpenVehicleDiag in TLA+

This directory is a verification development of OpenVehicleDiag: TLA+ modules
translated from its Rust source, TLC configurations that check them on small
instances, and proofs checked by TLAPS. All paths below are relative to the
repository root; line numbers of every definition are in `PROJECT.json` ("map").

Contents: [the system](#1-the-system), [hard behaviours](#2-what-is-hard-here),
[the modules](#3-modules-and-code), [the runs](#4-runs-and-what-they-show),
[bounds](#5-bounds-and-why-they-are-enough), [fairness](#6-fairness),
[the proofs](#7-proofs), [disagreements found](#8-where-the-code-disagrees-with-its-own-text),
[what is left out](#9-not-modelled-and-why), [the plan](#10-plan).

## 1. The system

OpenVehicleDiag is a desktop program that talks to the control units (ECUs) of
a car. One UI thread runs everything that is drawn; each open diagnostic
session adds one server thread. All of them share one adapter.

```
 windows (UI thread)                       app_rust/src/windows
   | start_diag_session, run_cmd, exit     (blocking calls)
   v
 DiagServer: KWP2000ECU | UDSECU | OBD     app_rust/src/commapi/protocols
   | cmd_tx / cmd_rx channels + shared should_run, curr_session_type
   v
 server thread (one per session)
   | send_recv_data, send_data, close
   v
 Interface: IsoTPInterface | CanbusInterface   app_rust/src/commapi/iface.rs
   | ComServer trait: boxed clones share one adapter state
   v
 SlcanApi | PassthruApi | SocketCanAPI | DpduAPI
   | serial lines / driver calls / sockets
   v
 adapter, CAN bus, ECUs                        (external)
```

### Components, their state and operations

**Diagnostic servers** (`commapi/protocols/mod.rs`, `kwp2000/mod.rs`,
`uds/mod.rs`). State: the flag `should_run`, the recorded session
`curr_session_type`, two mpsc channels, and the interface, owned by the server
thread. Operations: `start_diag_session` (set the interface up, spawn the
thread, enter the extended session), `run_command`, `set_diag_session_mode`,
`exit_diag_session`, and the thread's own loop: take a command, or send tester
present every two seconds while the recorded session is not the default one;
KWP2000 additionally reconnects. One `run_command_resp` is a clear, a send, a
read, and a second read after a "response pending". Correct when: an answer
reaches the caller of that very request; a caller is never left blocked; the
recorded session is the ECU's; the thread stops when told to, closes the
interface, and does not stop when not told to.

**SLCAN adapter** (`commapi/slcan_api.rs`). State, shared by all clones behind
one mutex: the serial port, `can_open`, `iso_tp_open`, filters, two receive
queues, the payload being received. Operations: open and close of device, CAN
and ISO-TP channel, filters, send, read, clear. Each command is one line,
answered by CR, BEL or `z`, with bus frames in between, within one second.
Correct when: host and adapter agree on what is open; a reply decides the
command it answers; no frame is lost or reordered; payloads are whole.

**Interfaces** (`commapi/iface.rs`) turn `send_recv_data` into clear, send and
read, and set ISO-TP up as open, parameters, filter; the raw CAN interface of the tracer
and the scanner passes each call on. ISO 9141 and ISO 14230 are
`todo!()`.

**Passthru adapter** (`commapi/passthru_api.rs` over the FFI of `passthru.rs`).
State, shared by the clones: the driver behind a mutex; the channel number of CAN
and of ISO-TP, each behind an `RwLock`. Every call is a sequence of short locked
parts and driver calls. Correct when: a recorded number is that of a connected
channel of its kind, never both are recorded at rest, and no call waits for ever.

**SocketCAN adapter** (`commapi/socket_can_api.rs`). The two sockets are shared, the
filter table and the ISO-TP flag belong to each clone. Correct when a user's filters
are the ones the kernel applies. **D-PDU** is a stub.

**Launcher** (`windows/launcher.rs`): the choice of API and device, and the device
the program runs on.

**Main window and pages** (`windows/window.rs`, `home.rs`, `cantracer.rs`, `obd.rs`,
`diag_home.rs`, `diag_manual.rs`, `diag_session/mod.rs`, `kwp2000_session.rs`,
`uds_session.rs`). State: the page shown and what it owns, namely a server, open
interfaces, the picked file, ECU and connection, and the global flag that hides
the home button. Operations: page changes, open and close, connect, disconnect,
poll, launch. Correct when what runs or is open belongs to the page shown, and
nothing is unwrapped that is not there.

**JSON-defined session** (`diag_session/json_session.rs`). State: variant, service
selector, looping service, trouble codes with their table, page. Messages returned
by `update` come back later, and it blocks the UI thread in every command to the ECU.
Correct when what is shown and offered is the variant's, the query's and the last
reading's.

**Scanner** (`windows/diag_scanner.rs`): stages 0 to 7, driven by messages the page
posts to itself: listen to the idle bus, probe identifiers for flow controls,
verify the answers, then open a KWP2000 (stage 5) and a UDS session (stage 6) on
each ECU found. Correct when the pairs found are the car's ECUs and the scan ends.

**OBD-II** (`protocols/obd2`, `windows/obd.rs`): a third server without tester
present. Starting it asks at once which groups of PIDs and which vehicle
information the ECU supports. Correct when each answer is shown for what it is.

**Schema and converter** (`common/src`, `CBFParser/src`): the random access reader,
records with optional fields, the links between a vendor file's tables, the data
formats chosen for parameters, and their decoding from an ECU's answer. Correct
when each step keeps what the file says.

### How they interact

The UI calls a server synchronously: it puts a command in `cmd_tx` and blocks in
`cmd_rx.recv()`. The handle contains an `Arc<Receiver>`, which is not `Send`, so
one server's callers are all in the UI thread. A server's thread owns its
interface object, but that object is a clone of the adapter: the ISO-TP channel,
the filter and the receive queue exist once per adapter, not once per session.
`exit_diag_session` only clears the flag; the thread closes the interface later,
by itself.

The toolkit hands the UI thread messages in batches: buttons pressed while
`update` was blocked are judged against the view that was drawn before. A message
that `update` itself returns is posted as a future and may be overtaken.

## 2. What is hard here

`PROJECT.json` lists 40 hazards at their lines. They fall in seven families:

1. *Two threads and two channels* (interleaving, liveness): a server that stops
   itself just as a command is sent; tester present and reconnection between
   commands.
2. *An ECU that answers late, twice, or not at all* (unreliable delivery,
   timeouts): answers are matched by service byte only, and a negative one not
   even by that. The OBD page and the scanner rely on it most.
3. *A command dialogue without correlation* (protocol order, partial failure):
   three-step opens, critical sections in two halves, replies after the
   deadline.
4. *ISO-TP* (lost frames, numeric edges): four-bit sequence numbers, eight-bit
   block counters, transfers abandoned on either side.
5. *One adapter for many clones* (stale state, deadlock): the thread of an old
   session closes the channel of a new one; a channel number is copied and used
   after its lock was given up; filters live in a clone, sockets in all of them;
   an error path locks what its caller holds.
6. *Messages judged against a view already past* (ordering): a button pressed twice,
   rows of a table made for another reading, a service of the list before, a graph
   started and stopped before its start is handled.
7. *Indices and widths* (numeric edges): a bound off by one, bit ranges past the end
   of an answer, tables matched by index while one of them is sorted.

Most properties below are about one of these. A hazard without a property has a
note saying why.

## 3. Modules and code

| Module | Models | Composes |
| --- | --- | --- |
| `DiagServer` | one KWP2000 or UDS session: handle, thread, channels, ECU | |
| `DiagServerProofs` | theorems about it | EXTENDS `DiagServer` |
| `SlcanAdapter` | SLCAN host: channels, command dialogue, queues, filters | |
| `SlcanAdapterProofs` | theorems about it | EXTENDS `SlcanAdapter` |
| `PayloadChannel` | abstract: what ISO-TP promises | |
| `IsoTpReceive` | reception of ISO-TP payloads on SLCAN | implements `PayloadChannel` |
| `IsoTpSend` | sending of ISO-TP payloads on SLCAN | |
| `IsoTpReceiveProofs`, `IsoTpSendProofs` | theorems about them, and the refinement | EXTEND these |
| `SessionHandover` | many sessions over one ISO-TP channel | server threads and the adapter's ISO-TP state |
| `SessionHandoverProofs` | theorems about it | EXTENDS `SessionHandover` |
| `PassthruApi` | the Passthru adapter's locks and channel numbers | |
| `SocketCanApi` | the SocketCAN adapter's sockets and filter tables | |
| `Launcher` | the launcher, and the adapter it starts the program on | EXTENDS both adapters |
| `LauncherProofs` | theorems about the three | EXTENDS `Launcher` |
| `Windows` | the main window, its pages, what they own | |
| `JsonSession` | the JSON-defined session | |
| `DiagScanner` | the search for ECUs | |
| `PageProofs` | theorems about the three | EXTENDS `Windows`, `JsonSession`, `DiagScanner` |
| `ObdServer` | the OBD-II server and its page | |
| `CaesarReader` | flagged records read through `Raf` | |
| `CbfLinks` | links between a vendor file's tables | |
| `ParamDecode` | decoding of a parameter from an answer | |
| `CbfFormats` | from a vendor file's preparation to what is shown | EXTENDS `ParamDecode` |
| `EcuAnswers` | trouble codes, variant and identification, read from answers | |
| `DecodingProofs` | theorems about these and the OBD-II server | EXTENDS `ObdServer`, `EcuAnswers`, `CaesarReader`, `CbfLinks`, `CbfFormats` |

Each `MC_` module gives the constants values. `MC_Pages` and `MC_Decoding` also
put several components in one model: the constant-valued variable `explored` says
which of them moves while the others rest in one initial state. `MC_Pages` holds the
window, the scanner and the OBD-II page; `MC_Decoding` the way from a vendor file and
an ECU's answers to the JSON session's page. The components of a group share nothing
but the adapter and plain data, which each of them abstracts; one model per group
keeps the project's runs few. Operators whose name ends in
`_Something` after a definition's name and whose comment says "Fault" are
plausible mistakes in that definition. No specification uses them; each is
checked to break a property (`PROJECT.json`, "mutants").

### DiagServer

| Variable | Code |
| --- | --- |
| `client`, `call` | where the UI thread is in the API, and its last request |
| `global_id` | `DiagCfg::global_id` is set: KWP2000 tester present is functional and unanswered |
| `should_run`, `curr_session_type` | the atomics both threads share |
| `cmd_chan`, `resp_chan` | the two mpsc channels |
| `thread`, `job`, `request` | the server thread's place in its loop and its exchange |
| `iface`, `rx` | the interface and its receive buffer |
| `powered`, `ecuSession`, `ecuIn`, `ecuOut` | the ECU and the bus (external) |
| `disturbed` | history: see below |

Actions follow the functions: `Connect`, `RunCommand`, `SetDiagSessionMode`,
`TakeAnswer`, `Panic`, `ExitDiagSession` for the UI thread; `LoopTop`,
`TakeCommand`, `NoCommand`, `BeginTesterPresent`, `SkipTesterPresent`,
`BeginReconnect`, the steps of the exchange and `CloseInterface` for the server
thread. The two protocols differ in `Finish` (only KWP2000 reconnects and stops
itself) and in `SetDiagSessionMode` (KWP2000 only); the constant `Protocol`
picks one.

Modelling decisions:

* Receiving an answer and recording the session are one step, as no other
  thread can act on the answer in between; the server thread reads the recorded
  session only after its timer.
* A frame carries `own`, true while the exchange that caused it is the current
  one. The code cannot see it; it lets properties say "the answer to this
  request" without numbering requests.
* `disturbed` becomes true when an exchange is given up (send error, timeout, a
  second "response pending"), when the ECU loses power, and when a session is
  started by a raw command behind the server's back. Claims that cannot hold
  over a protocol without correlation are made while it is false.
* A KWP2000 mode change that is refused records `Default`, as the code does,
  although the ECU may still be in another session; reconnection always asks for
  the extended session.

### SlcanAdapter

`port`, `can_open`, `iso_tp_open`, `filters`, `iso_tp_filter`, `receive_queue` and
`iso_receive_queue` are the fields of `SlcanInner`. `holder`, `op` and `cmd` say who
holds the mutex, in which call, waiting for the reply to which command;
`resume` marks a client between the two critical sections of
`open_iso15765_interface` or `close_device`. `toDevice` and `toHost` are the serial
link; `devOpen` is the adapter's own channel state. Every batch `poll_events` may
read is a prefix of `toHost`, chosen freely, so a reply and frames can be read
in one batch or in several.

The adapter is external and follows `src/SLCAN_PROTOCOL_SPEC.md`: one reply per
command, NACK in the wrong state or at the driver's whim, frames at any time
while open. A prior program may have left it open. A call over several frames is
modelled as one call per frame; in the code the mutex is held for the whole call,
so the model allows more interleavings than the code. `CommandTimeout` requires
that nothing lies unread: a reply that lies unread at the deadline has the same
effect as one that comes just after. Partial and malformed lines are not modelled.

### IsoTpReceive, IsoTpSend, PayloadChannel

`iso_tp_receive` and `tx` hold the counters the code keeps: `next_sequence` modulo
`SeqModulus`, `frames_since_flow_control` and `frames_in_block` modulo
`CounterLimit`. Frames carry the number of their payload and their position as
ghosts: the code sees only type, length and sequence number. The other end is an
ECU that follows ISO 15765-2: it waits for flow controls, abandons a transfer
when none comes, and takes whatever flow control is next. An overflowing counter
panics (a build with overflow checks) or wraps (one without; `Cargo.toml` does not
choose), so both are possible steps.

`misled` is set when a side takes a flow control meant for a payload that was
given up: flow controls carry no identity, so nothing on the wire can exclude it.
It is the only way to mix payloads in the models. `upset` is set when something
went wrong with the current payload; "neither waits for the other" is claimed
while it is false.

`PayloadChannel` says that payloads are delivered in order and at most once, with
losses. `IsoTpReceive` is shown to implement it under the mapping
`sent <- started, delivered <- payload.n`, as long as no sender is misled.

### SessionHandover

The UI starts session after session, as stages 5 and 6 of the scanner do; every
session has a server thread that makes exchanges until its flag is cleared and
then closes the adapter's ISO-TP channel. Each adapter call is a step of its own,
since each takes the mutex for itself. `overlap` records that a session began
before the threads of all earlier ones had ended. What is inside an exchange is
`DiagServer`'s subject; here an exchange is clear, send, receive.

### PassthruApi, SocketCanApi, Launcher

| Variable | Code |
| --- | --- |
| `channel_idx` | `can_channel_idx` and `iso15765_channel_idx` |
| `writer`, `readers` | guards of these two `RwLock`s alive across a step |
| `driver` | who holds the driver's mutex for ever (see below) |
| `connected`, `device_open` | the driver's channels and device (external) |
| `thread` | per clone: its place, its call, the number it copied |

`Call` begins a `ComServer` method; `ReadIndex`, `LockIndex`, `Disconnect`, `Connect`,
`Record` and `ForgetOther` are the locked parts of opening and closing; `Use` is any
other driver call. A guard made in an expression lives to the end of its statement,
so `KeepsGuard` is true for filters and clearing only: reading and writing use a
copied number. For the same reason the driver is still locked when `map_err` runs
`convert_error`, which for `ERR_FAILED` locks it again (`Failed`): that thread waits
for itself (`pc = "stuck"`). Version alone takes every result; clearing and the ISO-TP
read drop the guard first (`Describe`).

In `SocketCanApi` a handle is a page or a server; opening a socket and storing it
are two steps, as the code opens it before it takes the lock. Closing CAN drops a
write guard and leaves the socket in place, as in the code. `Launcher` picks API and
device, and then lets the adapter of the chosen API run.

### Windows

| Variable | Code |
| --- | --- |
| `page`, `form` | `MainWindow::curr_win`; the manual page's file, ECU, connection, fields |
| `server`, `ending`, `orphans` | the page's server; threads told to stop; running threads nobody holds |
| `open`, `is_connected` | interfaces open on the adapter; what the tracer believes |
| `show_home` | the global `SHOW_HOME` |
| `drawn`, `handled` | what the view drawn offers, messages handled since |
| `crowded`, `close_failed` | history: two messages judged against one view; a close refused |

`Offers` is what view and subscription of a page let through; `Handle(m)` passes a
message offered by the *drawn* view through `Update`, which drops what is not for the
page now shown. An old page is dropped only after the new one was made, so what its
`Drop` does (exit the server) comes last. The OBD server has a `Drop` of its own, and
so has the enum `DiagServer` (`protocols/mod.rs:263`), which the JSON session holds. The
KWP2000 and UDS windows hold the structs inside it, which have none: overwriting one
leaves its thread running.

### JsonSession

The variables are the fields of `JsonDiagSession` and its `ServiceSelector`;
`posted` holds the messages `update` returned, delivered in any order, and `overtaken`
remembers that the loop's setting changed while its start was posted. `JsonOffers` is
what the view lets the user press; `JsonUpdate` is `update`.

As in `Windows`, a view is drawn after a batch of messages only: `json_drawn` is what the
view drawn last offers, `json_handled` counts the messages since, and `Press` passes on
any message of that view, whatever the messages before it have changed; `update` does
not ask for the page shown. `outdated` remembers that a press was handled which the page
would no longer have offered, and `json_panicked` that a row or a service was not there.

### DiagScanner

`curr_stage`, `curr_scan_id` and the `stage` results are the page's fields; `next` is the
message it posted to itself; `keys` is the order the results' `HashMap` lists them in;
`expired` says that the stage's time has passed. The adapter keeps `filters` and `rx`;
`unfiltered` says whether it passes everything before a filter is set (SLCAN does, the
others do not). A car (`Networks`) has ECUs that answer on some identifier, and other
senders, whose frames may look like flow controls or have no data. `trouble` remembers
late answers, senders that were silent while stage 1 listened, and refused calls.

### ObdServer

`asked` and `place` say which request is being made and how far; `s01`, `s09`, `info` and
`codes` are what the page knows, each answer with the request it really belongs to (a
ghost: the code sees the service byte). `lag` remembers that a request was made while
the ECU still had an earlier one. `NoGoodAnswer` is every error path: `Service01::init`
gives up with `?`, single pieces of information become "Not Supported".

### CaesarReader, CbfLinks, ParamDecode, CbfFormats

`CaesarReader` runs one record: `bitflags`, `pos` and `values` are the reader's state, and
the constant layouts list each record type's fields in the order its `new` reads them.
Sizes and distances are i32 that the code casts to usize: one below zero is a number
near 2^64, with which the next sum overflows, and `checked` says whether that panics.

`CbfLinks` runs the linking of one variant (`create_diag_services`, `create_dtcs`,
`create_env_ctxs`) and of the ECU's inputs and downloads. What a loop keeps of a list is
given by the places it keeps (`Kept`), in their order (`InOrder`). `removed` counts the
inputs `delete_input_params` has removed, one to a step, as each removal moves those
behind it; `map` holds the payloads whose downloads are not gathered yet, taken one at a
time in any order, as a `HashMap` is walked. The end of a code's range of references is a
sum of two i32 (`Overlong`): it panics a checked build and wraps in another.

`ParamDecode` shows and plots one parameter of one answer, bit by bit. What `get_number`
returns becomes an `f32` before it is compared with a table or plotted (`AsF32`: to the
nearest number of 24 bits, halfway to the even one). The text printed is kept only as an
outcome. `CbfFormats` follows a preparation through `get_size_in_bits` and
`Presentation::create` to `ParamDecode`; its mode says which of the ECU's two pools of
presentations it is looked up in. A parameter's length is an i32 too, and may be below
zero. Panics are outcomes.

### EcuAnswers

`read_errors` of both servers, their variants and the KWP2000 identification with a
`diag_information`, over one positive answer (`reply`): `left` is what the loop has not
drained, `count` what KWP2000's answer promised, `found` the codes, or the one number
that identifies the ECU or its variant. `EnvRequest` is what
the ECU is then asked about a code. Clearing codes and reading freeze frames are
commands like any other, which `DiagServer` runs.

## 4. Runs and what they show

| Run | Expected | Properties | Distinct states |
| --- | --- | --- | --- |
| `DiagServer_kwp` | pass | `TypeOK`, `ChannelDiscipline`, `UndisturbedSession`, `CallsEnd` | 444,720 |
| `DiagServer_uds` | pass | `CallsReturn`, `ExitClosesInterface` | 104,926 |
| `DiagServer_kwp_panic` | violation | `ClientNeverPanics` | |
| `SlcanAdapter_one` | pass | `TypeOK`, `LayersAndFilterNest`, `RepliesCorrelatedInTime`, `FramesKept` | 722,822 |
| `SlcanAdapter_two` | pass | `OpenOnBothSides`, `CallsReturn` | 70,943 |
| `IsoTpReceive` | pass | `CountersFit`, `PayloadsWhole`, `NobodyWaits`, `PayloadsInOrder` | 501,831 |
| `IsoTpSend` | pass | `CountersFit`, `PayloadsWhole`, `BlocksRespected`, `NobodyWaits` | 558,364 |
| `SessionHandover_three` | pass | `TypeOK`, `LoneSessionKeepsChannel`, `LoneSessionHearsItsEcu`, `OneServerRuns`, `CallsAndThreadsEnd` | 73,809 |
| `SessionHandover_stale_close` | violation | `SendsWithOwnFilter` | |
| `Launcher_adapters` | pass | `LauncherTypeOK`, `ChannelsTracked`, `SoleUserFiltersApplied`, `CallsReturn` | 72,944 |
| `Pages` | pass | `PageOwnsWhatRuns`, `ScanFindsEcus`, `PageTellsOfThisEcu`, `StoppedServerNoticed`, `ScanEnds`, `ObdCallsEnd` | 488,571 |
| `Decoding` | pass | `RecordsRead`, `LinksKept`, `FormatsUsable`, `CodesAreTheEcus`, `SessionPageFits` | 658,154 |

A property that speaks of one whole (a session, a page, a scan) is a conjunction of
parts, each a definition with a comment of its own: `UndisturbedSession` of
`UndisturbedAnswersAreOwn`, `RecordedSessionIsReal` and `NoSpuriousStop`, and so on.
`PROJECT.json` has a mutant for each part.

What the passing runs establish, in the terms of section 2:

* *Channels.* While the UI thread waits, its request is in exactly one place, and
  otherwise both channels are empty (`ChannelDiscipline`). Tester present and
  reconnection never leak a result into them.
* *Answers.* Short of a disturbance an answer belongs to its request, the recorded
  session is the ECU's own, and the server does not stop without cause
  (`UndisturbedSession`); this needs both the clear before each send and the second
  read after a pending response.
* *Lifetime.* A UDS call always returns (`CallsReturn`), a KWP2000 call ends
  (`CallsEnd`), though it may end in a panic; after exit the interface is closed
  (`ExitClosesInterface`).
* *SLCAN.* Until a command times out, host and adapter agree on the channel,
  through every partly rejected open and close and with two clones interleaving
  (`OpenOnBothSides`), and each reply decides its own command
  (`RepliesCorrelatedInTime`). Frames that share a batch with replies are neither
  lost nor reordered (`FramesKept`).
* *ISO-TP.* Payloads that get through are whole, in order, once; the block
  counters of the two ends never make them wait for each other; a counter
  overflows only in an unbounded block (`CountersFit`).
* *Hand-over.* A session begun after the older threads ended is untouched by them,
  and at most one server runs for good.
* *Passthru and SocketCAN.* However opens, closes and uses of the clones interleave,
  a recorded channel number is live and of its kind, both are recorded only while an
  open is about to forget one, and users that keep the number locked reach the
  driver with it (`ChannelsTracked`). Every call returns, unless the driver is held
  for ever by a thread whose `ERR_FAILED` made it wait for itself (`CallsReturn`): that
  self-deadlock is what the code does, the order of the other locks is sound. A page
  alone on a SocketCAN socket has its filters applied, although closing keeps the
  old socket (`SoleUserFiltersApplied`).
* *Pages.* Nothing is left open at home, the home button is hidden while a session
  runs, the tracer polls what is open; a thread that nobody can stop, or an unwrapped
  `None`, needs two messages judged against one view (`PageOwnsWhatRuns`). A server
  that stopped by itself is noticed or left (`StoppedServerNoticed`).
* *JSON session.* The services shown are the variant's and the query's, rows are the
  codes read last, and a running graph can be stopped unless its start was overtaken.
  What is selected is of the list in view, and no button unwraps or indexes what is not
  there, unless a press is handled that the page no longer offers: a row pressed after
  *Clear errors*, or a service of the list before, both pressed on one view
  (`SessionPageFits`).
* *Scan.* A pair that comes out of stage 3 is an ECU's, even if flow controls were late
  in stage 2; only an ECU that is late again when stage 3 asks can leave a wrong pair.
  None is missed in an untroubled scan, save one at the last identifier, whose answer
  nobody waits for, or at the first, which is never asked; what is saved is about that
  ECU; no panic behind a filtering adapter (`ScanFindsEcus`). A scan ends (`ScanEnds`).
* *OBD.* Each answer is shown for what was asked unless a request overtook a slow ECU;
  the groups of PIDs are complete or unknown; stored, pending and permanent codes are
  never mixed up; shown information is this session's (`PageTellsOfThisEcu`); a pressed
  button has an end (`ObdCallsEnd`).
* *Decoding.* Against reference definitions written without the code's loops: records
  are read field by field from their places (`RecordsRead`), links are those of the
  file (`LinksKept`: codes with their own ranges though the pool is sorted, references in
  order, inputs each removed from its moved place, outputs neither lost nor doubled),
  numbers are the bits they should be (above 2^24 within one part in 2^24), and what the
  converter makes can be shown (`FormatsUsable`).
* *Trouble codes.* The codes listed are the answer's, in number, order and state; the
  freeze frame asked for is that code's; only an answer shorter than its head or than
  the count it gives panics the page. A KWP2000 ECU is identified by its two bytes of
  diagnostic information; of a UDS variant the lower three bytes are the record's first
  three, and the highest is the low byte of the identifier asked for (`CodesAreTheEcus`).

`FramesKept` and `LayersAndFilterNest` are stated for one holder of the adapter. With
two clones they do not hold: between the two critical sections of `close_device` or
`open_iso15765_interface` another clone may open or close the channel.

## 5. Bounds, and why they are enough

* `DiagServer`: one frame in each direction and one in the buffer
  (`MaxInFlight = 1`) already allows a late answer to meet the next exchange, and
  a pending and a final answer to be apart. Two modes distinguish "default" from
  "not default", all the code distinguishes; one ordinary service stands for
  every service that is neither a session start nor tester present, as answers
  are compared by service only.
* `SlcanAdapter`: three frames are the fewest in which a middle one can be lost
  or two swapped around a third. One command may be executed late
  (`MaxLate = 1`); more late commands only add more late replies. One identifier
  and one filter slot let a filter accept, block, come and go.
* `IsoTpReceive`, `IsoTpSend`: sequence numbers and counters have 4 values
  instead of 16 and 256, so payloads of up to 6 (5) frames exceed both, as 4095
  bytes (585 frames) do in the code. Blocks of 2 frames, or none. As many losses
  as sequence numbers (4) let a lost run go unnoticed by the number alone; three
  payloads let frames of two abandoned ones meet a third.
* `SessionHandover`: three sessions let a session have a live and a dead
  predecessor; two frames of the receive queue let an old and a new answer meet.

* `PassthruApi`: the UI thread and one server make every pair of calls interleave;
  two channel numbers are the fewest that let one be given anew while the other is
  recorded. `SocketCanApi`: two pages and a server, two filters, two slots: a table
  with a hole, a full one, and filters of a page that another has overwritten.
* `Windows`: two messages per view (`MaxBatch`), the fewest that can meet; two threads
  ending and two left over. ECU files with one connection and with a first one that
  cannot be used.
* `JsonSession`: two variants and one without a pattern, services with and without
  input, an empty query and a longer one, lists of up to two codes, all alike, which
  differ in length (for codes that differ, and for more messages posted at once,
  there is the proof), one posted message;
  two messages handled on one view (`MaxPresses`), the fewest of which the second can be
  out of date.
* `DiagScanner`: identifiers 0 to 5, of which 3 stands for 0x7DF, and three cars:
  neighbours that answer into each other's time; an ECU at the last identifier, with a
  sender of what looks like flow controls; one at identifier 0, where the last one
  itself sends empty frames. One frame waits in the adapter (`MaxRx`) and a sender is
  noted at most twice (`MaxNoted`).
* `ObdServer`: `LastGroup = 1` instead of 6 and an ECU that announces one group more;
  two sessions, so that a page outlives one; two requests with the ECU (`MaxUnderway`).
* `CaesarReader`: four short layouts with every kind of field and both words of flags,
  with any of the first five fields given and the file cut anywhere; the thirteen
  real layouts, whole, cut and with a field missing; sizes and distances below zero, at
  zero and past the end, in checked and unchecked builds.
* `CbfLinks`: pools of up to three trouble codes (negative, valid, too large), two
  environments, four inputs and three downloads: enough to sort, shift and group. Ranges
  whose end is above or below every i32, in both builds.
* `ParamDecode`, `CbfFormats`: every format at lengths around 1, 8, 16, 24 and 32 bits,
  and below zero, aligned or not, over answers of 0, 1, 3 and 5 bytes, some of whose
  numbers an `f32` does not hold; every combination
  of the presentation fields that `get_data_type` and `create` look at, with lengths below
  zero and too large for eight times an i32, in two pools of different length whose
  entries differ.
* `EcuAnswers`: answers of up to two codes, the status any combination of the bits that
  are looked at, cut anywhere and, on KWP2000, of a count larger or smaller than the
  codes; identifications of every length up to one past the right one.

Deadlock checking is off where the system may really stop: a panicked UI thread
or a session that is over (`DiagServer`), a panicked host or a peer with nothing
left to send (`IsoTpReceive`, `IsoTpSend`), no session left to start
(`SessionHandover`), a launcher that is stuck or an adapter without callers
(`Launcher`), and a panicked page, a scan or a decoding that is over (`Pages`,
`Decoding`). The two `SlcanAdapter` runs check it.

## 6. Fairness

* `DiagServer`: weak fairness of the server thread (the operating system runs
  it); strong fairness of `BeginTesterPresent` (2000 ms elapse again and again,
  although each pass of the loop may find the timer still running); weak fairness
  of waking the UI thread once its channel has an answer or is dead. None for the
  user, the ECU or the bus: `CallsReturn` holds whatever they do, because a read
  has a deadline.
* `SlcanAdapter`: weak fairness of the holder of the mutex, who polls until its
  one-second deadline. The adapter is never obliged to answer.
* `SessionHandover`: the same per server thread, with the read's deadline named
  (`ReceiveTimeout`), and the UI's wake-up.
* `PassthruApi`: strong fairness of each thread's next step: the standard library's
  locks are fair enough not to refuse one thread for ever. Callers are free, and the
  driver may fail with any error at any time.
* `Windows`: weak fairness of drawing and strong fairness of the 250 ms timer's message,
  which comes again and again while the page is shown. The user is free.
* `DiagScanner`: messages the page posts to itself are handled (weak for `Increment`,
  strong for `Poll`, which frames on the bus may interrupt), and time passes.
  Nobody need answer.
* `ObdServer`: weak fairness of the server thread; its read has a deadline.

## 7. Proofs

Every invariant that a passing run checks is proved, for all values of the constants that
satisfy the named ASSUMEs, which TLC evaluates in the runs; two of the SLCAN adapter's are
proved, as they are checked, for one clone of it. The ASSUMEs say:

* bounds are natural numbers, and model values which the code never confuses differ;
* a page's ECU file lists connections (`WindowsAssumption`), a vehicle has a natural
  number of groups (`ObdAssumption`);
* on CAN an identifier has one sender, and no ECU sends with the identifier of the tester
  or of another sender (`ScannerAssumption`). Without it nothing in a frame tells an ECU
  from its neighbour;
* answers and files are sequences of bytes (`AnswersAssumption`, `DecodeAssumption`,
  `RecordsAssumption`); a layout has a field in its first word, and a dump follows its
  size, as in every `new` of the parser;
* lengths read from a file may be below zero (`DecodeAssumption`, `FormatsAssumption`);
  indices and ranges are any i32, and a download's payload is not empty, as `decode_ecu`
  only gathers those that have one (`FilesAssumption`).

Hardly a property is inductive by itself: each proof strengthens it to an invariant that
is, and has one lemma per action or actor.

| Module | Theorem | States |
| --- | --- | --- |
| `DiagServerProofs` | `TypeCorrect` | `TypeOK` |
| | `ChannelDisciplineHolds` | `ChannelDiscipline` |
| | `UndisturbedSessionHolds` | `UndisturbedSession` |
| `SessionHandoverProofs` | `HandoverTypeCorrect` | `TypeOK` |
| | `OneServerRunsHolds` | `OneServerRuns` |
| | `LoneSessionKeepsChannelHolds` | `LoneSessionKeepsChannel` |
| | `LoneSessionHearsItsEcuHolds` | `LoneSessionHearsItsEcu` |
| `SlcanAdapterProofs` | `RepliesCorrelated` | `RepliesCorrelatedInTime` |
| | `OpenOnBothSidesHolds` | `OpenOnBothSides` |
| | `OneCloneLayersNest` | `LayersAndFilterNest`, for one clone |
| | `AdapterTyped` | `TypeOK` |
| | `CanQueueOrdered` | the CAN queue's part of `FramesKept`, for any number of clones |
| | `OneCloneFramesKept` | `FramesKept`, for one clone |
| `IsoTpReceiveProofs` | `CountersAlwaysFit` | `CountersFit` (with the type invariant) |
| | `PayloadsAreWhole` | `PayloadsWhole` |
| | `ImplementsPayloadChannel` | `PayloadsInOrder`: the refinement of `PayloadChannel` |
| | `NobodyEverWaits` | `NobodyWaits` |
| `IsoTpSendProofs` | `CountersAlwaysFit` | `CountersFit` (with the type invariant) |
| | `PayloadsAreWhole` | `PayloadsWhole` |
| | `BlocksAreRespected` | `BlocksRespected` |
| | `NobodyEverWaits` | `NobodyWaits` |
| `LauncherProofs` | `ChannelsTrackedHolds`, `LaunchedChannelsTracked` | `ChannelsTracked` of `PassthruApi`, and of the launched program |
| | `SoleUserFiltersHold` | `SoleUserFiltersApplied` |
| | `LauncherTypeCorrect` | `LauncherTypeOK` |
| `PageProofs` | `PageOwnsHolds` | `PageOwnsWhatRuns` (with the type invariant) |
| | `SessionPageHolds` | `SessionPageFits` (with the type invariant) |
| | `ScanFinds` | `ScanFindsEcus` (with the type invariant) |
| `DecodingProofs` | `PageTellsHolds` | `PageTellsOfThisEcu` (with the type invariant) |
| | `AnswersRead` | `CodesAreTheEcus` |
| | `ReaderReads` | `RecordsRead` |
| | `ShownRight` | `AnswersShown`, of any parameter |
| | `FormatsAreUsable` | `FormatsUsable`, of what is converted |
| | `LinksAreKept` | `LinksKept` (with the type invariant) |

### The arguments

* **`DiagServer`, channels.** A command taken from the queue is finished before the
  thread does anything else (`JobInv`); nothing can stop the thread before
  `start_diag_session` has sent its first request (`NewInv`); a thread that has ended
  left no request queued (`DeadInv`). With the type invariant this is `IInv`.
* **`DiagServer`, answers.** `UInv` adds, until something disturbs the session, where
  frames may be (`FramesOwn`: the one request that asks and all replies are of the
  exchange the thread listens for, and outside an exchange there are only tester
  presents that nobody answers), that a final answer is the
  last thing the exchange causes (`FinalIsLast`), that the reconnection is never
  begun (`NeverReconnects`), and that the recorded session is the ECU's, or becomes
  it with the answer under way (`SessionsAgree`). Asking for a session is the only
  frame that changes the ECU's, so the last one needs the first two.
* **`SessionHandover`.** The UI begins a session only after it has told the last one to
  stop. Any thread that ends closes the one channel there is, so it must be known that
  a session which overlapped none is the only one with a thread alive (`Alone`), hence
  that the filter is its own, or none, and that what is queued for it came through it
  (`OwnFilter`).
* **`SlcanAdapter`.** Until a command times out, it meets an empty link: the command is
  still on its way, or exactly one reply to it is under way to the host (`Correlated`).
  Host and adapter may differ about the channel only while that reply is under way, and
  then by what the command does (`Agreed`). The clones enter through the mutex only, so
  their number does not matter; for the nesting of the layers it does (section 4).
* **`SlcanAdapter`, frames.** Frames are numbered in the order of the bus. Every frame on
  the link is newer than every frame queued, each queue and the link rise, and a reader
  takes the link's old end (`Ordered`). While ISO-TP is open no number is missing between
  its queue, the link and the bus (`IsoWhole`). Only the second half of
  `close_device` drops what is on the link; with one clone ISO-TP is closed by then. What a filter or a batch leaves is given by the places kept, in their
  order (`Kept`), so that it needs no recursion: that the order lists every place is
  proved from a least counterexample.
* **`IsoTpReceive`, `IsoTpSend`, wholeness.** Consecutive frames follow a flow control,
  which follows the first frame. So on the bus everything that continues a payload lies
  before everything that begins one and continues the payload being put together
  (`Ordered`); then a lost frame leaves one too few to reach the length, however the
  sequence numbers wrap around (`Reaches`). Order of delivery and with it the refinement
  need only the first half.
* **`IsoTpReceive`, `IsoTpSend`, blocks.** As long as nothing is lost, both sides count
  the same frames: those the receiver has and those under way make up those sent
  (`Tracked`, `FramesConserved`), in the block as in the payload (`BlocksAgree`). So the
  receiver clears a block exactly when the sender has come to its end.
* **`PassthruApi`.** Only the UI thread opens (`UiOpens`); a number locked for writing is
  locked by nobody else (`Exclusive`); so a number about to be recorded or forgotten is
  that of the channel the driver made (`Recording`, `Closing`, `Using`).
* **`SocketCanApi`.** No table wants a filter while there is no socket, nor does that
  of a page that has opened one and not yet stored it (`TablesFollow`).
* **`Windows`.** What a message may take for granted is what the *drawn* view showed. So
  the invariant says that what the drawn view offers is still there until a first
  message is handled, whatever threads stop meanwhile (`DrawnHolds`); and that a server
  belongs to a page that can have one (`ServersHavePages`).
* **`JsonSession`.** A start that is posted and not overtaken finds a selector that
  already knows of the graph, and is of a service of the present variant (`PostedFits`). What
  the drawn view offers is what the page offers until a first message is handled, and
  what the page offers is prepared; so only a press that is `outdated` can panic or
  select what is not in view.
* **`DiagScanner`.** `ScanInv` follows the stages: in stage 2 an ECU has one flow control
  at most, and only after it was asked (`AskedOnce`); stage 3 begins with an empty filter
  and a listing of all that was noted (`Listed`), and then what passes the filter is the
  flow control of the ECU asked last, even if stage 2 noted it of another (`OnlyTheAsked`).
  So a pair is an ECU's. That none is missed follows from each being noted, and then
  verified, before the next is asked (`NotedInTime`, `VerifiedInTime`).
* **`ObdServer`.** A request made while none is with the ECU clears the buffer: until it
  ends every answer there, and every one to come, is an answer to it (`OwnAnswers`), so
  that matching by service is as good as matching by PID. Besides, the groups read so far
  are those before the one asked (`GroupsInOrder`).
* **`EcuAnswers`.** What the loop has left is exactly what lies behind the bytes it has
  read, and each code found is that of its own three or four bytes (`AInv`). So a drain
  can go past the end only if the answer is shorter than its head or its own count.
  Nothing is drained before an identification, whose number's bytes are again those read.
* **`CaesarReader`.** The flags left are those of the fields to come, in one word and the
  next (`FlagsAhead`), and as long as what was read lies in the file, the position is that
  of the next field (`NextInPlace`). A field's place is defined without the reader, from
  the flags and the sizes of the fields before it.
* **`ParamDecode`, `CbfFormats`.** What is shown depends only on parameter and answer, so
  the proof is about the operators: which bits are taken, in which order they weigh, and
  which lengths end in the answer; that rounding to an `f32` moves a number by less than
  one part in 2^24; and that the converter gives only formats and lengths for which that
  has an outcome (`FormatsInv`).
* **`CbfLinks`.** What is left of the inputs is what the deletion has not come to
  (`InputsInv`), so the next place has moved by `removed`; the outputs gathered are
  those of finished payloads (`DownloadsInv`), counted by a one-to-one map of their
  places. Here too lists are given by places in order, each by its rank;
  that every rank has one place is proved from the cardinality of what lies below it.

### Only model-checked

* Every liveness property: fairness and `ENABLED` are beyond this prover.
* The two refutations (`ClientNeverPanics`, `SendsWithOwnFilter`) are counterexamples.
* `FramesKept` and `LayersAndFilterNest` are proved for one clone, as they are checked:
  with two they are false (section 4).

## 8. Where the code disagrees with its own text

Two disagreements have a run that shows them (`PROJECT.json`, "findings").

1. `DiagServer_kwp_panic`: a KWP2000 command sent while the server thread gives
   the ECU up is accepted and never answered; `recv().unwrap()` panics.
2. `SessionHandover_stale_close`: an old session's thread takes channel and filter
   away from a session begun before it ended.

Others met while modelling, which the models follow and no run is spent on:

* "Diag server self-terminates upon ECU Session error" (`kwp2000/mod.rs:622`,
  `uds/mod.rs:599`): a silent ECU is a communication error, which neither loop reacts
  to (`kwp2000/mod.rs:520`), so the session outlives its ECU.
* "correlate replies with the command that produced them"
  (`SLCAN_PROTOCOL_SPEC.md:46`): after a timeout a late reply decides the next command
  (`slcan_api.rs:139`).
* "NACK means the controller was already closed, which is the desired state"
  (`slcan_api.rs:655`) is applied only while the host believes the channel closed; if
  it believes it open, every close and open fails from then on.
* "Dropping the socketCAN Iface closes it" (`socket_can_api.rs:283`): what is dropped is
  a write guard; the socket stays open for every clone.
* "Try all the CAN IDs" (`obd.rs:51`): `start_diag_session` asks no ECU, so the first
  identifier the adapter accepts is taken.
* "Allow only read-only services to be loop read" (`json_session.rs:115`): the graph
  button asks `can_execute == view_selection[0]`, which also offers services of the
  write list that need input, and not those of the read list that do.
* "MIL ON" is shown for the codes whose `check_engine_on` is false
  (`kwp2000_session.rs:254`).
* A trouble code's second character can only be '0': `(a & 0b1100) >> 4`
  (`obd2/mod.rs:231`).
* Numbers of 17 to 24 bits are never decoded (`service.rs:212`), UTF-16 texts panic
  (`service.rs:81`), a table's range matches single values only, and `Raf` accepts a
  read that ends one byte past the data (`raf.rs:84`).
* Every number goes through an `f32` (`service.rs:120`, `129`, `131`, `153` to `156`): one
  above 2^24 is compared, printed and plotted rounded to 24 bits.
* A UDS variant begins with the low byte of the identifier asked for
  (`uds/read_data.rs:8`), before three bytes of the record, and is compared as it is with
  the vendor numbers of the file's patterns (`json_session.rs:223`).
* A row pressed on the view drawn before codes were cleared, or fewer were read, indexes a
  list that no longer has it and panics (`json_session.rs:894`).

The properties name the exceptions among these that they meet (widths, UTF-16, tables,
`Raf`, `f32`, the variant's highest byte, outdated presses), and allow no others.

## 9. Not modelled, and why

* *Only read*: the converter's communication parameters, connections, names and orders
  of its output, and the formulas of single PIDs change no state; the battery poll
  only reads.
* *Only pass on*: the payload, clear-codes and security-access buttons call the server
  (`DiagServer`) with a text. The OBD server's page-and-thread channels are
  `DiagServer`'s.
* *No behaviour*: tables (`obd2/codes.rs`), themes, widgets, images, layout and
  logging, the D-PDU and custom-session stubs, parts no window uses (the VIN parser,
  KWP2000 fingerprints, VINs and calibration ids, OBD services 03 and 04).
* *External*: vendor drivers behind `passthru.rs`, the operating system's CAN
  sockets, serial port and scheduler, ECUs and the bus. They appear in the models as
  far as the code relies on them.
* *Abstracted away*: the bytes of frames and lines, malformed lines and frames
  (`parse_line` ignores them, `receive_iso_tp_frame` ends with errors 17 to 19),
  replies too short to hold a service byte or a negative code on KWP2000 and UDS
  (`ObdServer` has them), service bytes above 0xBF (`cmd + 0x40`), separation times,
  baud rates, and durations: a timeout may happen whenever it could.
* *Assembling of the output*: `decode_ecu` takes the first output of each of a trouble
  code's environments (`main.rs:165`) and panics on an environment without one; the models
  link environments (`CbfLinks`) and format single preparations (`CbfFormats`).
* *Vendored code and vehicle data*: `app_rust/vendor`, `EGS52.json`, `SLF211.json`.

## 10. Plan

Done: the path from a command of the UI to frames on the bus for both protocols, all
three adapters, the hand-over between sessions, every page, the scanner, OBD-II, and
the decoding of vendor files and answers.

Left: a SLCAN call over several frames under one lock, instead of one call per frame;
and the parts listed as partly modelled in `PROJECT.json`.
