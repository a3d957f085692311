------------------------------ MODULE PassthruApi ------------------------------
(***************************************************************************)
(* The Passthru (J2534) adapter as its clones use it (struct PassthruApi). *)
(*                                                                         *)
(* Every thread has a clone: the UI thread, which makes any call, and the  *)
(* diagnostic servers, which exchange ISO-TP data and close the interface. *)
(* All clones share one driver behind a Mutex and, behind an RwLock each,  *)
(* the numbers of the CAN and of the ISO-TP channel.  A call holds some of *)
(* these locks while it waits for another one; a driver call is one step,  *)
(* taken by whoever finds the Mutex free.                                  *)
(* A guard made in an expression lives to the end of the statement, so in  *)
(* most calls the driver is still locked when map_err runs convert_error,  *)
(* which for ERR_FAILED locks it again: that thread waits for itself.      *)
(***************************************************************************)
EXTENDS Naturals, FiniteSets

CONSTANTS
  Threads, Ui,  \* the clones' owners; the UI thread, the others being servers
  MaxChannels,  \* bound: channel numbers the driver has to give
  NoOne         \* "no thread", "no channel"

ASSUME PassthruAssumption ==
  /\ MaxChannels \in Nat \ {0} /\ Ui \in Threads
  /\ NoOne \notin Threads /\ NoOne \notin 1..MaxChannels

Kinds == {"can", "iso15765"}
Ids == 1..MaxChannels
Other(k) == IF k = "can" THEN "iso15765" ELSE "can"

VARIABLES
  channel_idx,    \* per kind: the number recorded, or NoOne
  writer,         \* per kind: who holds the number's write lock
  readers,        \* per kind: who holds its read lock across a driver call
  driver,         \* who holds the driver's Mutex between two steps
  connected,      \* the driver's side: the channels there are, with their kind
  device_open,
  thread          \* per thread: its place, its call, the number it has read

vars == <<channel_idx, writer, readers, driver, connected, device_open, thread>>
-----------------------------------------------------------------------------
Calls ==
  [op : {"open", "close", "transfer", "receive", "filter", "clear"}, kind : Kinds]
    \cup [op : {"close_device", "voltage", "version"}, kind : {"can"}]

\* What Interface and the server loops call (send_recv_data, close).
ServerCalls == [op : {"transfer", "receive", "clear", "close"}, kind : {"iso15765"}]

Idle == [pc |-> "idle", op |-> "none", kind |-> "can", id |-> NoOne]

Init ==
  /\ channel_idx = [k \in Kinds |-> NoOne]
  /\ writer = [k \in Kinds |-> NoOne] /\ readers = [k \in Kinds |-> {}]
  /\ driver = NoOne
  /\ connected = <<>> /\ device_open = TRUE     \* the launcher opened the device
  /\ thread = [t \in Threads |-> Idle]

At(t, place) == thread[t].pc = place
Op(t) == thread[t].op
Kind(t) == thread[t].kind
Go(t, place) == thread' = [thread EXCEPT ![t].pc = place]
GoWith(t, place, n) == thread' = [thread EXCEPT ![t].pc = place, ![t].id = n]
Connected(n) == n \in DOMAIN connected

MayRead(k) == writer[k] = NoOne
MayWrite(k) == writer[k] = NoOne /\ readers[k] = {}

Unlock(t) ==
  /\ writer' = [k \in Kinds |-> IF writer[k] = t THEN NoOne ELSE writer[k]]
  /\ readers' = [k \in Kinds |-> readers[k] \ {t}]

\* The call returns: every guard is dropped.
Return(t) == thread' = [thread EXCEPT ![t] = Idle] /\ Unlock(t)
-----------------------------------------------------------------------------
\* A call of the ComServer trait.  The device is closed last, by MainWindow's
\* Drop; the handles of the other threads may outlive it.
Call(t) ==
  /\ At(t, "idle")
  /\ \E c \in IF t = Ui THEN Calls ELSE ServerCalls :
       thread' = [thread EXCEPT ![t] =
         [pc |-> CASE c.op = "close" -> "lock"
                   [] c.op \in {"close_device", "voltage", "version"} -> "driver"
                   [] OTHER -> "read",
          op |-> c.op, kind |-> c.kind, id |-> NoOne]]
  /\ UNCHANGED <<channel_idx, writer, readers, driver, connected, device_open>>

\* Faults: no guard is kept; or the guard of open's test is (an if let).
KeepsGuard_Never(t, n) == FALSE
KeepsGuard_InOpen(t, n) == Op(t) \in {"open", "filter", "clear"} /\ n # NoOne

\* Filters and clearing keep the number locked while they use the channel.
KeepsGuard(t, n) == Op(t) \in {"filter", "clear"} /\ n # NoOne

\* The number is read.  Without a channel the call returns; open closes a
\* channel that is there, with the lock given up in between.
ReadIndex(t) ==
  /\ At(t, "read") /\ MayRead(Kind(t))
  /\ LET n == channel_idx[Kind(t)] IN
       /\ CASE Op(t) = "open" -> GoWith(t, IF n # NoOne THEN "lock" ELSE "driver", NoOne)
            [] Op(t) # "open" /\ n = NoOne -> thread' = [thread EXCEPT ![t] = Idle]
            [] OTHER -> GoWith(t, "driver", n)
       /\ readers' = IF KeepsGuard(t, n)
                     THEN [readers EXCEPT ![Kind(t)] = @ \cup {t}] ELSE readers
  /\ UNCHANGED <<channel_idx, writer, driver, connected, device_open>>

\* close_*_interface: the write lock is held until the call returns.
LockIndex(t) ==
  /\ At(t, "lock") /\ MayWrite(Kind(t))
  /\ LET n == channel_idx[Kind(t)] IN
       /\ CASE n # NoOne -> GoWith(t, "disconnect", n)
            [] n = NoOne /\ Op(t) = "open" -> Go(t, "driver")
            [] OTHER -> thread' = [thread EXCEPT ![t] = Idle]
       /\ writer' = IF n # NoOne THEN [writer EXCEPT ![Kind(t)] = t] ELSE writer
  /\ UNCHANGED <<channel_idx, readers, driver, connected, device_open>>

\* The channel is closed: close returns, open goes on with its lock given up.
AfterClose(t) ==
  IF Op(t) = "open" THEN GoWith(t, "driver", NoOne)
                    ELSE thread' = [thread EXCEPT ![t] = Idle]

\* Fault: the write guard is dropped before the number is cleared.
Disconnect_ClearsLater(t) ==
  /\ At(t, "disconnect") /\ driver = NoOne
  /\ connected' = [n \in DOMAIN connected \ {thread[t].id} |-> connected[n]]
  /\ AfterClose(t) /\ Unlock(t)
  /\ UNCHANGED <<channel_idx, driver, device_open>>

Disconnect(t) ==
  /\ At(t, "disconnect") /\ driver = NoOne
  /\ \/ /\ Connected(thread[t].id)
        /\ connected' = [n \in DOMAIN connected \ {thread[t].id} |-> connected[n]]
        /\ channel_idx' = [channel_idx EXCEPT ![Kind(t)] = NoOne]
        /\ AfterClose(t)
     \/ thread' = [thread EXCEPT ![t] = Idle]                   \* an error
          /\ UNCHANGED <<connected, channel_idx>>
  /\ Unlock(t)
  /\ UNCHANGED <<driver, device_open>>

\* PassthruDrv::connect, which hands out a number nothing is connected under.
Connect(t) ==
  /\ At(t, "driver") /\ Op(t) = "open" /\ driver = NoOne
  /\ \/ /\ device_open
        /\ \E n \in Ids \ DOMAIN connected :
             /\ connected' = [m \in DOMAIN connected \cup {n} |->
                                IF m = n THEN Kind(t) ELSE connected[m]]
             /\ GoWith(t, "record", n)
     \/ thread' = [thread EXCEPT ![t] = Idle] /\ UNCHANGED connected   \* an error
  /\ UNCHANGED <<channel_idx, writer, readers, driver, device_open>>

Record(t) ==
  /\ At(t, "record") /\ MayWrite(Kind(t))
  /\ channel_idx' = [channel_idx EXCEPT ![Kind(t)] = thread[t].id]
  /\ Go(t, "forget")
  /\ UNCHANGED <<writer, readers, driver, connected, device_open>>

\* Fault: the other number is left for its own close to forget.
ForgetOther_Never(t) ==
  /\ At(t, "forget") /\ MayWrite(Other(Kind(t)))
  /\ Return(t)
  /\ UNCHANGED <<channel_idx, driver, connected, device_open>>

ForgetOther(t) ==
  /\ At(t, "forget") /\ MayWrite(Other(Kind(t)))
  /\ channel_idx' = [channel_idx EXCEPT ![Other(Kind(t))] = NoOne]
  /\ Return(t)
  /\ UNCHANGED <<driver, connected, device_open>>

\* Reading, writing, parameters, filters, clearing, the battery's voltage, the
\* version; any result but ERR_FAILED, which only the version takes as well.
\* (The ISO-TP read repeats this until its time is up.)
Use(t) ==
  /\ At(t, "driver") /\ driver = NoOne
  /\ Op(t) \in {"transfer", "receive", "filter", "clear", "voltage", "version"}
  /\ Return(t)
  /\ UNCHANGED <<channel_idx, driver, connected, device_open>>

CloseDevice(t) ==
  /\ At(t, "driver") /\ Op(t) = "close_device" /\ driver = NoOne
  /\ \/ device_open' = FALSE /\ connected' = <<>>
     \/ UNCHANGED <<device_open, connected>>                    \* an error
  /\ Return(t)
  /\ UNCHANGED <<channel_idx, driver>>

\* convert_error runs with the driver's guard dropped: the ISO-TP read binds
\* the result first, and a match arm ends the guard's life for clearing.
DropsGuard(t) == Op(t) = "clear" \/ (Op(t) = "receive" /\ Kind(t) = "iso15765")

\* ERR_FAILED from any driver call.
Failed(t) ==
  /\ thread[t].pc \in {"driver", "disconnect"} /\ Op(t) # "version" /\ driver = NoOne
  /\ IF DropsGuard(t) THEN Go(t, "describe") /\ UNCHANGED driver
                      ELSE Go(t, "stuck") /\ driver' = t
  /\ UNCHANGED <<channel_idx, writer, readers, connected, device_open>>

\* convert_error asks the driver for its last error.
Describe(t) ==
  /\ At(t, "describe") /\ driver = NoOne
  /\ Return(t)
  /\ UNCHANGED <<channel_idx, driver, connected, device_open>>
-----------------------------------------------------------------------------
Proceed(t) ==
  \/ ReadIndex(t) \/ LockIndex(t) \/ Disconnect(t) \/ Connect(t) \/ Record(t)
  \/ ForgetOther(t) \/ Use(t) \/ CloseDevice(t) \/ Describe(t)

Next == \E t \in Threads : Call(t) \/ Proceed(t) \/ Failed(t)

Spec == Init /\ [][Next]_vars

(* The scheduler runs every thread that can go on, and no lock is refused  *)
(* to a waiting thread for ever; callers and driver failures are free.     *)
FairSpec == Spec /\ \A t \in Threads : SF_vars(Proceed(t))
-----------------------------------------------------------------------------
TypeOK ==
  /\ channel_idx \in [Kinds -> Ids \cup {NoOne}]
  /\ writer \in [Kinds -> Threads \cup {NoOne}] /\ readers \in [Kinds -> SUBSET Threads]
  /\ driver \in Threads \cup {NoOne}
  /\ DOMAIN connected \subseteq Ids /\ \A n \in DOMAIN connected : connected[n] \in Kinds
  /\ device_open \in BOOLEAN
  /\ thread \in [Threads ->
       [pc : {"idle", "read", "lock", "disconnect", "driver", "record", "forget",
              "describe", "stuck"},
        op : {"none", "open", "close", "transfer", "receive", "filter", "clear",
              "close_device", "voltage", "version"},
        kind : Kinds, id : Ids \cup {NoOne}]]

(* "Physically impossible to have both CAN and ISOTP enabled at the same   *)
(* time": however the opens and closes of the clones interleave, both      *)
(* numbers are recorded only while an open is about to forget one.         *)
NotBothAtRest ==
  (\A k \in Kinds : channel_idx[k] # NoOne) => \E t \in Threads : At(t, "forget")

(* A recorded number is that of a connected channel of its kind, although  *)
(* numbers are copied, channels closed by other clones, and numbers reused.*)
RecordedIsConnected ==
  device_open =>
    \A k \in Kinds : channel_idx[k] # NoOne =>
      Connected(channel_idx[k]) /\ connected[channel_idx[k]] = k

(* Calls that keep the number locked (filters, clearing) reach the driver  *)
(* with the channel that is recorded, never one closed or given anew.      *)
GuardedUseIsLive ==
  \A t \in Threads :
    At(t, "driver") /\ Op(t) \in {"filter", "clear"} =>
      thread[t].id # NoOne /\ channel_idx[Kind(t)] = thread[t].id

(* The two numbers recorded are the driver's own channels, one at a time,  *)
(* also for those that use them under lock.                                *)
ChannelsTracked == NotBothAtRest /\ RecordedIsConnected /\ GuardedUseIsLive

(* Every call returns, or the driver is held for ever by a thread whose    *)
(* ERR_FAILED made it wait for itself: the order of the locks is sound.    *)
CallsReturn ==
  \A t \in Threads : ~At(t, "idle") ~> (At(t, "idle") \/ driver # NoOne)
=============================================================================
