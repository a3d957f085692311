----------------------------- MODULE LauncherProofs -----------------------------
(***************************************************************************)
(* The launcher and the Passthru and SocketCAN adapters, for any number of *)
(* clones, channels, filters and devices: the channel numbers the Passthru *)
(* adapter records are connected ones of their kind, and a page alone on a *)
(* SocketCAN socket reads through the filters of its table.                *)
(***************************************************************************)
EXTENDS Launcher, TLAPS

(* The record each thread of the Passthru adapter has of itself.           *)
Pcs == {"idle", "read", "lock", "disconnect", "driver", "record", "forget", "describe", "stuck"}
Ops == {"none", "open", "close", "transfer", "receive", "filter", "clear",
        "close_device", "voltage", "version"}
Places == [pc : Pcs, op : Ops, kind : Kinds, id : Ids \cup {NoOne}]

(* Only the UI thread opens, so one number at most is about to be recorded.*)
UiOpens == \A t \in Threads : Op(t) = "open" \/ thread[t].pc \in {"record", "forget"} => t = Ui

(* A number locked for writing is not locked for reading.                  *)
Exclusive == \A k \in Kinds : writer[k] # NoOne => readers[k] = {}

(* A thread that closes a channel has its number locked for itself.        *)
Closing ==
  \A t \in Threads : At(t, "disconnect") =>
    /\ writer[Kind(t)] = t /\ thread[t].id # NoOne
    /\ channel_idx[Kind(t)] = thread[t].id

(* A thread that sets a filter, or clears, has the number locked.          *)
Using ==
  \A t \in Threads : At(t, "driver") /\ Op(t) \in {"filter", "clear"} =>
    /\ t \in readers[Kind(t)] /\ thread[t].id # NoOne
    /\ channel_idx[Kind(t)] = thread[t].id

(* The channel about to be recorded is there, under a number of its own.   *)
Recording ==
  device_open =>
    \A t \in Threads : At(t, "record") =>
      /\ Connected(thread[t].id) /\ connected[thread[t].id] = Kind(t)
      /\ \A k \in Kinds : channel_idx[k] # thread[t].id

IInv ==
  /\ TypeOK /\ UiOpens /\ Exclusive /\ Closing /\ Using /\ Recording
  /\ RecordedIsConnected /\ NotBothAtRest
-----------------------------------------------------------------------------
(* A thread that goes on, or returns, keeps its record's type.             *)
LEMMA ThreadType ==
  ASSUME TypeOK, NEW t \in Threads, NEW p \in Pcs, NEW n \in Ids \cup {NoOne}
  PROVE  /\ Go(t, p) => thread' \in [Threads -> Places]
         /\ GoWith(t, p, n) => thread' \in [Threads -> Places]
         /\ thread' = [thread EXCEPT ![t] = Idle] => thread' \in [Threads -> Places]
<1>1. thread \in [Threads -> Places] /\ Idle \in Places
  BY DEF TypeOK, Places, Pcs, Ops, Idle, Kinds
<1>2. [thread[t] EXCEPT !.pc = p] \in Places /\ [thread[t] EXCEPT !.pc = p, !.id = n] \in Places
  BY <1>1 DEF Places
<1>3. Go(t, p) => thread' = [thread EXCEPT ![t] = [thread[t] EXCEPT !.pc = p]]
  BY DEF Go
<1>4. GoWith(t, p, n) => thread' = [thread EXCEPT ![t] = [thread[t] EXCEPT !.pc = p, !.id = n]]
  BY DEF GoWith
<1> QED
  BY <1>1, <1>2, <1>3, <1>4

(* What going on does to a thread's own record.                            *)
LEMMA GoesTo ==
  ASSUME TypeOK, NEW t \in Threads, NEW p \in Pcs, NEW n \in Ids \cup {NoOne}
  PROVE  /\ Go(t, p) => /\ thread'[t].pc = p /\ thread'[t].id = thread[t].id
                        /\ Op(t)' = Op(t) /\ Kind(t)' = Kind(t)
         /\ GoWith(t, p, n) => /\ thread'[t].pc = p /\ thread'[t].id = n
                               /\ Op(t)' = Op(t) /\ Kind(t)' = Kind(t)
<1>1. thread \in [Threads -> Places]
  BY DEF TypeOK, Places, Pcs, Ops
<1>2. Go(t, p) => thread'[t] = [thread[t] EXCEPT !.pc = p]
  BY <1>1 DEF Go
<1>3. GoWith(t, p, n) => thread'[t] = [thread[t] EXCEPT !.pc = p, !.id = n]
  BY <1>1 DEF GoWith
<1>4. thread[t] \in Places
  BY <1>1
<1> QED
  BY <1>2, <1>3, <1>4 DEF Places, Op, Kind

(* Unlocking keeps the locks' types.                                       *)
LEMMA UnlockType ==
  ASSUME TypeOK, NEW t \in Threads, Unlock(t)
  PROVE  writer' \in [Kinds -> Threads \cup {NoOne}] /\ readers' \in [Kinds -> SUBSET Threads]
BY DEF TypeOK, Unlock

(* What a thread's record holds, one part at a time.                       *)
LEMMA ThreadParts ==
  ASSUME TypeOK, NEW t \in Threads
  PROVE  /\ thread[t].id \in Ids \cup {NoOne} /\ Op(t) \in Ops
         /\ Kind(t) \in Kinds /\ Other(Kind(t)) \in Kinds /\ Kind(t) # Other(Kind(t))
         /\ channel_idx[Kind(t)] \in Ids \cup {NoOne}
BY DEF TypeOK, Op, Kind, Other, Kinds, Ops

LEMMA TypeStep == TypeOK /\ [Next]_vars => TypeOK'
<1> SUFFICES ASSUME TypeOK, Next PROVE TypeOK'
  BY DEF vars, TypeOK
<1> PICK t \in Threads : Call(t) \/ Proceed(t) \/ Failed(t)
  BY DEF Next
<1> DEFINE Threaded == thread' \in [Threads -> Places]
           Locked == writer' \in [Kinds -> Threads \cup {NoOne}] /\ readers' \in [Kinds -> SUBSET Threads]
           Numbered == channel_idx' \in [Kinds -> Ids \cup {NoOne}]
           Driven == /\ driver' \in Threads \cup {NoOne} /\ device_open' \in BOOLEAN
                     /\ DOMAIN connected' \subseteq Ids
                     /\ \A n \in DOMAIN connected' : connected'[n] \in Kinds
<1>0. /\ UNCHANGED <<writer, readers>> => Locked
      /\ UNCHANGED channel_idx => Numbered
      /\ UNCHANGED <<driver, connected, device_open>> => Driven
  BY DEF TypeOK
<1>1. Threaded /\ Locked /\ Numbered /\ Driven => TypeOK'
  BY DEF TypeOK, Places, Pcs, Ops
<1>2. CASE Call(t)
  <2>1. PICK c \in Calls \cup ServerCalls :
          thread' = [thread EXCEPT ![t] =
            [pc |-> CASE c.op = "close" -> "lock"
                      [] c.op \in {"close_device", "voltage", "version"} -> "driver"
                      [] OTHER -> "read",
             op |-> c.op, kind |-> c.kind, id |-> NoOne]]
    BY <1>2 DEF Call
  <2>2. c.op \in Ops /\ c.kind \in Kinds
    BY <2>1 DEF Calls, ServerCalls, Ops, Kinds
  <2>3. Threaded
    BY <2>1, <2>2 DEF TypeOK, Places, Pcs, Ops
  <2> QED
    BY <1>0, <1>1, <1>2, <2>3 DEF Call
<1>3. CASE ReadIndex(t)
  <2>1. Threaded
    BY <1>3, ThreadType, ThreadParts DEF ReadIndex, Pcs
  <2>2. Locked
    BY <1>3 DEF ReadIndex, TypeOK
  <2> QED
    BY <1>0, <1>1, <1>3, <2>1, <2>2 DEF ReadIndex
<1>4. CASE LockIndex(t)
  <2>1. Threaded
    BY <1>4, ThreadType, ThreadParts DEF LockIndex, Pcs
  <2>2. Locked
    BY <1>4 DEF LockIndex, TypeOK
  <2> QED
    BY <1>0, <1>1, <1>4, <2>1, <2>2 DEF LockIndex
<1>5. CASE Disconnect(t)
  <2>1. Threaded
    BY <1>5, ThreadType DEF Disconnect, AfterClose, Pcs
  <2>2. Numbered /\ Driven
    BY <1>5 DEF Disconnect, TypeOK
  <2> QED
    BY <1>1, <1>5, <2>1, <2>2, UnlockType DEF Disconnect
<1>6. CASE Connect(t)
  <2>1. Threaded
    BY <1>6, ThreadType DEF Connect, Pcs
  <2>2. Driven
    BY <1>6, ThreadParts DEF Connect, TypeOK
  <2> QED
    BY <1>0, <1>1, <1>6, <2>1, <2>2 DEF Connect
<1>7. CASE Record(t)
  <2>1. Threaded
    BY <1>7, ThreadType DEF Record, Pcs
  <2>2. Numbered
    BY <1>7, ThreadParts DEF Record, TypeOK
  <2> QED
    BY <1>0, <1>1, <1>7, <2>1, <2>2 DEF Record
<1>8. ASSUME Return(t), Numbered, Driven PROVE TypeOK'
  BY <1>1, <1>8, ThreadType, UnlockType DEF Return, Pcs
<1>9. CASE ForgetOther(t)
  <2>1. Numbered
    BY <1>9 DEF ForgetOther, TypeOK
  <2> QED
    BY <1>0, <1>8, <1>9, <2>1 DEF ForgetOther
<1>10. CASE Use(t) \/ Describe(t)
  BY <1>0, <1>8, <1>10 DEF Use, Describe
<1>11. CASE CloseDevice(t)
  <2>1. ASSUME connected' = <<>>, device_open' = FALSE PROVE Driven
    <3>1. DOMAIN connected' = {}
      BY <2>1
    <3> QED
      BY <1>11, <2>1, <3>1 DEF CloseDevice, TypeOK
  <2>2. Driven
    BY <1>0, <1>11, <2>1 DEF CloseDevice
  <2> QED
    BY <1>0, <1>8, <1>11, <2>2 DEF CloseDevice
<1>12. CASE Failed(t)
  <2>1. Threaded
    BY <1>12, ThreadType DEF Failed, Pcs
  <2>2. Driven
    BY <1>12 DEF Failed, TypeOK
  <2> QED
    BY <1>0, <1>1, <1>12, <2>1, <2>2 DEF Failed
<1> QED
  BY <1>2, <1>3, <1>4, <1>5, <1>6, <1>7, <1>9, <1>10, <1>11, <1>12 DEF Proceed
-----------------------------------------------------------------------------
LEMMA InitIInv == Init => IInv
BY PassthruAssumption
   DEF Init, IInv, TypeOK, UiOpens, Exclusive, Closing, Using, Recording, Idle, At, Op, Kind,
       Kinds, RecordedIsConnected, NotBothAtRest

(* A step of one thread leaves the others' records alone.                  *)
LEMMA OthersStay ==
  ASSUME TypeOK, NEW t \in Threads, Call(t) \/ Proceed(t) \/ Failed(t),
         NEW u \in Threads, u # t
  PROVE  thread'[u] = thread[u]
BY DEF TypeOK, Call, Proceed, Failed, ReadIndex, LockIndex, Disconnect, AfterClose, Connect,
       Record, ForgetOther, Use, CloseDevice, Describe, Return, Go, GoWith

LEMMA UiOpensStep ==
  ASSUME IInv, NEW t \in Threads, Call(t) \/ Proceed(t) \/ Failed(t)
  PROVE  UiOpens'
<1>1. t = Ui \/ (Op(t) # "open" /\ thread[t].pc \notin {"record", "forget"})
  BY DEF IInv, UiOpens
<1>2. CASE t = Ui
  BY <1>2, OthersStay DEF IInv, UiOpens, Op
<1>3. CASE t # Ui /\ Op(t) # "open" /\ thread[t].pc \notin {"record", "forget"}
  <2>1. Op(t)' # "open" /\ thread'[t].pc \notin {"record", "forget"}
    BY <1>3 DEF IInv, TypeOK, Call, ServerCalls, Proceed, Failed, ReadIndex, LockIndex,
                Disconnect, AfterClose, Connect, Record, ForgetOther, Use, CloseDevice,
                Describe, Return, Go, GoWith, Idle, Op, At
  <2> QED
    BY <2>1, OthersStay DEF IInv, UiOpens, Op
<1> QED
  BY <1>1, <1>2, <1>3

(* A number is locked for writing only while nobody reads it.              *)
LEMMA ExclusiveStep ==
  ASSUME IInv, NEW t \in Threads, Call(t) \/ Proceed(t) \/ Failed(t)
  PROVE  Exclusive'
<1>1. Kind(t) \in Kinds
  BY ThreadParts DEF IInv
<1>2. CASE Unlock(t)
  BY <1>2 DEF IInv, TypeOK, Exclusive, Unlock
<1>3. CASE UNCHANGED <<writer, readers>>
  BY <1>3 DEF IInv, Exclusive
<1>4. CASE ReadIndex(t)
  BY <1>1, <1>4 DEF IInv, TypeOK, Exclusive, ReadIndex, MayRead
<1>5. CASE LockIndex(t)
  BY <1>1, <1>5 DEF IInv, TypeOK, Exclusive, LockIndex, MayWrite
<1> QED
  BY <1>2, <1>3, <1>4, <1>5
     DEF Call, Proceed, Failed, Disconnect, Connect, Record, ForgetOther, Use, CloseDevice,
         Describe, Return

(* The locks of a thread that did not take the step are its own still.     *)
LEMMA OthersLocks ==
  ASSUME IInv, NEW t \in Threads, Call(t) \/ Proceed(t) \/ Failed(t),
         NEW u \in Threads, u # t, NEW k \in Kinds
  PROVE  (writer[k] = u => writer'[k] = u) /\ (u \in readers[k] => u \in readers'[k])
<1>1. CASE Unlock(t)
  BY <1>1 DEF IInv, TypeOK, Unlock
<1>2. CASE UNCHANGED <<writer, readers>>
  BY <1>2
<1>3. CASE ReadIndex(t)
  BY <1>3 DEF IInv, TypeOK, ReadIndex
<1>4. CASE LockIndex(t)
  BY <1>4, ThreadParts, PassthruAssumption DEF IInv, TypeOK, LockIndex, MayWrite
<1> QED
  BY <1>1, <1>2, <1>3, <1>4
     DEF Call, Proceed, Failed, Disconnect, Connect, Record, ForgetOther, Use, CloseDevice,
         Describe, Return

(* The number recorded changes only while nobody else has it locked.       *)
LEMMA LockedStays ==
  ASSUME IInv, NEW t \in Threads, Call(t) \/ Proceed(t) \/ Failed(t),
         NEW u \in Threads, u # t, NEW k \in Kinds, writer[k] = u \/ u \in readers[k]
  PROVE  channel_idx'[k] = channel_idx[k]
<1>1. CASE UNCHANGED channel_idx
  BY <1>1
<1>2. CASE Disconnect(t)
  <2>1. writer[Kind(t)] = t
    BY <1>2 DEF IInv, Closing, Disconnect
  <2>2. readers[Kind(t)] = {}
    BY <2>1, ThreadParts, PassthruAssumption DEF IInv, Exclusive
  <2> QED
    BY <1>2, <2>1, <2>2 DEF IInv, TypeOK, Disconnect
<1>3. CASE Record(t)
  BY <1>3, PassthruAssumption DEF IInv, TypeOK, Record, MayWrite
<1>4. CASE ForgetOther(t)
  BY <1>4, PassthruAssumption DEF IInv, TypeOK, ForgetOther, MayWrite
<1> QED
  BY <1>1, <1>2, <1>3, <1>4
     DEF Call, Proceed, Failed, ReadIndex, LockIndex, Connect, Use, CloseDevice, Describe

(* A thread on its way to disconnect, or to use under lock, has just read  *)
(* the number it has locked.                                               *)
LEMMA ClosingUsingStep ==
  ASSUME IInv, NEW t \in Threads, Call(t) \/ Proceed(t) \/ Failed(t)
  PROVE  Closing' /\ Using'
<1> DEFINE Holds(u) ==
      /\ At(u, "disconnect") =>
           /\ writer[Kind(u)] = u /\ thread[u].id # NoOne
           /\ channel_idx[Kind(u)] = thread[u].id
      /\ At(u, "driver") /\ Op(u) \in {"filter", "clear"} =>
           /\ u \in readers[Kind(u)] /\ thread[u].id # NoOne
           /\ channel_idx[Kind(u)] = thread[u].id
<1>1. ASSUME NEW u \in Threads, u # t PROVE Holds(u)'
  <2>1. thread'[u] = thread[u] /\ Kind(u) \in Kinds /\ Holds(u)
    BY <1>1, OthersStay, ThreadParts DEF IInv, Closing, Using
  <2> QED
    BY <1>1, <2>1, OthersLocks, LockedStays DEF At, Op, Kind
<1>2. Holds(t)'
  <2>1. CASE ReadIndex(t)
    BY <2>1, ThreadParts DEF IInv, TypeOK, ReadIndex, KeepsGuard, Go, GoWith, Idle, At, Op, Kind
  <2>2. CASE LockIndex(t)
    <3>1. Kind(t) \in Kinds
      BY ThreadParts DEF IInv
    <3> QED
      BY <2>2, <3>1 DEF IInv, TypeOK, LockIndex, Go, GoWith, Idle, At, Op, Kind
  <2>3. CASE Call(t)
    BY <2>3 DEF IInv, TypeOK, Call, Calls, ServerCalls, At, Op, Kind
  <2>4. CASE thread'[t].pc \notin {"disconnect", "driver"}
    BY <2>4 DEF At
  <2>5. CASE Disconnect(t)
    BY <2>5 DEF IInv, TypeOK, Disconnect, AfterClose, GoWith, Idle, At, Op
  <2>6. CASE Connect(t) \/ Record(t) \/ ForgetOther(t) \/ Use(t) \/ CloseDevice(t)
               \/ Describe(t) \/ Failed(t)
    <3>1. CASE Connect(t)
      <4>1. CASE \E n \in Ids \ DOMAIN connected : GoWith(t, "record", n)
        <5> PICK n \in Ids : GoWith(t, "record", n)
          BY <4>1
        <5> thread'[t].pc = "record"
          BY GoesTo DEF IInv, Pcs
        <5> QED BY <2>4
      <4>2. CASE thread' = [thread EXCEPT ![t] = Idle]
        BY <2>4, <4>2 DEF IInv, TypeOK, Idle
      <4> QED
        BY <3>1, <4>1, <4>2 DEF Connect
    <3>2. CASE Record(t) \/ Failed(t)
      BY <2>4, <3>2, GoesTo DEF IInv, Record, Failed, Pcs
    <3>3. CASE Return(t)
      BY <2>4, <3>3 DEF IInv, TypeOK, Return, Idle
    <3> QED
      BY <2>6, <3>1, <3>2, <3>3 DEF ForgetOther, Use, CloseDevice, Describe
  <2> QED
    BY <2>1, <2>2, <2>3, <2>5, <2>6 DEF Proceed
<1> QED
  BY <1>1, <1>2 DEF Closing, Using

(* Channels and numbers are as they were, unless a step names them, and    *)
(* only connecting and recording lead to where a number is new.            *)
LEMMA QuietStep ==
  ASSUME IInv, NEW t \in Threads, Call(t) \/ Proceed(t) \/ Failed(t),
         ~Connect(t), ~Record(t), ~ForgetOther(t), ~Disconnect(t), ~CloseDevice(t)
  PROVE  /\ UNCHANGED <<channel_idx, connected, device_open>>
         /\ \A u \in Threads : At(u, "record")' => u # t /\ At(u, "record")
         /\ \A u \in Threads : At(u, "forget") => At(u, "forget")'
<1>1. UNCHANGED <<channel_idx, connected, device_open>>
  BY DEF Call, Proceed, Failed, ReadIndex, LockIndex, Use, Describe
<1>2. thread'[t].pc # "record"
  <2>1. CASE Call(t)
    BY <2>1 DEF IInv, TypeOK, Call, Calls, ServerCalls
  <2>2. CASE ReadIndex(t)
    BY <2>2, GoesTo, ThreadParts DEF IInv, TypeOK, ReadIndex, Pcs, Idle
  <2>3. CASE LockIndex(t)
    BY <2>3, GoesTo, ThreadParts DEF IInv, TypeOK, LockIndex, Pcs, Idle
  <2>4. CASE Failed(t)
    BY <2>4, GoesTo DEF IInv, Failed, Pcs
  <2>5. CASE Return(t)
    BY <2>5 DEF IInv, TypeOK, Return, Idle
  <2> QED
    BY <2>1, <2>2, <2>3, <2>4, <2>5 DEF Proceed, Use, Describe
<1>3. thread[t].pc # "forget"
  BY DEF Call, Proceed, Failed, ReadIndex, LockIndex, Use, Describe, At
<1> QED
  BY <1>1, <1>2, <1>3, OthersStay DEF IInv, At

(* The number recorded, or about to be, is that of a connected channel.    *)
LEMMA ConnectedStep ==
  ASSUME IInv, NEW t \in Threads, Call(t) \/ Proceed(t) \/ Failed(t)
  PROVE  Recording' /\ RecordedIsConnected'
<1> USE PassthruAssumption
<1>0. /\ Kind(t) \in Kinds /\ Other(Kind(t)) \in Kinds /\ TypeOK
      /\ \A u \in Threads : At(u, "record") => u = Ui
      /\ Recording /\ RecordedIsConnected
  BY ThreadParts DEF IInv, UiOpens, At
<1>1. CASE Connect(t)
  <2>1. CASE UNCHANGED connected /\ thread' = [thread EXCEPT ![t] = Idle]
    <3>1. \A u \in Threads : At(u, "record")' => At(u, "record") /\ thread'[u] = thread[u]
      BY <2>1 DEF TypeOK, IInv, Idle, At
    <3> QED
      BY <1>0, <1>1, <2>1, <3>1 DEF Connect, Recording, RecordedIsConnected, Connected, Kind
  <2>2. ASSUME NEW n \in Ids \ DOMAIN connected,
               connected' = [m \in DOMAIN connected \cup {n} |->
                               IF m = n THEN Kind(t) ELSE connected[m]],
               GoWith(t, "record", n), device_open
        PROVE  Recording' /\ RecordedIsConnected'
    <3>1. \A k \in Kinds : channel_idx[k] # n
      BY <1>0, <2>2 DEF RecordedIsConnected, Connected, Ids
    <3>2. thread'[t].id = n /\ Kind(t)' = Kind(t)
      BY <1>0, <2>2, GoesTo DEF Pcs
    <3>3. t = Ui
      BY <1>1 DEF Connect, IInv, UiOpens
    <3>4. \A u \in Threads : At(u, "record")' => u = t
      BY <1>0, <3>3, OthersStay DEF IInv, At
    <3>5. UNCHANGED <<channel_idx, device_open>>
      BY <1>1 DEF Connect
    <3>6. Recording'
      BY <1>0, <2>2, <3>1, <3>2, <3>4, <3>5 DEF Recording, Connected
    <3> QED
      BY <1>0, <2>2, <3>1, <3>5, <3>6 DEF RecordedIsConnected, Connected
  <2> QED
    BY <1>1, <2>1, <2>2 DEF Connect
<1>2. CASE Record(t)
  <2>1. \A u \in Threads : ~At(u, "record")'
    BY <1>0, <1>2, GoesTo, OthersStay DEF IInv, UiOpens, Record, At, Pcs
  <2>2. /\ channel_idx' = [channel_idx EXCEPT ![Kind(t)] = thread[t].id]
        /\ UNCHANGED <<connected, device_open>> /\ At(t, "record")
    BY <1>2 DEF Record
  <2>3. RecordedIsConnected'
    BY <1>0, <2>2 DEF RecordedIsConnected, Recording, Connected, TypeOK
  <2> QED
    BY <2>1, <2>3 DEF Recording
<1>3. CASE ForgetOther(t)
  <2>1. /\ channel_idx' = [channel_idx EXCEPT ![Other(Kind(t))] = NoOne]
        /\ UNCHANGED <<connected, device_open>>
        /\ \A u \in Threads : At(u, "record")' => At(u, "record") /\ thread'[u] = thread[u]
    BY <1>0, <1>3 DEF ForgetOther, Return, TypeOK, Idle, At
  <2>2. RecordedIsConnected'
    BY <1>0, <2>1 DEF RecordedIsConnected, Connected, TypeOK
  <2>3. Recording'
    <3> SUFFICES ASSUME device_open, NEW u \in Threads, At(u, "record")'
                 PROVE  /\ Connected(thread[u].id)' /\ connected'[thread'[u].id] = Kind(u)'
                        /\ \A k \in Kinds : channel_idx'[k] # thread'[u].id
      BY <2>1 DEF Recording
    <3>1. /\ Connected(thread[u].id) /\ connected[thread[u].id] = Kind(u)
          /\ \A k \in Kinds : channel_idx[k] # thread[u].id
          /\ thread'[u] = thread[u] /\ thread[u].id # NoOne
      BY <1>0, <2>1 DEF Recording, Connected, TypeOK, Ids
    <3> QED
      BY <1>0, <2>1, <3>1 DEF Connected, Kind, TypeOK
  <2> QED
    BY <2>2, <2>3
<1>4. CASE Disconnect(t)
  <2>1. channel_idx[Kind(t)] = thread[t].id /\ thread[t].id # NoOne
    BY <1>4 DEF IInv, Closing, Disconnect
  <2>2. \A u \in Threads : At(u, "record")' => At(u, "record") /\ thread'[u] = thread[u]
    <3>1. thread'[t].pc # "record"
      BY <1>0, <1>4, GoesTo DEF Disconnect, AfterClose, TypeOK, Idle, Pcs
    <3> QED
      BY <1>0, <3>1, OthersStay DEF At
  <2>3. CASE UNCHANGED <<connected, channel_idx>>
    BY <1>0, <1>4, <2>2, <2>3 DEF Disconnect, Recording, RecordedIsConnected, Connected, Kind
  <2>4. CASE /\ connected' = [n \in DOMAIN connected \ {thread[t].id} |-> connected[n]]
             /\ channel_idx' = [channel_idx EXCEPT ![Kind(t)] = NoOne]
    <3>1. device_open' = device_open
      BY <1>4 DEF Disconnect
    <3>2. RecordedIsConnected'
      BY <1>0, <2>1, <2>4, <3>1 DEF RecordedIsConnected, Connected, TypeOK
    <3>3. Recording'
      <4> SUFFICES ASSUME device_open, NEW u \in Threads, At(u, "record")'
                   PROVE  /\ Connected(thread[u].id)' /\ connected'[thread'[u].id] = Kind(u)'
                          /\ \A k \in Kinds : channel_idx'[k] # thread'[u].id
        BY <3>1 DEF Recording
      <4>1. /\ Connected(thread[u].id) /\ connected[thread[u].id] = Kind(u)
            /\ \A k \in Kinds : channel_idx[k] # thread[u].id
            /\ thread'[u] = thread[u]
        BY <1>0, <2>2 DEF Recording
      <4>2. thread[u].id # NoOne /\ thread[u].id # thread[t].id
        BY <1>0, <2>1, <4>1 DEF Connected, TypeOK, Ids
      <4> QED
        BY <1>0, <2>4, <4>1, <4>2 DEF Connected, Kind, TypeOK
    <3> QED
      BY <3>2, <3>3
  <2> QED
    BY <1>4, <2>3, <2>4 DEF Disconnect
<1>5. CASE CloseDevice(t)
  <2>1. \A u \in Threads : At(u, "record")' => At(u, "record") /\ thread'[u] = thread[u]
    BY <1>0, <1>5 DEF CloseDevice, Return, TypeOK, Idle, At
  <2> QED
    BY <1>0, <1>5, <2>1 DEF CloseDevice, Recording, RecordedIsConnected, Connected, Kind
<1>6. CASE ~Connect(t) /\ ~Record(t) /\ ~ForgetOther(t) /\ ~Disconnect(t) /\ ~CloseDevice(t)
  BY <1>0, <1>6, QuietStep, OthersStay DEF Recording, RecordedIsConnected, Connected, Kind
<1> QED
  BY <1>1, <1>2, <1>3, <1>4, <1>5, <1>6

(* Only forgetting the other number ends the time both may be recorded in. *)
LEMMA AtRestStep ==
  ASSUME IInv, NEW t \in Threads, Call(t) \/ Proceed(t) \/ Failed(t)
  PROVE  NotBothAtRest'
<1>0. Kind(t) \in Kinds /\ Other(Kind(t)) \in Kinds /\ TypeOK /\ NotBothAtRest
  BY ThreadParts DEF IInv
<1>1. CASE Record(t)
  <2>1. At(t, "forget")'
    BY <1>0, <1>1, GoesTo DEF Record, At, Pcs
  <2> QED
    BY <2>1 DEF NotBothAtRest
<1>2. CASE ForgetOther(t)
  <2>1. channel_idx'[Other(Kind(t))] = NoOne
    BY <1>0, <1>2 DEF ForgetOther, TypeOK
  <2> QED
    BY <1>0, <2>1 DEF NotBothAtRest
<1>3. ASSUME UNCHANGED channel_idx, ~At(t, "forget") PROVE NotBothAtRest'
  BY <1>0, <1>3, OthersStay DEF NotBothAtRest, At
<1>4. CASE Disconnect(t)
  <2>1. CASE channel_idx' = [channel_idx EXCEPT ![Kind(t)] = NoOne]
    BY <1>0, <2>1 DEF NotBothAtRest, TypeOK
  <2> QED
    BY <1>3, <1>4, <2>1 DEF Disconnect, At
<1>5. CASE Connect(t) \/ CloseDevice(t)
  BY <1>3, <1>5 DEF Connect, CloseDevice, At
<1>6. CASE ~Connect(t) /\ ~Record(t) /\ ~ForgetOther(t) /\ ~Disconnect(t) /\ ~CloseDevice(t)
  BY <1>0, <1>6, QuietStep DEF NotBothAtRest
<1> QED
  BY <1>1, <1>2, <1>4, <1>5, <1>6

LEMMA PassthruStepIInv == IInv /\ [Next]_vars => IInv'
<1> SUFFICES ASSUME IInv, [Next]_vars PROVE IInv'
  OBVIOUS
<1>1. CASE UNCHANGED vars
  BY <1>1 DEF vars, IInv, TypeOK, UiOpens, Exclusive, Closing, Using, Recording, At, Op, Kind,
              Connected, RecordedIsConnected, NotBothAtRest
<1>2. CASE Next
  <2> PICK t \in Threads : Call(t) \/ Proceed(t) \/ Failed(t)
    BY <1>2 DEF Next
  <2>1. TypeOK'
    BY TypeStep DEF IInv
  <2> QED
    BY <2>1, UiOpensStep, ExclusiveStep, ClosingUsingStep, ConnectedStep, AtRestStep DEF IInv
<1> QED
  BY <1>1, <1>2

LEMMA IInvTracks == IInv => ChannelsTracked
BY DEF IInv, Using, ChannelsTracked, GuardedUseIsLive

(* The Passthru adapter by itself: whatever its clones call, and however   *)
(* their calls interleave, the two numbers recorded are the driver's own   *)
(* channels, one at a time, also for those that use them under lock.       *)
THEOREM ChannelsTrackedHolds == Spec => []ChannelsTracked
<1> QED
  BY InitIInv, PassthruStepIInv, IInvTracks, PTL DEF Spec

(* The same where the program really runs it: launched on that adapter.    *)
THEOREM LaunchedChannelsTracked == LauncherSpec => []ChannelsTracked
<1>1. LauncherInit => IInv
  BY InitIInv DEF LauncherInit
<1>2. IInv /\ [LauncherNext]_allVars => IInv'
  BY PassthruStepIInv DEF LauncherNext, LauncherStep, PassthruStep, SocketCanStep, allVars
<1> QED
  BY <1>1, <1>2, IInvTracks, PTL DEF LauncherSpec
-----------------------------------------------------------------------------
(* SocketCAN.  Without a socket no table has a filter, and the table of the*)
(* page that has just opened one is empty: it forgot its filters, or there *)
(* was no socket to have set one on.                                       *)
TablesFollow ==
  /\ can_socket = Nothing => \A p \in Pages : Wanted(can_filters[p]) = {}
  /\ opening # Nothing /\ opening.socket = "can" => Wanted(can_filters[opening.page]) = {}

SkIInv == SkTypeOK /\ TablesFollow /\ SoleUserFiltersApplied

(* What a table wants are filters; one more, one less, or none.            *)
LEMMA WantedFilters ==
  ASSUME NEW table \in [Slots -> FilterIds \cup {Nothing}]
  PROVE  /\ Wanted(table) \subseteq FilterIds
         /\ \A i \in Slots : Wanted([table EXCEPT ![i] = Nothing]) \subseteq Wanted(table)
         /\ \A i \in Slots, f \in FilterIds : Wanted([table EXCEPT ![i] = f]) # {}
<1>1. ASSUME NEW i \in Slots, NEW f \in FilterIds PROVE Wanted([table EXCEPT ![i] = f]) # {}
  <2>1. [table EXCEPT ![i] = f][i] = f /\ f # Nothing
    BY <1>1, SocketCanAssumption
  <2> QED
    BY <2>1 DEF Wanted
<1>2. ASSUME NEW i \in Slots PROVE Wanted([table EXCEPT ![i] = Nothing]) \subseteq Wanted(table)
  BY <1>2 DEF Wanted
<1> QED
  BY <1>1, <1>2 DEF Wanted

LEMMA NoFiltersWantNothing ==
  NoFilters \in [Slots -> FilterIds \cup {Nothing}] /\ Wanted(NoFilters) = {}
BY DEF Wanted, NoFilters

LEMMA InitSkIInv == SkInit => SkIInv
<1> SUFFICES ASSUME SkInit PROVE SkIInv
  OBVIOUS
<1>0. \A p \in Pages : can_filters[p] = NoFilters
  BY DEF SkInit
<1>1. \A p \in Pages : Wanted(can_filters[p]) = {}
  BY <1>0, NoFiltersWantNothing
<1>2. SkTypeOK
  BY NoFiltersWantNothing DEF SkInit, SkTypeOK
<1> QED
  BY <1>1, <1>2 DEF SkInit, SkIInv, TablesFollow, SoleUserFiltersApplied

LEMMA SkTypeStep ==
  ASSUME SkTypeOK, SkNext
  PROVE  SkTypeOK'
<1> USE NoFiltersWantNothing DEF SkTypeOK
<1>1. ASSUME NEW p \in Pages PROVE ForgetFilters(p) \in [Pages -> [Slots -> FilterIds \cup {Nothing}]]
  BY <1>1 DEF ForgetFilters
<1>2. ASSUME NEW p \in Pages, CloseCan(p) \/ OpenCan(p) \/ OpenIso(p) PROVE SkTypeOK'
  <2>1. can_filters' \in [Pages -> [Slots -> FilterIds \cup {Nothing}]]
    BY <1>1, <1>2 DEF CloseCan, OpenCan, OpenIso
  <2>2. opening' \in [page : Pages, socket : FilterIds \cup {"can"}] \cup {Nothing}
    BY <1>2 DEF CloseCan, OpenCan, OpenIso
  <2>3. isotp_in_use' \in [Pages -> BOOLEAN]
    BY <1>2 DEF CloseCan, OpenCan, OpenIso
  <2> QED
    BY <1>2, <2>1, <2>2, <2>3 DEF CloseCan, OpenCan, OpenIso
<1>3. ASSUME NEW p \in Pages, NEW f \in FilterIds, AddIsoFilter(p, f) PROVE SkTypeOK'
  BY <1>3 DEF AddIsoFilter
<1>4. ASSUME NEW p \in Pages, NEW f \in FilterIds, AddCanFilter(p, f) PROVE SkTypeOK'
  <2> DEFINE added == [can_filters EXCEPT ![p][FirstFree(can_filters[p])] = f]
  <2>0. added \in [Pages -> [Slots -> FilterIds \cup {Nothing}]]
    OBVIOUS
  <2>1. added[p] \in [Slots -> FilterIds \cup {Nothing}] /\ Wanted(added[p]) \subseteq FilterIds
    BY <2>0, WantedFilters
  <2>2. can_socket' \in (SUBSET FilterIds) \cup {Nothing, Everything}
    BY <1>4, <2>1 DEF AddCanFilter, WriteFilters
  <2>3. can_filters' \in [Pages -> [Slots -> FilterIds \cup {Nothing}]]
    BY <1>4, <2>0 DEF AddCanFilter
  <2> QED
    BY <1>4, <2>2, <2>3 DEF AddCanFilter
<1>5. ASSUME NEW p \in Pages, NEW i \in Slots, RemCanFilter(p, i) PROVE SkTypeOK'
  <2> DEFINE left == [can_filters EXCEPT ![p][i] = Nothing]
  <2>1. left \in [Pages -> [Slots -> FilterIds \cup {Nothing}]] /\ Wanted(left[p]) \subseteq FilterIds
    BY <1>5, WantedFilters
  <2>2. can_socket' \in (SUBSET FilterIds) \cup {Nothing, Everything} /\ can_filters' = left
    BY <1>5, <2>1 DEF RemCanFilter, WriteFilters
  <2> QED
    BY <1>5, <2>1, <2>2 DEF RemCanFilter
<1>6. ASSUME NEW h \in Pages \cup Servers, CloseIso(h) \/ BeginReadIso(h) \/ EndReadIso(h)
      PROVE  SkTypeOK'
  BY <1>6 DEF CloseIso, BeginReadIso, EndReadIso
<1>7. CASE StoreCan \/ StoreIso
  <2>1. opening \in [page : Pages, socket : FilterIds \cup {"can"}]
    BY <1>7 DEF StoreCan, StoreIso
  <2> QED
    BY <1>7, <2>1 DEF StoreCan, StoreIso
<1> QED
  BY <1>2, <1>3, <1>4, <1>5, <1>6, <1>7 DEF SkNext

(* Whatever leaves the socket alone, has no user less and no filter more.  *)
LEMMA FewerFilters ==
  ASSUME TablesFollow, SoleUserFiltersApplied, UNCHANGED can_socket, users \subseteq users',
         \A p \in Pages : Wanted(can_filters'[p]) \subseteq Wanted(can_filters[p]),
         opening' # Nothing /\ opening'.socket = "can" => Wanted(can_filters'[opening'.page]) = {}
  PROVE  TablesFollow' /\ SoleUserFiltersApplied'
<1>1. TablesFollow'
  BY DEF TablesFollow, Wanted
<1>2. SoleUserFiltersApplied'
  BY DEF SoleUserFiltersApplied, Wanted
<1> QED
  BY <1>1, <1>2

(* A written table is applied, and the page that wrote it is a user.       *)
LEMMA WrittenTable ==
  ASSUME NEW p \in Pages, NEW table \in [Slots -> FilterIds \cup {Nothing}],
         opening' = Nothing, users' = users \cup {p},
         WriteFilters(table), can_filters'[p] = table
  PROVE  TablesFollow' /\ SoleUserFiltersApplied'
<1>1. can_socket' = Wanted(table) /\ can_socket' \notin {Nothing, Everything}
  BY WantedFilters, SocketCanAssumption DEF WriteFilters
<1>2. \A q \in Pages : users' \subseteq {q} => q = p
  OBVIOUS
<1> QED
  BY <1>1, <1>2 DEF TablesFollow, SoleUserFiltersApplied, Wanted

(* Closing empties the table of the page, whoever holds the socket.        *)
LEMMA ForgottenTable ==
  ASSUME SkTypeOK, TablesFollow, NEW p \in Pages
  PROVE  /\ Wanted(ForgetFilters(p)[p]) = {}
         /\ \A q \in Pages : Wanted(ForgetFilters(p)[q]) \subseteq Wanted(can_filters[q])
BY NoFiltersWantNothing DEF ForgetFilters, SkTypeOK, TablesFollow

LEMMA SkStepIInv == SkIInv /\ [SkNext]_skVars => SkIInv'
<1> SUFFICES ASSUME SkIInv, [SkNext]_skVars PROVE SkIInv'
  OBVIOUS
<1> USE DEF SkIInv
<1>1. CASE UNCHANGED skVars
  <2>1. SkTypeOK'
    BY <1>1 DEF skVars, SkTypeOK
  <2>2. TablesFollow' /\ SoleUserFiltersApplied'
    BY <1>1, FewerFilters DEF skVars, TablesFollow
  <2> QED
    BY <2>1, <2>2
<1>2. CASE SkNext
  <2>0. SkTypeOK'
    BY <1>2, SkTypeStep
  <2>1. ASSUME NEW p \in Pages, CloseCan(p) \/ OpenCan(p) \/ OpenIso(p)
        PROVE  TablesFollow' /\ SoleUserFiltersApplied'
    <3>1. /\ can_filters' = ForgetFilters(p) /\ can_socket' = can_socket /\ users' = users
          /\ opening' = Nothing \/ opening'.page = p
      BY <2>1 DEF CloseCan, OpenCan, OpenIso, UiFree
    <3> QED
      BY <3>1, ForgottenTable, FewerFilters
  <2>2. ASSUME NEW p \in Pages, NEW f \in FilterIds, AddIsoFilter(p, f)
        PROVE  TablesFollow' /\ SoleUserFiltersApplied'
    <3>1. opening' # Nothing => opening'.socket = f
      BY <2>2 DEF AddIsoFilter
    <3> QED
      BY <2>2, <3>1, FewerFilters, SocketCanAssumption DEF AddIsoFilter
  <2>3. ASSUME NEW p \in Pages, NEW f \in FilterIds, AddCanFilter(p, f)
        PROVE  TablesFollow' /\ SoleUserFiltersApplied'
    <3> DEFINE added == [can_filters EXCEPT ![p][FirstFree(can_filters[p])] = f]
    <3>1. added[p] \in [Slots -> FilterIds \cup {Nothing}]
      BY DEF SkTypeOK
    <3>2. opening' = Nothing /\ users' = users \cup {p}
      BY <2>3 DEF AddCanFilter, UiFree
    <3>3. CASE WriteFilters(added[p]) /\ can_filters' = added
      BY <3>1, <3>2, <3>3, WrittenTable
    <3>4. CASE UNCHANGED <<can_socket, can_filters>>
      BY <3>2, <3>4, FewerFilters
    <3> QED
      BY <2>3, <3>3, <3>4 DEF AddCanFilter
  <2>4. ASSUME NEW p \in Pages, NEW i \in Slots, RemCanFilter(p, i)
        PROVE  TablesFollow' /\ SoleUserFiltersApplied'
    <3> DEFINE left == [can_filters EXCEPT ![p][i] = Nothing]
    <3>1. can_filters[p] \in [Slots -> FilterIds \cup {Nothing}]
          /\ left[p] \in [Slots -> FilterIds \cup {Nothing}]
          /\ left[p] = [can_filters[p] EXCEPT ![i] = Nothing]
      BY DEF SkTypeOK
    <3>2. opening' = Nothing /\ users' = users \cup {p} /\ can_filters' = left
      BY <2>4 DEF RemCanFilter, UiFree
    <3>3. CASE WriteFilters(left[p])
      BY <3>1, <3>2, <3>3, WrittenTable
    <3>4. CASE UNCHANGED can_socket
      <4>1. Wanted(left[p]) \subseteq Wanted(can_filters[p])
        BY <3>1, WantedFilters
      <4>2. \A q \in Pages : q # p => left[q] = can_filters[q]
        BY DEF SkTypeOK
      <4> QED
        BY <3>2, <3>4, <4>1, <4>2, FewerFilters
    <3> QED
      BY <2>4, <3>3, <3>4 DEF RemCanFilter
  <2>5. ASSUME NEW h \in Pages \cup Servers, CloseIso(h) \/ BeginReadIso(h) \/ EndReadIso(h)
        PROVE  TablesFollow' /\ SoleUserFiltersApplied'
    BY <2>5 DEF CloseIso, BeginReadIso, EndReadIso, TablesFollow, SoleUserFiltersApplied
  <2>6. CASE StoreCan
    BY <2>0, <2>6, SocketCanAssumption DEF StoreCan, TablesFollow, SoleUserFiltersApplied
  <2>7. CASE StoreIso
    BY <2>0, <2>7 DEF StoreIso, TablesFollow, SoleUserFiltersApplied
  <2> QED
    BY <1>2, <2>0, <2>1, <2>2, <2>3, <2>4, <2>5, <2>6, <2>7 DEF SkNext
<1> QED
  BY <1>1, <1>2

(* SocketCAN, for any number of pages, servers, filters and slots: the page*)
(* that alone uses the socket has every filter of its table applied.       *)
THEOREM SoleUserFiltersHold == LauncherSpec => []SoleUserFiltersApplied
<1>1. LauncherInit => SkIInv
  BY InitSkIInv DEF LauncherInit
<1>2. SkIInv /\ [LauncherNext]_allVars => SkIInv'
  BY SkStepIInv DEF LauncherNext, LauncherStep, PassthruStep, SocketCanStep, allVars
<1>3. SkIInv => SoleUserFiltersApplied
  BY DEF SkIInv
<1> QED
  BY <1>1, <1>2, <1>3, PTL DEF LauncherSpec
-----------------------------------------------------------------------------
(* The launcher page: the adapter started on is one its platform offers,   *)
(* and every device selected one that the search of its API has found.     *)
AllApis == {"dpdu", "passthru", "slcan", "socketcan"}

PageKeepsApis ==
  /\ offered \in {Apis("windows"), Apis("linux"), {}}
  /\ app.on = "launcher" => api_selection \in offered
  /\ selected = [api \in AllApis |-> selected[api]]
  /\ \A api \in AllApis : selected[api] \in Devices(api) \cup {Nothing}
  /\ app.on \in {"passthru", "slcan", "socketcan", "launcher", "stuck"}

LEMMA InitPageKeepsApis == LauncherInit => PageKeepsApis
<1> SUFFICES ASSUME LauncherInit PROVE PageKeepsApis
  OBVIOUS
<1>1. \A api \in AllApis : FirstOf(Devices(api)) \in Devices(api) \cup {Nothing}
  BY DEF FirstOf
<1>2. api_selection \in offered
  BY DEF LauncherInit, Apis
<1>3. \A api \in AllApis :
        selected[api] = Nothing \/ selected[api] = FirstOf(Devices(api))
  BY DEF LauncherInit, AllApis
<1>4. selected = [api \in AllApis |-> selected[api]]
  BY DEF LauncherInit, AllApis
<1> QED
  BY <1>1, <1>2, <1>3, <1>4 DEF LauncherInit, PageKeepsApis

LEMMA PageKeepsApisStep == PageKeepsApis /\ [LauncherNext]_allVars => PageKeepsApis'
<1> SUFFICES ASSUME PageKeepsApis, [LauncherNext]_allVars PROVE PageKeepsApis'
  OBVIOUS
<1>0. \A api \in offered : api \in AllApis
  BY DEF PageKeepsApis, Apis, AllApis
<1>1. CASE UNCHANGED launcherVars
  BY <1>1 DEF launcherVars, PageKeepsApis
<1>2. CASE SwitchAPI
  BY <1>2 DEF SwitchAPI, PageKeepsApis
<1>3. CASE DeviceSelected
  <2>1. PICK d \in Devices(api_selection) : selected' = [selected EXCEPT ![api_selection] = d]
    BY <1>3 DEF DeviceSelected
  <2>2. api_selection \in AllApis
    BY <1>0, <1>3 DEF DeviceSelected, PageKeepsApis
  <2> QED
    BY <1>3, <2>1, <2>2 DEF DeviceSelected, PageKeepsApis
<1>4. CASE LaunchRequested
  <2>1. api_selection \in AllApis \ {"dpdu"}
    BY <1>0, <1>4 DEF LaunchRequested, PageKeepsApis
  <2>2. app'.on = api_selection \/ app'.on = "stuck"
    BY <1>4 DEF LaunchRequested
  <2>3. selected' = [api \in AllApis |-> Nothing] /\ offered' = {}
    BY <1>4 DEF LaunchRequested, PageKeepsApis
  <2>4. app'.on \in {"passthru", "slcan", "socketcan", "stuck"}
    BY <2>1, <2>2 DEF AllApis
  <2> QED
    BY <2>3, <2>4 DEF PageKeepsApis
<1> QED
  BY <1>1, <1>2, <1>3, <1>4
  DEF LauncherNext, LauncherStep, PassthruStep, SocketCanStep, allVars

(* The launcher's types, with those of the two adapters it may start on.   *)
THEOREM LauncherTypeCorrect == LauncherSpec => []LauncherTypeOK
<1> DEFINE Inv == PageKeepsApis /\ IInv /\ SkIInv
<1>1. LauncherInit => Inv
  BY InitPageKeepsApis, InitIInv, InitSkIInv DEF LauncherInit
<1>2. Inv /\ [LauncherNext]_allVars => Inv'
  BY PageKeepsApisStep, PassthruStepIInv, SkStepIInv
  DEF LauncherNext, LauncherStep, PassthruStep, SocketCanStep, allVars
<1>3. Inv => LauncherTypeOK
  BY DEF PageKeepsApis, IInv, SkIInv, LauncherTypeOK
<1> HIDE DEF Inv
<1> QED
  BY <1>1, <1>2, <1>3, PTL DEF LauncherSpec
=============================================================================
