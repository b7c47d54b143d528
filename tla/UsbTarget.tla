----------------------------- MODULE UsbTarget -----------------------------
(***************************************************************************)
(* How a plugged-in target becomes a console or a mass-storage session     *)
(* (usb_target/UsbTarget.cpp onNewDevice, onDeviceGone, serialTask,        *)
(* mscEventCb, openMsc, closeMsc, openSerial, serialEventCb, closeSerial). *)
(*                                                                         *)
(* Four tasks meet here: the USB client task, the mass-storage and CDC     *)
(* driver tasks, whose callbacks arrive in their own order, and the serial *)
(* task, which alone may block in an open.  They share m_info, m_serial,   *)
(* m_msc, m_mscPendingAddress and one task notification.  Control lines    *)
(* and line coding, which openSerial also sets, are in ConsoleLine.        *)
(***************************************************************************)
EXTENDS Integers, Sequences

CONSTANTS
  Kinds,        \* the kinds of target that are plugged in
  Addresses,    \* the addresses the host may give a device; 0 is none
  MaxPlugs,     \* bound: how often something is plugged in
  MaxHasty,     \* bound: how often the world moves before the callbacks catch up
  OpenMayFail,  \* an open may fail although the device is there
  None          \* no device, no session

\* "Cdc" is one of Raspberry Pi, "EspCdc" of Espressif, "OtherCdc" of anybody.
SerialKinds  == {"Cdc", "EspCdc", "OtherCdc", "SerialBridge"}
StorageKinds == {"Bootsel", "Msc"}
AllKinds     == SerialKinds \cup StorageKinds \cup {"Hid", "HidBootloader", "Unsupported"}

Devices == [id : 1 .. MaxPlugs, kind : Kinds, address : Addresses]

ASSUME UsbAssumption ==
  /\ Kinds \subseteq AllKinds
  /\ Addresses \subseteq Nat \ {0}
  /\ MaxPlugs \in Nat
  /\ MaxHasty \in Nat
  /\ OpenMayFail \in BOOLEAN
  /\ None \notin Devices

VARIABLES
  port,      \* what is plugged in
  plugs,     \* how often something was plugged in
  clientQ,   \* events on their way to clientEventCb
  mscQ,      \* events on their way to mscEventCb
  cdcQ,      \* events on their way to serialEventCb
  info,      \* m_device, m_info and m_state, always written together
  pending,   \* m_mscPendingAddress
  bell,      \* the serial task's notification count is not zero
  pc,        \* where the serial task is
  addr,      \* openMsc: address
  handle,    \* openMsc, openSerial: the device asked for, then opened
  serial,    \* m_serial
  msc,       \* m_msc
  smooth,    \* history: nothing was plugged or pulled while work was under
             \* way, and no open failed for a device that was there
  hasty,     \* history: how often the world moved with callbacks outstanding
  missed     \* history: the devices whose disconnect was handled between
             \* the return of their open and the store that publishes it

past == <<smooth, hasty, missed>>
vars == <<port, plugs, clientQ, mscQ, cdcQ, info, pending, bell, pc, addr,
          handle, serial, msc, past>>
task   == <<pc, addr, handle>>
queues == <<clientQ, mscQ, cdcQ>>

Init ==
  /\ port = None /\ plugs = 0
  /\ clientQ = <<>> /\ mscQ = <<>> /\ cdcQ = <<>>
  /\ info = None /\ pending = 0 /\ bell = FALSE
  /\ pc = "wait" /\ addr = 0 /\ handle = None
  /\ serial = None /\ msc = None
  /\ smooth = TRUE /\ hasty = 0 /\ missed = {}

Attached(d) == [what |-> "attached", dev |-> d]
Detached(d) == [what |-> "detached", dev |-> d]

(* The sessions the drivers hold open, published in m_serial or not yet. *)
InSerial(d) == serial = d \/ (pc = "publishSerial" /\ handle = d)
InMsc(d)    == msc = d \/ (pc = "publishMsc" /\ handle = d)

Drained == clientQ = <<>> /\ mscQ = <<>> /\ cdcQ = <<>>
AtRest  == Drained /\ pc = "wait" /\ ~bell

(* Callbacks take milliseconds and plugging takes far longer, but an open  *)
(* may block the serial task for five seconds.  A move of the world        *)
(* outside this rhythm is hasty.                                           *)
InRhythm == Drained /\ (AtRest \/ pc \in {"openMsc", "openSerial"})

WorldMoves ==
  /\ InRhythm \/ hasty < MaxHasty
  /\ hasty' = IF InRhythm THEN hasty ELSE hasty + 1
  /\ smooth' = (smooth /\ AtRest)
  /\ UNCHANGED missed

Plug(k, a) ==
  /\ WorldMoves /\ port = None /\ plugs < MaxPlugs
  /\ LET d == [id |-> plugs + 1, kind |-> k, address |-> a] IN
       /\ port' = d
       /\ clientQ' = Append(clientQ, Attached(d))
       /\ mscQ' = IF k \in StorageKinds THEN Append(mscQ, Attached(d)) ELSE mscQ
  /\ plugs' = plugs + 1
  /\ UNCHANGED <<cdcQ, info, pending, bell, task, serial, msc>>

(* Unplugged, or gone to come back as something else. *)
Unplug ==
  /\ WorldMoves /\ port # None
  /\ port' = None
  /\ clientQ' = Append(clientQ, Detached(port))
  /\ mscQ' = IF InMsc(port) THEN Append(mscQ, Detached(port)) ELSE mscQ
  /\ cdcQ' = IF InSerial(port) THEN Append(cdcQ, Detached(port)) ELSE cdcQ
  /\ UNCHANGED <<plugs, info, pending, bell, task, serial, msc>>

(* ------------------------- USB client task ----------------------------- *)

Notifies(d) == d.kind \in SerialKinds \cup {"Msc"}

(* onNewDevice(): usb_host_device_open fails if the device has left again. *)
OnNewDevice ==
  /\ clientQ # <<>> /\ Head(clientQ).what = "attached"
  /\ clientQ' = Tail(clientQ)
  /\ LET d == Head(clientQ).dev IN
       IF port = d
       THEN /\ info' = d
            /\ bell' = (bell \/ Notifies(d))
       ELSE UNCHANGED <<info, bell>>
  /\ UNCHANGED <<port, plugs, mscQ, cdcQ, pending, task, serial, msc, past>>

(* onDeviceGone(): only if it is ours. *)
OnDeviceGone ==
  /\ clientQ # <<>> /\ Head(clientQ).what = "detached"
  /\ clientQ' = Tail(clientQ)
  /\ info' = IF info = Head(clientQ).dev THEN None ELSE info
  /\ UNCHANGED <<port, plugs, mscQ, cdcQ, pending, bell, task, serial, msc, past>>

(* -------------------------- driver callbacks --------------------------- *)

MscConnected ==
  /\ mscQ # <<>> /\ Head(mscQ).what = "attached"
  /\ mscQ' = Tail(mscQ)
  /\ pending' = Head(mscQ).dev.address
  /\ bell' = TRUE
  /\ UNCHANGED <<port, plugs, clientQ, cdcQ, info, task, serial, msc, past>>

(* The disconnect of d finds nothing to close, because the serial task has *)
(* opened d and is only about to store it.                                 *)
Misses(at, d) ==
  missed' = IF pc = at /\ handle = d THEN missed \cup {d} ELSE missed

(* closeMsc() that leaves the pointer in place. *)
CloseMscKeeps ==
  /\ mscQ # <<>> /\ Head(mscQ).what = "detached"
  /\ mscQ' = Tail(mscQ)
  /\ UNCHANGED <<port, plugs, clientQ, cdcQ, info, pending, bell, task, serial, msc, past>>

(* closeMsc(), whatever session m_msc holds.  Reading it and clearing it    *)
(* are one step: only the serial task sets m_msc, and only while it is null.*)
CloseMsc ==
  /\ mscQ # <<>> /\ Head(mscQ).what = "detached"
  /\ mscQ' = Tail(mscQ)
  /\ msc' = None
  /\ Misses("publishMsc", Head(mscQ).dev)
  /\ UNCHANGED <<port, plugs, clientQ, cdcQ, info, pending, bell, task, serial, smooth, hasty>>

(* A disconnect that closes nothing. *)
CloseSerialKeeps ==
  /\ cdcQ # <<>>
  /\ cdcQ' = Tail(cdcQ)
  /\ UNCHANGED <<port, plugs, clientQ, mscQ, info, pending, bell, task, serial, msc, past>>

(* closeSerial(): the exchange takes out whatever m_serial holds. *)
CloseSerial ==
  /\ cdcQ # <<>>
  /\ cdcQ' = Tail(cdcQ)
  /\ serial' = None
  /\ Misses("publishSerial", Head(cdcQ).dev)
  /\ UNCHANGED <<port, plugs, clientQ, mscQ, info, pending, bell, task, msc, smooth, hasty>>

(* ---------------------------- serial task ------------------------------ *)

rest == <<port, plugs, queues, info>>

(* ulTaskNotifyTake(pdTRUE): the count goes back to zero. *)
TakeNotification ==
  /\ pc = "wait" /\ bell
  /\ bell' = FALSE
  /\ pc' = "choose"
  /\ UNCHANGED <<rest, pending, addr, handle, serial, msc, past>>

(* A serial task that only ever looks after mass storage. *)
ChooseMsc ==
  /\ pc = "choose"
  /\ pc' = IF pending # 0 THEN "readAddress" ELSE "wait"
  /\ UNCHANGED <<rest, pending, bell, addr, handle, serial, msc, past>>

Choose ==
  /\ pc = "choose"
  /\ pc' = IF pending # 0 THEN "readAddress" ELSE "checkSerial"
  /\ UNCHANGED <<rest, pending, bell, addr, handle, serial, msc, past>>

ReadAddress ==
  /\ pc = "readAddress"
  /\ addr' = pending
  /\ pc' = "clearAddress"
  /\ UNCHANGED <<rest, pending, bell, handle, serial, msc, past>>

(* Cleared, then the early return while an older session is open. *)
ClearAddress ==
  /\ pc = "clearAddress"
  /\ pending' = 0
  /\ pc' = IF addr = 0 \/ msc # None THEN "wait" ELSE "openMsc"
  /\ UNCHANGED <<rest, bell, addr, handle, serial, msc, past>>

Fails(there) ==
  /\ pc' = "wait"
  /\ smooth' = (smooth /\ ~there)
  /\ UNCHANGED <<handle, hasty, missed>>

(* msc_host_install_device(address). *)
OpenMsc ==
  /\ pc = "openMsc"
  /\ LET there == port # None /\ port.address = addr /\ port.kind \in StorageKinds IN
       \/ there /\ handle' = port /\ pc' = "publishMsc" /\ UNCHANGED past
       \/ (~there \/ OpenMayFail) /\ Fails(there)
  /\ UNCHANGED <<rest, pending, bell, addr, serial, msc>>

PublishMsc ==
  /\ pc = "publishMsc"
  /\ msc' = handle
  /\ pc' = "wait"
  /\ UNCHANGED <<rest, pending, bell, addr, handle, serial, past>>

(* openSerial(): early returns, and a copy of m_info. *)
CheckSerial ==
  /\ pc = "checkSerial"
  /\ IF serial = None /\ info # None /\ info.kind \in SerialKinds
     THEN handle' = info /\ pc' = "openSerial"
     ELSE UNCHANGED handle /\ pc' = "wait"
  /\ UNCHANGED <<rest, pending, bell, addr, serial, msc, past>>

(* open(vid, pid) waits up to five seconds for such a device; it need not  *)
(* be the one the copy was made for.                                       *)
OpenSerial ==
  /\ pc = "openSerial"
  /\ LET there == port # None /\ port.kind = handle.kind IN
       \/ there /\ handle' = port /\ pc' = "publishSerial" /\ UNCHANGED past
       \/ (~there \/ OpenMayFail) /\ Fails(there)
  /\ UNCHANGED <<rest, pending, bell, addr, serial, msc>>

PublishSerial ==
  /\ pc = "publishSerial"
  /\ serial' = handle
  /\ pc' = "wait"
  /\ UNCHANGED <<rest, pending, bell, addr, handle, msc, past>>

(* -------------------------- the specification -------------------------- *)

World == Unplug \/ \E k \in Kinds, a \in Addresses : Plug(k, a)

ClientTask == OnNewDevice \/ OnDeviceGone
MscTask    == MscConnected \/ CloseMsc
SerialTask ==
  \/ TakeNotification \/ Choose
  \/ ReadAddress \/ ClearAddress \/ OpenMsc \/ PublishMsc
  \/ CheckSerial \/ OpenSerial \/ PublishSerial

Next == World \/ ClientTask \/ MscTask \/ CloseSerial \/ SerialTask

Spec == Init /\ [][Next]_vars

(* FreeRTOS runs every ready task in the end; nobody has to plug anything. *)
FairSpec ==
  /\ Spec
  /\ WF_vars(ClientTask) /\ WF_vars(MscTask)
  /\ WF_vars(CloseSerial) /\ WF_vars(SerialTask)

(* ------------------------------ properties ----------------------------- *)

Events == [what : {"attached", "detached"}, dev : Devices]

TypeOK ==
  /\ port \in Devices \cup {None} /\ plugs \in 0 .. MaxPlugs
  /\ clientQ \in Seq(Events) /\ mscQ \in Seq(Events) /\ cdcQ \in Seq(Events)
  /\ info \in Devices \cup {None}
  /\ pending \in Addresses \cup {0} /\ addr \in Addresses \cup {0}
  /\ bell \in BOOLEAN
  /\ pc \in {"wait", "choose", "readAddress", "clearAddress", "openMsc",
             "publishMsc", "checkSerial", "openSerial", "publishSerial"}
  /\ handle \in Devices \cup {None}
  /\ serial \in Devices \cup {None} /\ msc \in Devices \cup {None}
  /\ smooth \in BOOLEAN /\ hasty \in 0 .. MaxHasty /\ missed \subseteq Devices

(* A session whose device has left is not forgotten, at whatever moment it *)
(* left: as long as m_serial or m_msc still names it, the driver's         *)
(* disconnect is on its way to close it.  A pointer that survives its      *)
(* device blocks every later open; the one way to that is a disconnect     *)
(* that is handled between the return of the open and the store.           *)
EndIsOnItsWay ==
  /\ serial \notin {None, port} \cup missed =>
       \E i \in DOMAIN cdcQ : cdcQ[i].dev = serial
  /\ msc \notin {None, port} \cup missed =>
       \E i \in DOMAIN mscQ : mscQ[i] = Detached(msc)

(* And it really is closed, but for that one case. *)
DeadSessionsEnd ==
  /\ (serial \notin {None, port} \cup missed) ~> (serial = None)
  /\ (msc \notin {None, port} \cup missed) ~> (msc = None)

(* When everything has settled, what is plugged in is served: a console    *)
(* for CDC and bridges, mass storage for BOOTSEL.                          *)
Served ==
  (AtRest /\ port # None) =>
    /\ port.kind \in SerialKinds => serial = port
    /\ port.kind \in StorageKinds => msc = port

(* As long as targets come and go while nothing else is under way, however *)
(* often they change their kind and their address.                         *)
AttachedIsServed == smooth => Served

(* SerialBridge.hpp promises it for a reset, a flash and a pulled cable    *)
(* alike: once the target is back the stream goes on.                      *)
StreamGoesOn == Served

(* When everything has settled m_info describes what is plugged in, and    *)
(* the device it describes is the only one with a session, but for those   *)
(* whose disconnect came too early to close anything.                      *)
KnownIsAttached ==
  AtRest => /\ info = port
            /\ serial \in {None, info} \cup missed
            /\ msc \in {None, info} \cup missed

(* The comment in closeSerial(): it is called from two tasks, the driver's *)
(* callback and onDeviceGone, so a target that is gone leaves no session.  *)
GoneMeansClosed == (AtRest /\ info = None) => serial = None
=============================================================================
