-------------------------- MODULE TargetResetProofs --------------------------
(***************************************************************************)
(* The sessions with the target and the requests that reset it, for every  *)
(* set of kinds and addresses and any number of plugs and requests.        *)
(***************************************************************************)
EXTENDS TargetReset, TLAPS

(* ---------------------------- the sessions ----------------------------- *)

(* Whether the world has only moved when the callbacks had caught up. *)
Orderly == hasty = 0

(* What is on its way to the three callbacks, and what it will find. *)
ClientQueue ==
  \/ clientQ = <<>> /\ info = port
  \/ clientQ = <<Attached(port)>> /\ port # None /\ info = None
  \/ clientQ = <<Detached(info)>> /\ port = None /\ info # None

MscQueue ==
  \/ mscQ = <<>> /\ msc \in {None, port}
  \/ mscQ = <<Attached(port)>> /\ port # None /\ msc \in {None, port}
  \/ mscQ = <<Detached(msc)>> /\ port = None /\ msc # None

CdcQueue ==
  \/ cdcQ = <<>> /\ serial \in {None, port}
  \/ cdcQ = <<Detached(serial)>> /\ port = None /\ serial # None

(* The port, m_info and the two sessions never name different targets. *)
Named     == {port, info, serial, msc} \ {None}
OneTarget == \A a, b \in Named : a = b

(* What was opened is on the port until it is published. *)
OpenedIsThere ==
  /\ pc \in {"publishSerial", "publishMsc"} => port # None /\ handle = port
  /\ pc = "publishMsc" => handle.kind \in StorageKinds
  /\ msc # None => msc.kind \in StorageKinds

Shapes == ClientQueue /\ MscQueue /\ CdcQueue /\ OneTarget /\ OpenedIsThere

(* A pending address is looked at, sooner or later. *)
PendingIsSeen ==
  pending # 0 => bell \/ pc \in {"choose", "readAddress", "clearAddress"}

(* As long as nothing was plugged or pulled midway, every target on the    *)
(* port has its session, or the step that brings it nearer is still due.   *)
NothingToDo == port = None => pc = "wait" /\ ~bell

SerialComes ==
  (port # None /\ port.kind \in SerialKinds) =>
    /\ mscQ = <<>> /\ pending = 0
    /\ pc \notin {"readAddress", "clearAddress", "openMsc", "publishMsc"}
    /\ \/ serial = port \/ clientQ # <<>> \/ bell
       \/ pc \in {"choose", "checkSerial", "openSerial", "publishSerial"}

MscComes ==
  (port # None /\ port.kind \in StorageKinds) =>
    \/ msc = port
    \/ mscQ # <<>> /\ pending = 0 /\ pc \in {"wait", "choose", "checkSerial"}
    \/ pending = port.address /\ bell /\ pc \in {"wait", "checkSerial"}
    \/ pending = port.address /\ pc \in {"choose", "readAddress"}
    \/ addr = port.address /\ pc \in {"clearAddress", "openMsc"}
    \/ pc = "publishMsc"

OnTheWay ==
  /\ NothingToDo /\ SerialComes /\ MscComes
  /\ pc = "openSerial" => handle = port

(* The driver's disconnect of d is in its queue, if d has left. *)
EndComes(q, d) ==
  d \notin {None, port} \cup missed => \E i \in DOMAIN q : q[i] = Detached(d)

(* Also for what the serial task has opened and not stored yet. *)
EndsCome ==
  /\ EndComes(cdcQ, serial) /\ (pc = "publishSerial" => EndComes(cdcQ, handle))
  /\ EndComes(mscQ, msc) /\ (pc = "publishMsc" => EndComes(mscQ, handle))

UInv ==
  /\ TypeOK
  /\ PendingIsSeen
  /\ EndsCome
  /\ Orderly => Shapes
  /\ smooth => Orderly /\ OnTheWay

LEMMA UsbStarts == Init => UInv
<1> SUFFICES ASSUME Init PROVE UInv
  OBVIOUS
<1>1. TypeOK
  <2>1. plugs \in 0 .. MaxPlugs /\ hasty \in 0 .. MaxHasty
    BY UsbAssumption DEF Init
  <2>2. clientQ \in Seq(Events) /\ mscQ \in Seq(Events) /\ cdcQ \in Seq(Events)
    BY DEF Init
  <2> QED
    BY <2>1, <2>2 DEF Init, TypeOK
<1>2. Shapes
  BY DEF Init, Shapes, ClientQueue, MscQueue, CdcQueue, Named, OneTarget, OpenedIsThere
<1>3. EndsCome
  BY DEF Init, EndsCome, EndComes
<1> QED
  BY <1>1, <1>2, <1>3
  DEF Init, UInv, PendingIsSeen, Orderly, OnTheWay, NothingToDo, SerialComes, MscComes

(* An event in a queue is one of a target, and says what it is. *)
LEMMA EventsTyped ==
  ASSUME NEW d \in Devices
  PROVE  Attached(d) \in Events /\ Detached(d) \in Events
  BY DEF Attached, Detached, Events

LEMMA QueuesTyped ==
  ASSUME NEW q \in Seq(Events)
  PROVE  /\ \A e \in Events : Append(q, e) \in Seq(Events)
         /\ q # <<>> => Head(q) \in Events /\ Tail(q) \in Seq(Events)
  OBVIOUS

LEMMA HastyTyped ==
  ASSUME TypeOK, WorldMoves PROVE smooth' \in BOOLEAN /\ hasty' \in 0 .. MaxHasty
<1>1. smooth' \in BOOLEAN
  BY DEF WorldMoves, TypeOK
<1>2. CASE InRhythm
  BY <1>2 DEF WorldMoves, TypeOK
<1>3. CASE ~InRhythm
  <2>1. hasty \in Nat /\ MaxHasty \in Nat /\ hasty < MaxHasty /\ hasty' = hasty + 1
    BY <1>3, UsbAssumption DEF WorldMoves, TypeOK
  <2> QED
    BY <1>1, <2>1
<1> QED
  BY <1>1, <1>2, <1>3

LEMMA UsbTypes == TypeOK /\ [Next]_vars => TypeOK'
<1> SUFFICES ASSUME TypeOK, [Next]_vars PROVE TypeOK'
  OBVIOUS
<1>0. clientQ \in Seq(Events) /\ mscQ \in Seq(Events) /\ cdcQ \in Seq(Events)
  BY DEF TypeOK
<1>1. CASE Unplug
  <2>1. Detached(port) \in Events
    BY <1>1, EventsTyped DEF Unplug, TypeOK
  <2>2. clientQ' \in Seq(Events) /\ mscQ' \in Seq(Events) /\ cdcQ' \in Seq(Events)
    BY <1>0, <1>1, <2>1, QueuesTyped DEF Unplug
  <2>3. smooth' \in BOOLEAN /\ hasty' \in 0 .. MaxHasty /\ missed' = missed
    BY <1>1, HastyTyped DEF Unplug, WorldMoves
  <2>4. port' = None /\ UNCHANGED <<plugs, info, pending, bell, pc, addr, handle, serial, msc>>
    BY <1>1 DEF Unplug, task
  <2> QED
    BY <2>2, <2>3, <2>4 DEF TypeOK
<1>2. ASSUME NEW k \in Kinds, NEW a \in Addresses, Plug(k, a) PROVE TypeOK'
  <2>1. port' \in Devices /\ plugs' \in 0 .. MaxPlugs
    BY <1>2, UsbAssumption DEF Plug, Devices, TypeOK
  <2>2. Attached(port') \in Events
    BY <2>1, EventsTyped
  <2>3. clientQ' \in Seq(Events) /\ mscQ' \in Seq(Events)
    BY <1>0, <1>2, <2>2, QueuesTyped DEF Plug
  <2>4. smooth' \in BOOLEAN /\ hasty' \in 0 .. MaxHasty /\ missed' = missed
    BY <1>2, HastyTyped DEF Plug, WorldMoves
  <2> QED
    BY <1>2, <2>1, <2>3, <2>4 DEF Plug, task, TypeOK
<1>3. CASE ClientTask
  <2>1. clientQ # <<>> /\ clientQ' = Tail(clientQ) /\ info' \in {info, None, port}
    BY <1>3 DEF ClientTask, OnNewDevice, OnDeviceGone
  <2>2. clientQ' \in Seq(Events) /\ info' \in Devices \cup {None}
    BY <1>0, <2>1, QueuesTyped DEF TypeOK
  <2>3. bell' \in BOOLEAN
    BY <1>3 DEF ClientTask, OnNewDevice, OnDeviceGone, Notifies, TypeOK
  <2> QED
    BY <1>3, <2>2, <2>3 DEF ClientTask, OnNewDevice, OnDeviceGone, task, past, TypeOK
<1>4. CASE MscTask
  <2>1. mscQ # <<>> /\ mscQ' = Tail(mscQ)
    BY <1>4 DEF MscTask, MscConnected, CloseMsc
  <2>2. mscQ' \in Seq(Events) /\ Head(mscQ) \in Events
    BY <1>0, <2>1, QueuesTyped
  <2>3. Head(mscQ).dev.address \in Addresses /\ Head(mscQ).dev \in Devices
    BY <2>2 DEF Events, Devices
  <2> QED
    BY <1>4, <2>2, <2>3 DEF MscTask, MscConnected, CloseMsc, Misses, task, past, TypeOK
<1>5. CASE CloseSerial
  <2>1. cdcQ' \in Seq(Events) /\ Head(cdcQ).dev \in Devices
    BY <1>0, <1>5, QueuesTyped DEF CloseSerial, Events
  <2> QED
    BY <1>5, <2>1 DEF CloseSerial, Misses, task, TypeOK
<1>6. CASE SerialTask
  BY <1>6 DEF SerialTask, TakeNotification, Choose, ReadAddress, ClearAddress, OpenMsc, Fails,
              PublishMsc, CheckSerial, OpenSerial, PublishSerial, rest, queues, past, TypeOK
<1>7. CASE UNCHANGED vars
  BY <1>7 DEF vars, past, task, TypeOK
<1> QED
  BY <1>1, <1>2, <1>3, <1>4, <1>5, <1>6, <1>7 DEF Next, World

LEMMA PendingStep == TypeOK /\ PendingIsSeen /\ [Next]_vars => PendingIsSeen'
  BY DEF TypeOK, PendingIsSeen, Next, World, Unplug, Plug, ClientTask, OnNewDevice, OnDeviceGone,
         MscTask, MscConnected, CloseMsc, CloseSerial, SerialTask, TakeNotification, Choose,
         ReadAddress, ClearAddress, OpenMsc, Fails, PublishMsc, CheckSerial, OpenSerial,
         PublishSerial, rest, queues, task, vars

LEMMA HasteCounts ==
  /\ TypeOK => hasty \in Nat
  /\ World => WorldMoves
<1>1. TypeOK => hasty \in Nat
  BY UsbAssumption DEF TypeOK
<1>2. World => WorldMoves
  BY DEF World, Unplug, Plug
<1> QED
  BY <1>1, <1>2

(* Only the world is hasty, and what was hasty once stays so. *)
LEMMA HasteStays ==
  ASSUME TypeOK, [Next]_vars PROVE /\ Orderly' => Orderly
                                   /\ ~World => hasty' = hasty /\ (smooth' => smooth)
<1>1. CASE World
  <2>1. hasty \in Nat /\ WorldMoves
    BY <1>1, HasteCounts
  <2> QED
    BY <1>1, <2>1 DEF WorldMoves, Orderly
<1>2. CASE ~World
  BY <1>2 DEF TypeOK, Next, ClientTask, OnNewDevice, OnDeviceGone, MscTask, MscConnected, CloseMsc,
       CloseSerial, SerialTask, TakeNotification, Choose, ReadAddress, ClearAddress, OpenMsc,
       Fails, PublishMsc, CheckSerial, OpenSerial, PublishSerial, vars, past, Orderly
<1> QED
  BY <1>1, <1>2

(* A calm step of the world starts from queues that are empty. *)
LEMMA WorldIsCalm ==
  ASSUME TypeOK, World, Orderly' \/ smooth', smooth => Orderly
  PROVE  /\ Orderly /\ Orderly' /\ Drained
         /\ pc \notin {"publishMsc", "publishSerial"}
         /\ smooth' => smooth /\ AtRest
<1>1. WorldMoves /\ hasty \in Nat
  BY HasteCounts
<1>2. smooth' => smooth /\ AtRest
  BY <1>1 DEF WorldMoves
<1>3. InRhythm /\ hasty' = hasty
  <2>1. AtRest => InRhythm
    BY DEF AtRest, InRhythm
  <2> QED
    BY <1>1, <1>2, <2>1 DEF WorldMoves, Orderly
<1> QED
  BY <1>1, <1>2, <1>3 DEF Orderly, InRhythm, AtRest

(* The same targets, or fewer, or what is on the port. *)
LEMMA NamesStay ==
  ASSUME OneTarget, port' = port,
         info' \in {info, None, port}, serial' \in {serial, None, port}, msc' \in {msc, None, port}
  PROVE  OneTarget'
  BY DEF OneTarget, Named

LEMMA ShapesStep ==
  ASSUME TypeOK, Orderly', [Next]_vars, Orderly => Shapes, smooth => Orderly
  PROVE  Shapes'
<1>1. Orderly
  BY HasteStays
<1> USE UsbAssumption DEF Shapes, OpenedIsThere
<1>2. CASE World
  <2>1. Drained /\ pc \notin {"publishMsc", "publishSerial"}
    BY <1>2, WorldIsCalm
  <2>2. info = port /\ msc \in {None, port} /\ serial \in {None, port}
    BY <1>1, <2>1 DEF Drained, ClientQueue, MscQueue, CdcQueue, Attached, Detached
  <2>3. UNCHANGED <<info, msc, serial, pc, handle>>
    BY <1>2 DEF World, Unplug, Plug, task
  <2>4. CASE Unplug
    <3>1. port # None /\ port' = None
      BY <2>4 DEF Unplug
    <3>2. clientQ' = <<Detached(info)>>
      BY <2>1, <2>2, <2>4 DEF Unplug, Drained
    <3>3. mscQ' = IF msc = port THEN <<Detached(msc)>> ELSE <<>>
      BY <2>1, <2>4 DEF Unplug, Drained, InMsc
    <3>4. cdcQ' = IF serial = port THEN <<Detached(serial)>> ELSE <<>>
      BY <2>1, <2>4 DEF Unplug, Drained, InSerial
    <3>5. ClientQueue' /\ MscQueue' /\ CdcQueue'
      BY <2>2, <2>3, <3>1, <3>2, <3>3, <3>4 DEF ClientQueue, MscQueue, CdcQueue, Detached
    <3>6. OneTarget'
      BY <2>2, <2>3, <3>1 DEF OneTarget, Named
    <3> QED
      BY <1>1, <2>1, <2>3, <3>5, <3>6
  <2>5. ASSUME NEW k \in Kinds, NEW a \in Addresses, Plug(k, a) PROVE Shapes'
    <3>1. port = None /\ port' \in Devices
      BY <2>5 DEF Plug, Devices, TypeOK
    <3>2. clientQ' = <<Attached(port')>> /\ mscQ' \in {<<>>, <<Attached(port')>>} /\ cdcQ' = <<>>
      BY <2>1, <2>5 DEF Plug, Drained
    <3>3. ClientQueue' /\ MscQueue' /\ CdcQueue'
      BY <2>2, <2>3, <3>1, <3>2 DEF ClientQueue, MscQueue, CdcQueue, Attached
    <3>4. OneTarget'
      BY <2>2, <2>3, <3>1 DEF OneTarget, Named
    <3> QED
      BY <1>1, <2>1, <2>3, <3>3, <3>4
  <2> QED
    BY <1>2, <2>4, <2>5 DEF World
<1>3. CASE OnNewDevice
  <2>1. clientQ = <<Attached(port)>> /\ port # None
    BY <1>1, <1>3 DEF OnNewDevice, ClientQueue, Detached
  <2>2. Head(clientQ) = Attached(port) /\ Tail(clientQ) = <<>>
    BY <2>1
  <2>3. clientQ' = <<>> /\ info' = port /\ UNCHANGED <<port, mscQ, cdcQ, serial, msc, pc, handle>>
    BY <1>3, <2>2 DEF OnNewDevice, Attached, task
  <2>4. ClientQueue' /\ MscQueue' /\ CdcQueue'
    BY <1>1, <2>3 DEF ClientQueue, MscQueue, CdcQueue, Attached, Detached
  <2>5. OneTarget'
    BY <1>1, <2>3, NamesStay
  <2> QED
    BY <1>1, <2>3, <2>4, <2>5
<1>4. CASE OnDeviceGone
  <2>1. clientQ = <<Detached(info)>> /\ port = None
    BY <1>1, <1>4 DEF OnDeviceGone, ClientQueue, Attached
  <2>2. Head(clientQ) = Detached(info) /\ Tail(clientQ) = <<>>
    BY <2>1
  <2>3. clientQ' = <<>> /\ info' = None /\ UNCHANGED <<port, mscQ, cdcQ, serial, msc, pc, handle>>
    BY <1>4, <2>2 DEF OnDeviceGone, Detached, task
  <2>4. ClientQueue' /\ MscQueue' /\ CdcQueue'
    BY <1>1, <2>1, <2>3 DEF ClientQueue, MscQueue, CdcQueue, Attached, Detached
  <2>5. OneTarget'
    BY <1>1, <2>3, NamesStay
  <2> QED
    BY <1>1, <2>3, <2>4, <2>5
<1>5. CASE MscConnected
  <2>1. mscQ = <<Attached(port)>> /\ port # None /\ msc \in {None, port}
    BY <1>1, <1>5 DEF MscConnected, MscQueue, Detached
  <2>2. mscQ' = <<>> /\ UNCHANGED <<port, clientQ, cdcQ, info, serial, msc, pc, handle>>
    BY <1>5, <2>1 DEF MscConnected, task
  <2>3. ClientQueue' /\ MscQueue' /\ CdcQueue'
    BY <1>1, <2>1, <2>2 DEF ClientQueue, MscQueue, CdcQueue, Attached, Detached
  <2>4. OneTarget'
    BY <1>1, <2>2, NamesStay
  <2> QED
    BY <1>1, <2>2, <2>3, <2>4
<1>6. CASE CloseMsc
  <2>1. mscQ = <<Detached(msc)>> /\ port = None
    BY <1>1, <1>6 DEF CloseMsc, MscQueue, Attached
  <2>2. mscQ' = <<>> /\ msc' = None /\ UNCHANGED <<port, clientQ, cdcQ, info, serial, pc, handle>>
    BY <1>6, <2>1 DEF CloseMsc, task
  <2>3. ClientQueue' /\ MscQueue' /\ CdcQueue'
    BY <1>1, <2>1, <2>2 DEF ClientQueue, MscQueue, CdcQueue, Attached, Detached
  <2>4. OneTarget'
    BY <1>1, <2>2, NamesStay
  <2> QED
    BY <1>1, <2>2, <2>3, <2>4
<1>7. CASE CloseSerial
  <2>1. cdcQ = <<Detached(serial)>> /\ port = None
    BY <1>1, <1>7 DEF CloseSerial, CdcQueue
  <2>2. cdcQ' = <<>> /\ serial' = None /\ UNCHANGED <<port, clientQ, mscQ, info, msc, pc, handle>>
    BY <1>7, <2>1 DEF CloseSerial, task
  <2>3. ClientQueue' /\ MscQueue' /\ CdcQueue'
    BY <1>1, <2>1, <2>2 DEF ClientQueue, MscQueue, CdcQueue, Attached, Detached
  <2>4. OneTarget'
    BY <1>1, <2>2, NamesStay
  <2> QED
    BY <1>1, <2>2, <2>3, <2>4
<1>8. CASE SerialTask
  <2>1. UNCHANGED rest /\ serial' \in {serial, port} /\ msc' \in {msc, port}
        /\ (serial' # serial \/ msc' # msc => port # None)
    BY <1>1, <1>8 DEF SerialTask, TakeNotification, Choose, ReadAddress, ClearAddress, OpenMsc,
                PublishMsc, CheckSerial, OpenSerial, PublishSerial
  <2>2. UNCHANGED <<port, clientQ, mscQ, cdcQ, info>>
    BY <2>1 DEF rest, queues
  <2>3. ClientQueue' /\ MscQueue' /\ CdcQueue'
    BY <1>1, <2>1, <2>2 DEF ClientQueue, MscQueue, CdcQueue, Attached, Detached
  <2>4. OneTarget'
    BY <1>1, <2>1, <2>2, NamesStay
  <2>5. OpenedIsThere'
    BY <1>1, <1>8, <2>2 DEF TypeOK, SerialTask, TakeNotification, Choose, ReadAddress, ClearAddress,
                OpenMsc, Fails, PublishMsc, CheckSerial, OpenSerial, PublishSerial
  <2> QED
    BY <2>3, <2>4, <2>5
<1>9. CASE UNCHANGED vars
  BY <1>1, <1>9 DEF vars, task, ClientQueue, MscQueue, CdcQueue, OneTarget, Named, Attached, Detached
<1> QED
  BY <1>2, <1>3, <1>4, <1>5, <1>6, <1>7, <1>8, <1>9 DEF Next, ClientTask, MscTask

LEMMA SmoothIsOrderly ==
  ASSUME TypeOK, smooth => Orderly, smooth', [Next]_vars PROVE Orderly'
<1>1. CASE World
  BY <1>1, WorldIsCalm
<1>2. CASE ~World
  BY <1>2, HasteStays DEF Orderly
<1> QED
  BY <1>1, <1>2

LEMMA WayStep ==
  ASSUME TypeOK, PendingIsSeen, Orderly => Shapes, smooth => Orderly /\ OnTheWay,
         smooth', [Next]_vars
  PROVE  OnTheWay'
<1> USE UsbAssumption DEF OnTheWay, NothingToDo, SerialComes, MscComes
<1>1. CASE World
  <2>1. smooth /\ AtRest /\ Shapes
    BY <1>1, WorldIsCalm
  <2>2. info = port /\ msc \in {None, port} /\ pending = 0 /\ mscQ = <<>> /\ pc = "wait" /\ ~bell
    BY <2>1 DEF AtRest, Drained, Shapes, ClientQueue, MscQueue, Attached, Detached, PendingIsSeen
  <2>3. UNCHANGED <<pending, pc, bell>>
    BY <1>1 DEF World, Unplug, Plug, task
  <2>4. CASE Unplug
    BY <2>2, <2>3, <2>4 DEF Unplug
  <2>5. ASSUME NEW k \in Kinds, NEW a \in Addresses, Plug(k, a) PROVE OnTheWay'
    <3>1. port'.kind = k /\ clientQ' = <<Attached(port')>>
      BY <2>1, <2>5 DEF Plug, AtRest, Drained
    <3>2. mscQ' = IF k \in StorageKinds THEN <<Attached(port')>> ELSE <<>>
      BY <2>2, <2>5 DEF Plug
    <3> QED
      BY <2>2, <2>3, <3>1, <3>2 DEF SerialKinds, StorageKinds
  <2> QED
    BY <1>1, <2>4, <2>5 DEF World
<1>2. CASE ~World
  <2>0. smooth
    BY <1>2, HasteStays
  <2>1. Shapes /\ OnTheWay
    BY <2>0
  <2> USE <2>1 DEF Shapes
  <2>2. CASE OnNewDevice
    <3>1. clientQ = <<Attached(port)>> /\ port # None
      BY <2>2 DEF OnNewDevice, ClientQueue, Detached
    <3>2. /\ bell' = (bell \/ Notifies(port))
          /\ UNCHANGED <<port, mscQ, pending, pc, addr, handle, serial, msc>>
      BY <2>2, <3>1 DEF OnNewDevice, Attached, task
    <3> QED
      BY <3>1, <3>2 DEF Notifies, TypeOK
  <2>3. CASE OnDeviceGone
    <3>1. port = None
      BY <2>3 DEF OnDeviceGone, ClientQueue, Attached
    <3> QED
      BY <2>3, <3>1 DEF OnDeviceGone, task
  <2>4. CASE MscConnected
    <3>1. mscQ = <<Attached(port)>> /\ port # None
      BY <2>4 DEF MscConnected, MscQueue, Detached
    <3>2. /\ pending' = port.address /\ bell'
          /\ UNCHANGED <<port, clientQ, pc, addr, handle, serial, msc>>
      BY <2>4, <3>1 DEF MscConnected, Attached, task
    <3> QED
      BY <3>1, <3>2 DEF SerialKinds, StorageKinds
  <2>5. CASE CloseMsc
    <3>1. port = None
      BY <2>5 DEF CloseMsc, MscQueue, Attached
    <3> QED
      BY <2>5, <3>1 DEF CloseMsc, task
  <2>6. CASE CloseSerial
    <3>1. port = None
      BY <2>6 DEF CloseSerial, CdcQueue
    <3> QED
      BY <2>6, <3>1 DEF CloseSerial, task
  <2>7. CASE SerialTask
    <3>1. port # None /\ UNCHANGED <<port, clientQ, mscQ, info>> /\ info \in {None, port}
      BY <2>7 DEF SerialTask, TakeNotification, Choose, ReadAddress, ClearAddress, OpenMsc, PublishMsc,
                  CheckSerial, OpenSerial, PublishSerial, rest, queues, ClientQueue
    <3>2. port.address # 0 /\ (port.kind \in SerialKinds => port.kind \notin StorageKinds)
      BY <3>1 DEF TypeOK, Devices, SerialKinds, StorageKinds
    <3>3. msc \in {None, port} /\ serial \in {None, port} /\ (clientQ = <<>> => info = port)
      BY <3>1 DEF MscQueue, CdcQueue, ClientQueue, Attached, Detached
    <3>4. CASE TakeNotification
      BY <3>1, <3>4 DEF TakeNotification
    <3>5. CASE Choose
      BY <3>1, <3>2, <3>5 DEF Choose
    <3>6. CASE ReadAddress
      BY <3>1, <3>2, <3>6 DEF ReadAddress
    <3>7. CASE ClearAddress
      BY <3>1, <3>2, <3>3, <3>7 DEF ClearAddress
    <3>8. CASE OpenMsc
      BY <3>1, <3>2, <3>8 DEF OpenMsc, Fails
    <3>9. CASE PublishMsc
      BY <3>1, <3>2, <3>9 DEF PublishMsc, OpenedIsThere
    <3>10. CASE CheckSerial
      BY <3>1, <3>2, <3>3, <3>10 DEF CheckSerial
    <3>11. CASE OpenSerial
      BY <3>1, <3>2, <3>11 DEF OpenSerial, Fails
    <3>12. CASE PublishSerial
      BY <3>1, <3>2, <3>12 DEF PublishSerial, OpenedIsThere
    <3> QED
      BY <2>7, <3>4, <3>5, <3>6, <3>7, <3>8, <3>9, <3>10, <3>11, <3>12 DEF SerialTask
  <2>8. CASE UNCHANGED vars
    BY <2>8 DEF vars, task
  <2> QED
    BY <1>2, <2>2, <2>3, <2>4, <2>5, <2>6, <2>7, <2>8 DEF Next, ClientTask, MscTask
<1> QED
  BY <1>1, <1>2

(* What is in a queue stays there until it is its turn. *)
LEMMA StaysQueued ==
  ASSUME NEW q \in Seq(Events), NEW x, NEW i \in DOMAIN q, q[i] = x
  PROVE  /\ \A e \in Events : \E j \in DOMAIN Append(q, e) : Append(q, e)[j] = x
         /\ q # <<>> /\ Head(q) # x => \E j \in DOMAIN Tail(q) : Tail(q)[j] = x
<1>1. ASSUME NEW e \in Events PROVE \E j \in DOMAIN Append(q, e) : Append(q, e)[j] = x
  BY i \in DOMAIN Append(q, e)
<1>2. ASSUME q # <<>>, Head(q) # x PROVE \E j \in DOMAIN Tail(q) : Tail(q)[j] = x
  BY <1>2, i - 1 \in DOMAIN Tail(q)
<1> QED
  BY <1>1, <1>2

LEMMA LastQueued ==
  ASSUME NEW q \in Seq(Events), NEW e \in Events
  PROVE  \E j \in DOMAIN Append(q, e) : Append(q, e)[j] = e
BY Len(q) + 1 \in DOMAIN Append(q, e)

(* Nobody is forgotten while the queue grows, *)
LEMMA EndStays ==
  ASSUME NEW q \in Seq(Events), NEW r, NEW d, EndComes(q, d),
         port' = port \/ (port' = None /\ port \in Devices) \/ port = None,
         missed \subseteq missed',
         r = q \/ (\E e \in Events : r = Append(q, e)),
         d # None /\ port = d /\ port' # d => r = Append(q, Detached(d))
  PROVE  d \notin {None, port'} \cup missed' => \E i \in DOMAIN r : r[i] = Detached(d)
<1> SUFFICES ASSUME d \notin {None, port'} \cup missed'
             PROVE  \E i \in DOMAIN r : r[i] = Detached(d)
  OBVIOUS
<1>1. CASE port = d
  <2>1. Detached(d) \in Events
    BY <1>1, EventsTyped
  <2> QED
    BY <1>1, <2>1, LastQueued
<1>2. CASE port # d
  <2>1. PICK i \in DOMAIN q : q[i] = Detached(d)
    BY <1>2 DEF EndComes
  <2>2. CASE r = q
    BY <2>1, <2>2
  <2>3. ASSUME NEW e \in Events, r = Append(q, e)
        PROVE  \E j \in DOMAIN r : r[j] = Detached(d)
    BY <2>1, <2>3, StaysQueued
  <2> QED
    BY <2>2, <2>3
<1> QED
  BY <1>1, <1>2

(* nor when its head is taken, unless it was its own end. *)
LEMMA EndNotPopped ==
  ASSUME NEW q \in Seq(Events), q # <<>>, NEW d, EndComes(q, d), port' = port,
         missed \subseteq missed', Head(q) = Detached(d) => d \in missed'
  PROVE  d \notin {None, port'} \cup missed' =>
           \E i \in DOMAIN Tail(q) : Tail(q)[i] = Detached(d)
<1> SUFFICES ASSUME d \notin {None, port'} \cup missed'
             PROVE  \E i \in DOMAIN Tail(q) : Tail(q)[i] = Detached(d)
  OBVIOUS
<1>1. PICK i \in DOMAIN q : q[i] = Detached(d)
  BY DEF EndComes
<1> QED
  BY <1>1, StaysQueued

LEMMA EndsStep ==
  ASSUME TypeOK, EndsCome, [Next]_vars PROVE EndsCome'
<1>0. mscQ \in Seq(Events) /\ cdcQ \in Seq(Events)
  BY DEF TypeOK
<1>1. CASE Unplug
  <2>1. /\ port # None /\ port' = None /\ port \in Devices /\ Detached(port) \in Events
        /\ UNCHANGED <<pc, handle, serial, msc, missed>>
    BY <1>1, EventsTyped DEF Unplug, WorldMoves, task, TypeOK
  <2>2. /\ cdcQ' = (IF InSerial(port) THEN Append(cdcQ, Detached(port)) ELSE cdcQ)
        /\ mscQ' = (IF InMsc(port) THEN Append(mscQ, Detached(port)) ELSE mscQ)
    BY <1>1 DEF Unplug
  <2>3. ASSUME NEW d, EndComes(cdcQ, d), d = serial \/ (pc = "publishSerial" /\ d = handle)
        PROVE  d \notin {None, port'} \cup missed' => \E i \in DOMAIN cdcQ' : cdcQ'[i] = Detached(d)
    <3>1. port = d => cdcQ' = Append(cdcQ, Detached(d))
      BY <2>2, <2>3 DEF InSerial
    <3>2. cdcQ' = cdcQ \/ \E e \in Events : cdcQ' = Append(cdcQ, e)
      BY <2>1, <2>2
    <3> QED
      BY <1>0, <2>1, <2>3, <3>1, <3>2, EndStays
  <2>4. ASSUME NEW d, EndComes(mscQ, d), d = msc \/ (pc = "publishMsc" /\ d = handle)
        PROVE  d \notin {None, port'} \cup missed' => \E i \in DOMAIN mscQ' : mscQ'[i] = Detached(d)
    <3>1. port = d => mscQ' = Append(mscQ, Detached(d))
      BY <2>2, <2>4 DEF InMsc
    <3>2. mscQ' = mscQ \/ \E e \in Events : mscQ' = Append(mscQ, e)
      BY <2>1, <2>2
    <3> QED
      BY <1>0, <2>1, <2>4, <3>1, <3>2, EndStays
  <2>5. EndComes(cdcQ, serial)' /\ EndComes(mscQ, msc)'
    BY <2>1, <2>3, <2>4 DEF EndsCome, EndComes
  <2>6. (pc = "publishSerial" => EndComes(cdcQ, handle))'
    BY <2>1, <2>3 DEF EndsCome, EndComes
  <2>7. (pc = "publishMsc" => EndComes(mscQ, handle))'
    BY <2>1, <2>4 DEF EndsCome, EndComes
  <2> QED
    BY <2>5, <2>6, <2>7 DEF EndsCome
<1>2. ASSUME NEW k \in Kinds, NEW a \in Addresses, Plug(k, a) PROVE EndsCome'
  <2>1. port = None /\ UNCHANGED <<cdcQ, pc, handle, serial, msc, missed>>
    BY <1>2 DEF Plug, WorldMoves, task
  <2>2. port' \in Devices
    BY <1>2, UsbAssumption DEF Plug, Devices, TypeOK
  <2>3. mscQ' = mscQ \/ \E e \in Events : mscQ' = Append(mscQ, e)
    BY <1>2, <2>2, EventsTyped DEF Plug
  <2>4. ASSUME NEW d, EndComes(mscQ, d)
        PROVE  d \notin {None, port'} \cup missed' => \E i \in DOMAIN mscQ' : mscQ'[i] = Detached(d)
    BY <1>0, <2>1, <2>3, <2>4, EndStays
  <2> QED
    BY <2>1, <2>4 DEF EndsCome, EndComes
<1>3. CASE MscConnected
  <2>1. mscQ # <<>> /\ mscQ' = Tail(mscQ) /\ UNCHANGED <<port, cdcQ, pc, handle, serial, msc, missed>>
    BY <1>3 DEF MscConnected, task, past
  <2>2. \A d : Head(mscQ) # Detached(d)
    BY <1>3 DEF MscConnected, Detached
  <2>3. ASSUME NEW d, EndComes(mscQ, d)
        PROVE  d \notin {None, port'} \cup missed' => \E i \in DOMAIN mscQ' : mscQ'[i] = Detached(d)
    BY <1>0, <2>1, <2>2, <2>3, EndNotPopped
  <2> QED
    BY <2>1, <2>3 DEF EndsCome, EndComes
<1>4. CASE CloseMsc
  <2>1. /\ mscQ # <<>> /\ mscQ' = Tail(mscQ) /\ msc' = None
        /\ UNCHANGED <<port, cdcQ, pc, handle, serial>> /\ missed \subseteq missed'
    BY <1>4 DEF CloseMsc, Misses, task
  <2>2. pc = "publishMsc" /\ Head(mscQ) = Detached(handle) => handle \in missed'
    BY <1>4 DEF CloseMsc, Misses, Detached
  <2>3. (pc = "publishMsc" => EndComes(mscQ, handle))'
    BY <1>0, <2>1, <2>2, EndNotPopped DEF EndsCome, EndComes
  <2> QED
    BY <2>1, <2>3 DEF EndsCome, EndComes
<1>5. CASE CloseSerial
  <2>1. /\ cdcQ # <<>> /\ cdcQ' = Tail(cdcQ) /\ serial' = None
        /\ UNCHANGED <<port, mscQ, pc, handle, msc>> /\ missed \subseteq missed'
    BY <1>5 DEF CloseSerial, Misses, task
  <2>2. pc = "publishSerial" /\ Head(cdcQ) = Detached(handle) => handle \in missed'
    BY <1>5 DEF CloseSerial, Misses, Detached
  <2>3. (pc = "publishSerial" => EndComes(cdcQ, handle))'
    BY <1>0, <2>1, <2>2, EndNotPopped DEF EndsCome, EndComes
  <2> QED
    BY <2>1, <2>3 DEF EndsCome, EndComes
<1>6. CASE ClientTask \/ UNCHANGED vars
  BY <1>6 DEF ClientTask, OnNewDevice, OnDeviceGone, vars, task, past, EndsCome, EndComes
<1>7. CASE SerialTask
  <2>1. UNCHANGED <<port, cdcQ, mscQ, missed>>
    BY <1>7 DEF SerialTask, TakeNotification, Choose, ReadAddress, ClearAddress, OpenMsc, Fails,
                PublishMsc, CheckSerial, OpenSerial, PublishSerial, rest, queues, past
  <2>2. /\ serial' = serial \/ (pc = "publishSerial" /\ serial' = handle)
        /\ msc' = msc \/ (pc = "publishMsc" /\ msc' = handle)
        /\ pc' \in {"publishSerial", "publishMsc"} => handle' = port
    BY <1>7 DEF SerialTask, TakeNotification, Choose, ReadAddress, ClearAddress, OpenMsc, Fails,
                PublishMsc, CheckSerial, OpenSerial, PublishSerial
  <2> QED
    BY <2>1, <2>2 DEF EndsCome, EndComes
<1> QED
  BY <1>1, <1>2, <1>3, <1>4, <1>5, <1>6, <1>7 DEF Next, World, MscTask

LEMMA UsbStep == UInv /\ [Next]_vars => UInv'
<1> SUFFICES ASSUME UInv, [Next]_vars PROVE UInv'
  OBVIOUS
<1>1. TypeOK' /\ PendingIsSeen' /\ EndsCome'
  BY UsbTypes, PendingStep, EndsStep DEF UInv
<1>2. Orderly' => Shapes'
  BY ShapesStep DEF UInv
<1>3. smooth' => Orderly' /\ OnTheWay'
  BY WayStep, SmoothIsOrderly DEF UInv
<1> QED
  BY <1>1, <1>2, <1>3 DEF UInv

LEMMA UsbInvariance == Spec => []UInv
  BY UsbStarts, UsbStep, PTL DEF Spec

(* closeSerial, closeMsc and the publishing stores: whenever its device     *)
(* leaves, and however hastily targets come and go, a session is not       *)
(* forgotten, unless its disconnect was handled before it was stored.      *)
THEOREM SessionsEnd == Spec => []EndIsOnItsWay
<1>1. UInv => EndIsOnItsWay
  BY DEF UInv, EndsCome, EndComes, EndIsOnItsWay, Detached
<1> QED
  BY <1>1, UsbInvariance, PTL

(* onNewDevice, mscEventCb and the serial task: whatever is plugged in,    *)
(* and at whatever address, has its session when everything has settled,   *)
(* as long as targets come and go while nothing else is under way.         *)
THEOREM AttachedServed == Spec => []AttachedIsServed
<1>1. UInv => AttachedIsServed
  BY DEF UInv, Shapes, ClientQueue, OnTheWay, NothingToDo, SerialComes, MscComes,
         AttachedIsServed, Served, AtRest, Drained
<1> QED
  BY <1>1, UsbInvariance, PTL

(* ---------------------------- the requests ----------------------------- *)

(* Where a request is between its look at the target and its deed. *)
Midway == {"special", "routine", "again", "branch", "choose", "bridgeLines", "jtagLines",
           "report", "picoboot"}
InDeed == {"bridgeLines", "jtagLines", "report", "picoboot"}
TouchedOnce == req.at = "wait" \/ (req.at = "touch" /\ req.attempt > 1)

LookSteps == {"state", "copy", "storage", "picoboot", "session"}

SomeDeeds == SUBSET [what : Deeds, on : AllKinds \cup {"nobody"}, again : BOOLEAN]
Requests ==
  [at : Midway \cup {"idle", "consult", "touch", "wait"}, mode : Modes,
   how : Deeds \cup {"there", "none"}, attempt : Nat \ {0},
   deeds : SomeDeeds,
   answer : {"none", "200", "409", "502"}, noted : {"none", "announced", "failed"},
   look : {"done"} \cup LookSteps, seen : Devices \cup {None}]

(* Which deeds belong to which request. *)
ModeFits ==
  /\ req.at \in {"routine", "picoboot"} => req.mode = "Run"
  /\ req.at \in {"report", "touch", "wait"} => req.mode = "Bootloader"

(* Until the answer nothing but the first touch has been done. *)
Unanswered ==
  /\ req.at # "idle" => req.answer = "none" /\ req.noted # "failed"
  /\ req.at # "idle" /\ req.noted = "announced" => req.how # "none"
  /\ req.at \in Midway \cup {"consult"} \/ (req.at = "touch" /\ req.attempt = 1)
       => req.deeds = {} /\ req.attempt = 1
  /\ TouchedOnce => {d.what : d \in req.deeds} = {"touch"}
  /\ TouchedOnce /\ req.noted = "announced" => req.how = "touch"

Looking == req.at \in Midway \/ (req.at = "touch" /\ req.attempt = 1)
Chosen  == req.at \in InDeed \/ (req.at = "touch" /\ req.attempt = 1)

(* What was announced is the way for whatever is still there of the target *)
(* that was looked at.                                                     *)
AnnouncedFits ==
  Looking /\ req.noted = "announced" =>
    /\ \A a \in Named : Way(a.kind, req.mode) = req.how
    /\ req.at = "choose" /\ req.seen # None => Way(req.seen.kind, req.mode) = req.how

(* From the first look on nobody new is on the port. *)
Asking    == req.at \in {"consult", "again"}
Holding   == (Asking /\ req.look \in LookSteps \ {"state", "copy"}) \/ req.at = "choose"
LookFits ==
  /\ Asking <=> req.look # "done"
  /\ (Asking /\ req.look # "state") \/ Chosen \/ req.at \in {"branch", "choose"}
       => port \in {None, info}
  /\ req.look = "picoboot" => req.mode = "Run"
  /\ req.look = "session" => req.seen # None /\ req.seen.kind \in SerialKinds

(* The copy is of whatever is still there. *)
CopyFits ==
  Holding => /\ info \in {None, req.seen}
             /\ req.seen # None => \A a \in Named : a = req.seen

(* The second look found a way, and the choice of the deed followed it. *)
BranchFits ==
  /\ req.at = "branch" /\ info # None => Way(info.kind, req.mode) # "none"
  /\ req.at = "choose" /\ req.seen # None => Way(req.seen.kind, req.mode) # "none"
DeedFits ==
  Chosen /\ info # None => Way(info.kind, req.mode) = req.at

(* What has to be said of the way out of a CH32V003's boot loader. *)
NotARoutine ==
  req.mode = "Run" =>
    /\ req.at \in {"again", "branch", "choose"} /\ info # None => info.kind # "HidBootloader"
    /\ req.at = "choose" /\ req.seen # None => req.seen.kind # "HidBootloader"

RInv ==
  /\ Orderly /\ UInv /\ mix \in Mixes /\ req \in Requests
  /\ ModeFits /\ Unanswered /\ AnnouncedFits /\ LookFits /\ CopyFits
  /\ BranchFits /\ DeedFits /\ NotARoutine
  /\ DeedFitsTarget /\ NoContraryDeed /\ AnnouncedIsDeed

(* While nothing was hasty; the sessions are looked after in any case. *)
QInv == UInv /\ mix \in Mixes /\ (Orderly => RInv)

LEMMA RequestsStart == ResetInit => QInv
<1> SUFFICES ASSUME ResetInit PROVE QInv
  OBVIOUS
<1>1. UInv
  BY UsbStarts DEF ResetInit
<1>2. req = NoRequest /\ mix \in Mixes
  BY DEF ResetInit
<1>3. req \in Requests
  BY <1>2 DEF NoRequest, Requests, Modes, SomeDeeds
<1>4. Orderly => RInv
  BY <1>1, <1>2, <1>3
  DEF RInv, NoRequest, ModeFits, Unanswered, AnnouncedFits, LookFits, CopyFits, BranchFits, DeedFits,
      NotARoutine, Asking, Holding, Looking, Chosen, TouchedOnce, Midway, InDeed, LookSteps,
      DeedFitsTarget, NoContraryDeed, AnnouncedIsDeed, Orderly
<1> QED
  BY <1>1, <1>2, <1>4 DEF QInv

(* A request only ever adds to what UsbTarget does. *)
LEMMA ResetStepIsUsb == mix \in Mixes /\ [ResetNext]_resetVars => [Next]_vars
<1> SUFFICES ASSUME mix \in Mixes, [ResetNext]_resetVars PROVE [Next]_vars
  OBVIOUS
<1>1. CASE Plugs
  <2>1. mix \subseteq Kinds
    BY ResetAssumption
  <2>2. World
    BY <1>1, <2>1 DEF Plugs, World
  <2> QED
    BY <2>2 DEF Next
<1>2. CASE Client \/ Storage \/ Hangup \/ Opening
  BY <1>2 DEF Client, Enumerated, Storage, Hangup, Opening, Next, ClientTask
<1>3. CASE Handler
  BY <1>3 DEF Handler, usb
<1>4. CASE \E m \in Modes : Request(m)
  BY <1>4 DEF Request, usb
<1>5. CASE UNCHANGED resetVars
  BY <1>5 DEF resetVars
<1> QED
  BY <1>1, <1>2, <1>3, <1>4, <1>5 DEF ResetNext

(* ------------------------ while the target moves ----------------------- *)

(* Between two reads of a request a target may leave, but none may come. *)
LEMMA TargetsOnlyLeave ==
  ASSUME UInv, Orderly,
         Unplug \/ OnDeviceGone \/ MscTask \/ CloseSerial \/ SerialTask \/ UNCHANGED vars
  PROVE  /\ Named' \subseteq Named
         /\ info' \in {None, info}
         /\ port \in {None, info} => port' \in {None, info'}
<1>1. Shapes
  BY DEF UInv
<1>2. CASE Unplug
  BY <1>2 DEF Unplug, Named
<1>3. CASE OnDeviceGone
  BY <1>1, <1>3 DEF Shapes, ClientQueue, OnDeviceGone, Attached, Named
<1>4. CASE MscTask \/ CloseSerial
  BY <1>4 DEF MscTask, MscConnected, CloseMsc, CloseSerial, Named
<1>5. CASE SerialTask
  BY <1>1, <1>5 DEF Shapes, OpenedIsThere, SerialTask, TakeNotification, Choose, ReadAddress,
     ClearAddress, OpenMsc, PublishMsc, CheckSerial, OpenSerial, PublishSerial, rest, Named
<1>6. CASE UNCHANGED vars
  BY <1>6 DEF vars, Named
<1> QED
  BY <1>2, <1>3, <1>4, <1>5, <1>6

(* So what a request knows of its target stays true. *)
LEMMA KnowledgeStays ==
  ASSUME RInv, Orderly', ~SwapMidway,
         Plugs \/ Client \/ Storage \/ Hangup \/ Opening \/ UNCHANGED resetVars
  PROVE  RInv'
<1>1. UNCHANGED <<mix, req>>
  BY DEF Plugs, Client, Enumerated, Storage, Hangup, Opening, rest2, resetVars
<1>2. UInv'
  BY UsbStep, ResetStepIsUsb DEF RInv, ResetNext
<1>3. mix' \in Mixes /\ req' \in Requests /\ ModeFits' /\ Unanswered'
  BY <1>1 DEF RInv, ModeFits, Unanswered, TouchedOnce
<1>4. DeedFitsTarget' /\ NoContraryDeed' /\ AnnouncedIsDeed'
  BY <1>1 DEF RInv, Orderly, DeedFitsTarget, NoContraryDeed, Asked, AnnouncedIsDeed
<1> DEFINE Swapping == req.at \in {"idle", "wait"} \/ (req.at = "consult" /\ req.look = "state")
<1>5. CASE Swapping
  <2>1. ~Looking /\ ~Chosen /\ ~Holding /\ req.at \notin {"again", "branch", "choose"}
        /\ ~(Asking /\ req.look # "state") /\ (Asking <=> req.look # "done")
        /\ req.look \notin {"picoboot", "session"}
    BY <1>5 DEF RInv, LookFits, Looking, Chosen, Holding, Asking, Midway, InDeed, LookSteps
  <2>2. AnnouncedFits' /\ LookFits' /\ CopyFits' /\ BranchFits' /\ DeedFits' /\ NotARoutine'
    BY <1>1, <2>1 DEF AnnouncedFits, LookFits, CopyFits, BranchFits, DeedFits, NotARoutine,
                      Looking, Chosen, Holding, Asking
  <2> QED
    BY <1>2, <1>3, <1>4, <2>2 DEF RInv
<1>6. CASE ~Swapping
  <2>1. /\ Named' \subseteq Named
        /\ info' \in {None, info}
        /\ port \in {None, info} => port' \in {None, info'}
    BY <1>6, TargetsOnlyLeave
    DEF RInv, Plugs, Client, Enumerated, Swaps, Storage, Hangup, Opening, resetVars
  <2>2. AnnouncedFits'
    BY <1>1, <2>1 DEF RInv, AnnouncedFits, Looking
  <2>3. LookFits' /\ CopyFits'
    BY <1>1, <2>1 DEF RInv, LookFits, CopyFits, Asking, Holding, Chosen
  <2>4. BranchFits' /\ DeedFits' /\ NotARoutine'
    BY <1>1, <2>1 DEF RInv, BranchFits, DeedFits, NotARoutine, Chosen
  <2> QED
    BY <1>2, <1>3, <1>4, <2>2, <2>3, <2>4 DEF RInv
<1> QED
  BY <1>5, <1>6

(* ------------------------ while the handler moves ---------------------- *)

(* A deed has its type, and is what was chosen. *)
LEMMA DeedTyped ==
  ASSUME UInv, req \in Requests, NEW what \in Deeds, NEW dev
  PROVE  /\ Deed(what, dev) \in [what : Deeds, on : AllKinds \cup {"nobody"}, again : BOOLEAN]
         /\ Deed(what, dev).what = what
         /\ Deed(what, dev).on = "nobody" \/ (port # None /\ Deed(what, dev).on = port.kind)
         /\ Deed(what, dev).again = (req.attempt > 1)
<1>1. dev # None /\ dev = port => dev.kind \in AllKinds
  BY UsbAssumption DEF UInv, TypeOK, Devices
<1>2. (req.attempt > 1) \in BOOLEAN
  BY DEF Requests
<1> QED
  BY <1>1, <1>2 DEF Deed

(* A step of the handler leaves the targets alone. *)
LEMMA StandsStill ==
  ASSUME RInv, UNCHANGED <<usb, asked>>
  PROVE  Orderly' /\ UInv' /\ mix' \in Mixes /\ UNCHANGED <<info, port, Named>>
BY UsbStep DEF RInv, Orderly, usb, vars, past, Named

(* An answer is well founded if the deeds behind it are. *)
LEMMA AnswerKeeps ==
  ASSUME RInv, UNCHANGED <<usb, asked>>, req.at # "idle",
         NEW a \in {"200", "409", "502"}, NEW D \in SomeDeeds, Ends(a, D),
         \A d \in D : (d.again \/ Fits(d)) /\ Asked(d),
         a = "200" /\ req.noted = "announced" => {d.what : d \in D} = {req.how} \ {"there"}
  PROVE  RInv'
<1>0. req \in Requests
  BY DEF RInv
<1>1. /\ req' \in Requests
      /\ req'.at = "idle" /\ req'.mode = req.mode /\ req'.how = req.how
      /\ req'.deeds = D /\ req'.answer = a /\ req'.look = "done"
      /\ req'.noted = "announced" => req.noted = "announced"
  <2> DEFINE n == IF a = "409" /\ req.noted = "announced" THEN "failed" ELSE req.noted
  <2>1. n \in {"none", "announced", "failed"} /\ (n = "announced" => req.noted = "announced")
    BY <1>0 DEF Requests
  <2>2. req' = [req EXCEPT !.at = "idle", !.look = "done", !.seen = None,
                           !.answer = a, !.deeds = D, !.noted = n]
    BY <1>0 DEF Ends, Requests
  <2> HIDE DEF n
  <2> QED
    BY <1>0, <2>1, <2>2 DEF Requests
<1>2. Orderly' /\ UInv' /\ mix' \in Mixes
  BY StandsStill
<1>3. DeedFitsTarget' /\ NoContraryDeed'
  BY <1>1 DEF DeedFitsTarget, NoContraryDeed, Asked, Fits
<1>4. AnnouncedIsDeed'
  BY <1>1 DEF AnnouncedIsDeed
<1> QED
  BY <1>1, <1>2, <1>3, <1>4
  DEF RInv, ModeFits, Unanswered, AnnouncedFits, LookFits, CopyFits, BranchFits, DeedFits,
      NotARoutine, Asking, Holding, Looking, Chosen, TouchedOnce, Midway, InDeed

(* The deed that was chosen, done to what is attached or to nobody. *)
LEMMA DeedKeeps ==
  ASSUME RInv, UNCHANGED <<usb, asked>>, NEW what \in InDeed, req.at = what, info # None,
         NEW dev, DoneOrNot(what, dev)
  PROVE  RInv'
<1> DEFINE d == Deed(what, dev)
<1>1. req.deeds = {} /\ req.attempt = 1 /\ req \in Requests /\ what \in Deeds
  BY DEF RInv, Unanswered, Midway, InDeed, Deeds
<1>2. Does(what, dev) = {d}
  BY <1>1 DEF Does
<1>3. /\ d \in [what : Deeds, on : AllKinds \cup {"nobody"}, again : BOOLEAN]
      /\ d.what = what
      /\ d.on = "nobody" \/ (port # None /\ d.on = port.kind)
  BY <1>1, DeedTyped DEF RInv
<1>4. req.mode \in Modes /\ port \in {None, info} /\ Way(info.kind, req.mode) = what
  BY <1>1 DEF RInv, LookFits, DeedFits, Chosen, Requests
<1>5. Fits(d)
  BY <1>3, <1>4 DEF Fits
<1>6. Asked(d)
  <2>1. info.kind \in AllKinds
    BY UsbAssumption DEF RInv, UInv, TypeOK, Devices
  <2> QED
    BY <1>3, <1>4, <2>1 DEF Asked
<1>7. req.noted = "announced" => req.how = what
  BY <1>4 DEF RInv, AnnouncedFits, Looking, Midway, InDeed, Named
<1>8. {x.what : x \in {d}} = {what} /\ {what} = {what} \ {"there"}
  BY <1>3 DEF InDeed
<1>9. {d} \in SomeDeeds
  BY <1>3 DEF SomeDeeds
<1> HIDE DEF d
<1>10. PICK a \in {"200", "409"} : Ends(a, {d})
  BY <1>2 DEF DoneOrNot
<1> QED
  BY <1>5, <1>6, <1>7, <1>8, <1>9, <1>10, AnswerKeeps DEF InDeed

(* An answer that adds nothing to what was done. *)
LEMMA NothingMoreDone ==
  ASSUME RInv, UNCHANGED <<usb, asked>>, req.at # "idle",
         NEW a \in {"200", "409", "502"}, Answers(a),
         a = "200" /\ req.noted = "announced" => {d.what : d \in req.deeds} = {req.how} \ {"there"}
  PROVE  RInv'
<1>1. req.deeds \in SomeDeeds /\ \A d \in req.deeds : (d.again \/ Fits(d)) /\ Asked(d)
  BY DEF RInv, Orderly, Requests, DeedFitsTarget, NoContraryDeed
<1> QED
  BY <1>1, AnswerKeeps DEF Answers

(* ------------------------------- step by step -------------------------- *)

LEMMA RequestKeeps == ASSUME RInv, NEW m \in Modes, Request(m) PROVE RInv'
<1>1. Orderly' /\ UInv' /\ mix' \in Mixes
  BY UsbStep DEF RInv, Request, usb, vars, past, Orderly
<1>2. /\ req'.at = "consult" /\ req'.mode = m /\ req'.how = "none" /\ req'.attempt = 1
      /\ req'.deeds = {} /\ req'.answer = "none" /\ req'.noted = "none"
      /\ req'.look = "state" /\ req' \in Requests
  <2>1. req' = [at |-> "consult", mode |-> m, how |-> "none", attempt |-> 1,
                deeds |-> {}, answer |-> "none", noted |-> "none",
                look |-> "state", seen |-> None]
    BY DEF Request, NoRequest
  <2>2. 1 \in Nat \ {0} /\ {} \in SomeDeeds
    BY DEF SomeDeeds
  <2> QED
    BY <2>1, <2>2 DEF Requests, LookSteps
<1> QED
  BY <1>1, <1>2
  DEF RInv, ModeFits, Unanswered, AnnouncedFits, LookFits, CopyFits, BranchFits, DeedFits,
      NotARoutine, Asking, Holding, Looking, Chosen, TouchedOnce, Midway, InDeed, LookSteps,
      DeedFitsTarget, NoContraryDeed, AnnouncedIsDeed

(* A look goes on to the next one, and knows a little more. *)
LEMMA LooksKeep ==
  ASSUME RInv, UNCHANGED <<usb, asked>>, Asking, req' \in Requests, req'.look \in LookSteps,
         req' = [req EXCEPT !.look = req'.look, !.seen = req'.seen],
         LookFits', CopyFits'
  PROVE  RInv'
<1>1. Orderly' /\ UInv' /\ mix' \in Mixes /\ UNCHANGED <<info, port, Named>>
  BY StandsStill
<1>2. UNCHANGED <<req.at, req.mode, req.how, req.deeds, req.attempt, req.answer, req.noted>>
  BY DEF RInv, Requests
<1>3. ModeFits' /\ Unanswered'
  BY <1>2 DEF RInv, ModeFits, Unanswered, TouchedOnce
<1>4. AnnouncedFits' /\ BranchFits' /\ DeedFits' /\ NotARoutine'
  BY <1>1, <1>2 DEF RInv, AnnouncedFits, BranchFits, DeedFits, NotARoutine, Asking, Looking, Chosen,
     Midway, InDeed
<1>5. DeedFitsTarget' /\ NoContraryDeed'
  BY <1>1, <1>2 DEF RInv, Orderly, DeedFitsTarget, NoContraryDeed, Asked
<1>6. AnnouncedIsDeed'
  BY <1>2 DEF RInv, Unanswered, Asking, AnnouncedIsDeed
<1> QED
  BY <1>1, <1>3, <1>4, <1>5, <1>6 DEF RInv

(* The handler goes on to its next step, for a target it has looked at.    *)
LEMMA StepsOn ==
  ASSUME RInv, UNCHANGED <<usb, asked>>, req.at \in {"special", "again", "branch", "choose"},
         req' \in Requests,
         UNCHANGED <<req.mode, req.how, req.attempt, req.deeds, req.answer, req.noted>>,
         req'.at \in {"routine", "again", "branch", "choose", "touch"} \cup InDeed,
         ModeFits', LookFits', CopyFits', BranchFits', DeedFits', NotARoutine',
         req'.at = "choose" /\ req'.seen # None => req'.seen \in Named
  PROVE  RInv'
<1>1. Orderly' /\ UInv' /\ mix' \in Mixes /\ UNCHANGED <<info, port, Named>>
  BY StandsStill
<1>2. req.deeds = {} /\ req.attempt = 1 /\ req.answer = "none" /\ req.noted # "failed"
      /\ (req.noted = "announced" => req.how # "none")
  BY DEF RInv, Unanswered, Midway
<1>3. Unanswered'
  BY <1>2 DEF Unanswered, TouchedOnce, Midway, InDeed
<1>4. AnnouncedFits'
  BY <1>1, <1>2 DEF RInv, AnnouncedFits, Looking, Midway, InDeed
<1>5. DeedFitsTarget' /\ NoContraryDeed' /\ AnnouncedIsDeed'
  BY <1>2 DEF DeedFitsTarget, NoContraryDeed, AnnouncedIsDeed
<1> QED
  BY <1>1, <1>3, <1>4, <1>5 DEF RInv

(* What resetSupport() finds is the way for what is attached. *)
LEMMA FindsKeeps ==
  ASSUME RInv, UNCHANGED <<usb, asked>>, Asking,
         NEW how \in Deeds \cup {"there", "none"}, Finds(how),
         how # "none" => port \in {None, info} /\ \A a \in Named : Way(a.kind, req.mode) = how
  PROVE  RInv'
<1>1. Orderly' /\ UInv' /\ mix' \in Mixes /\ UNCHANGED <<info, port, Named>>
  BY StandsStill
<1>2. req \in Requests /\ None \in Devices \cup {None}
  BY DEF RInv
<1>3. req.deeds = {} /\ req.attempt = 1 /\ req.answer = "none"
  BY DEF RInv, Unanswered, Asking, Midway
<1>4. CASE req.at = "consult"
  <2>1. /\ req'.at = "special" /\ req'.mode = req.mode /\ req'.how = how
        /\ req'.deeds = {} /\ req'.attempt = 1 /\ req'.answer = "none"
        /\ req'.noted = "announced" => how # "none"
        /\ req'.noted # "failed" /\ req'.look = "done"
        /\ req' \in Requests
    <3> DEFINE n == IF how # "none" THEN "announced" ELSE "none"
    <3>1. n \in {"none", "announced"} /\ (n = "announced" => how # "none")
      OBVIOUS
    <3>2. req' = [req EXCEPT !.at = "special", !.look = "done", !.seen = None, !.how = how,
                             !.noted = n]
      BY <1>4 DEF Finds
    <3> HIDE DEF n
    <3> QED
      BY <1>2, <1>3, <3>1, <3>2 DEF Requests, Midway
  <2>2. ModeFits' /\ Unanswered' /\ LookFits' /\ CopyFits' /\ BranchFits' /\ DeedFits' /\ NotARoutine'
    BY <2>1 DEF ModeFits, Unanswered, LookFits, CopyFits, BranchFits, DeedFits, NotARoutine,
                Asking, Holding, Chosen, TouchedOnce, InDeed, LookSteps
  <2>3. AnnouncedFits'
    BY <1>1, <2>1 DEF AnnouncedFits
  <2>4. DeedFitsTarget' /\ NoContraryDeed' /\ AnnouncedIsDeed'
    BY <2>1 DEF DeedFitsTarget, NoContraryDeed, AnnouncedIsDeed
  <2> QED
    BY <1>1, <2>1, <2>2, <2>3, <2>4 DEF RInv
<1>5. CASE req.at = "again" /\ how = "none"
  BY <1>5, NothingMoreDone DEF Finds
<1>6. CASE req.at = "again" /\ how # "none"
  <2>1. /\ req'.at = "branch" /\ req'.look = "done" /\ req' \in Requests
        /\ UNCHANGED <<req.mode, req.how, req.attempt, req.deeds, req.answer, req.noted>>
    <3>1. req' = [req EXCEPT !.at = "branch", !.look = "done", !.seen = None]
      BY <1>2, <1>6 DEF Finds
    <3> QED
      BY <1>2, <3>1 DEF Requests, Midway
  <2>2. ModeFits' /\ LookFits' /\ CopyFits' /\ DeedFits'
    BY <1>1, <1>6, <2>1 DEF ModeFits, LookFits, CopyFits, DeedFits, Asking, Holding, Chosen, InDeed,
       LookSteps
  <2>3. NotARoutine'
    BY <1>1, <1>6, <2>1 DEF RInv, NotARoutine
  <2>4. BranchFits'
    BY <1>1, <1>6, <2>1 DEF BranchFits, Named
  <2> QED
    BY <1>6, <2>1, <2>2, <2>3, <2>4, StepsOn
<1> QED
  BY <1>4, <1>5, <1>6 DEF Asking

LEMMA ResetSupportKeeps ==
  ASSUME RInv, ResetSupport, UNCHANGED <<usb, asked>> PROVE RInv'
<1>1. /\ req \in Requests /\ req.mode \in Modes /\ Shapes /\ Asking
      /\ UNCHANGED <<info, port, Named>>
  BY StandsStill DEF RInv, UInv, Requests, ResetSupport, LookState, LookCopy, LookStorage,
     LookPicoboot, LookSession, LookFits
<1>2. info \in Devices \cup {None}
  BY DEF RInv, UInv, TypeOK
<1>3. \A k : Way(k, req.mode) \in Deeds \cup {"there", "none"}
  BY <1>1 DEF Way, Deeds
<1>4. CASE LookState
  <2>1. CASE info = None
    BY <1>1, <1>4, <2>1, FindsKeeps DEF LookState
  <2>2. CASE info # None
    <3>1. req' = [req EXCEPT !.look = "copy"]
      BY <1>4, <2>2 DEF LookState, Looks
    <3>2. req' \in Requests /\ req'.look = "copy" /\ req'.seen = req.seen /\ req'.at = req.at
      BY <1>1, <3>1 DEF Requests, LookSteps
    <3>3. port \in {None, info}
      BY <1>1, <2>2 DEF Shapes, OneTarget, Named
    <3>4. LookFits' /\ CopyFits'
      BY <1>1, <3>2, <3>3 DEF LookFits, CopyFits, Asking, Holding, Chosen, InDeed, LookSteps
    <3>5. req' = [req EXCEPT !.look = req'.look, !.seen = req'.seen]
      BY <1>1, <3>1 DEF Requests
    <3> QED
      BY <1>1, <3>2, <3>4, <3>5, LooksKeep DEF LookSteps
  <2> QED
    BY <2>1, <2>2
<1>5. CASE LookCopy
  <2>1. req' \in Requests /\ req'.look = "storage" /\ req'.seen = info /\ req'.at = req.at
    BY <1>1, <1>2, <1>5 DEF LookCopy, Requests, LookSteps
  <2>2. info # None => \A a \in Named : a = info
    BY <1>1 DEF Shapes, OneTarget, Named
  <2>3. port \in {None, info}
    BY <1>1, <1>5 DEF RInv, LookFits, LookCopy
  <2>4. LookFits' /\ CopyFits'
    BY <1>1, <2>1, <2>2, <2>3 DEF LookFits, CopyFits, Asking, Holding, Chosen, InDeed, LookSteps
  <2>5. req' = [req EXCEPT !.look = req'.look, !.seen = req'.seen]
    BY <1>5, <2>1 DEF LookCopy
  <2> QED
    BY <1>1, <2>1, <2>4, <2>5, LooksKeep DEF LookSteps
<1>6. CASE LookStorage
  <2>1. /\ port \in {None, info} /\ info \in {None, req.seen} /\ req.look = "storage"
        /\ req.seen # None => \A a \in Named : a = req.seen
    BY <1>1, <1>6 DEF RInv, LookStorage, LookFits, CopyFits, Holding, LookSteps
  <2>2. CASE (msc # None \/ KindOf(req.seen) \in StorageKinds) /\ req.mode = "Bootloader"
    <3>1. \A a \in Named : a.kind \in StorageKinds
      <4>1. CASE msc # None
        BY <1>1, <4>1 DEF Shapes, OneTarget, OpenedIsThere, Named
      <4>2. CASE KindOf(req.seen) \in StorageKinds
        BY <2>1, <4>2 DEF KindOf, StorageKinds
      <4> QED
        BY <2>2, <4>1, <4>2
    <3>2. \A a \in Named : Way(a.kind, req.mode) = "there"
      BY <2>2, <3>1 DEF Way, StorageKinds
    <3> QED
      BY <1>1, <1>6, <2>1, <2>2, <3>2, FindsKeeps DEF LookStorage
  <2>3. CASE (msc # None \/ KindOf(req.seen) \in StorageKinds) /\ req.mode # "Bootloader"
    <3>1. req' = [req EXCEPT !.look = "picoboot"]
      BY <1>6, <2>3 DEF LookStorage, Looks
    <3>2. /\ req' \in Requests /\ req'.look = "picoboot"
          /\ UNCHANGED <<req.seen, req.at, req.mode>>
      BY <1>1, <3>1 DEF Requests, LookSteps
    <3>3. LookFits' /\ CopyFits'
      BY <1>1, <2>1, <2>3, <3>2
      DEF LookFits, CopyFits, Asking, Holding, Chosen, InDeed, LookSteps, Modes
    <3>4. req' = [req EXCEPT !.look = req'.look, !.seen = req'.seen]
      BY <1>1, <3>1 DEF Requests
    <3> QED
      BY <1>1, <3>2, <3>3, <3>4, LooksKeep DEF LookSteps
  <2>4. CASE ~(msc # None \/ KindOf(req.seen) \in StorageKinds) /\ KindOf(req.seen) \in SerialKinds
    <3>1. req' = [req EXCEPT !.look = "session"]
      BY <1>6, <2>4 DEF LookStorage, Looks
    <3>2. req' \in Requests /\ req'.look = "session" /\ req'.seen = req.seen /\ req'.at = req.at
      BY <1>1, <3>1 DEF Requests, LookSteps
    <3>3. req.seen # None /\ req.seen.kind \in SerialKinds
      BY <2>4 DEF KindOf, SerialKinds
    <3>4. LookFits' /\ CopyFits'
      BY <1>1, <2>1, <3>2, <3>3 DEF LookFits, CopyFits, Asking, Holding, Chosen, InDeed, LookSteps
    <3>5. req' = [req EXCEPT !.look = req'.look, !.seen = req'.seen]
      BY <1>1, <3>1 DEF Requests
    <3> QED
      BY <1>1, <3>2, <3>4, <3>5, LooksKeep DEF LookSteps
  <2>5. CASE ~(msc # None \/ KindOf(req.seen) \in StorageKinds) /\ KindOf(req.seen) \notin SerialKinds
    <3> DEFINE how == Way(KindOf(req.seen), req.mode)
    <3>1. Finds(how)
      BY <1>6, <2>5 DEF LookStorage
    <3>2. req.seen = None => how = "none"
      BY <1>1 DEF KindOf, Way, StorageKinds
    <3>3. how # "none" => \A a \in Named : Way(a.kind, req.mode) = how
      BY <2>1, <3>2 DEF KindOf
    <3> QED
      BY <1>1, <1>3, <2>1, <3>1, <3>3, FindsKeeps
  <2> QED
    BY <2>2, <2>3, <2>4, <2>5
<1>7. CASE LookPicoboot
  <2>1. HasPicoboot => \A a \in Named : a.kind = "Bootsel"
    BY <1>1 DEF HasPicoboot, Shapes, OneTarget, Named
  <2>2. req.mode = "Run" /\ port \in {None, info}
    BY <1>1, <1>7 DEF RInv, ModeFits, LookFits, LookPicoboot
  <2>3. Way("Bootsel", "Run") = "picoboot"
    BY DEF Way
  <2>4. CASE HasPicoboot
    BY <1>1, <1>7, <2>1, <2>2, <2>3, <2>4, FindsKeeps DEF LookPicoboot, Deeds
  <2>5. CASE ~HasPicoboot
    BY <1>1, <1>7, <2>5, FindsKeeps DEF LookPicoboot
  <2> QED
    BY <2>4, <2>5
<1>8. CASE LookSession
  <2>1. /\ port \in {None, info} /\ req.seen # None
        /\ \A a \in Named : a = req.seen
    BY <1>1, <1>8 DEF RInv, LookSession, LookFits, CopyFits, Holding, LookSteps
  <2>2. CASE serial = None
    BY <1>1, <1>8, <2>2, FindsKeeps DEF LookSession
  <2>3. CASE serial # None
    <3>1. Finds(Way(req.seen.kind, req.mode))
      BY <1>8, <2>1, <2>3 DEF LookSession, KindOf
    <3> QED
      BY <1>1, <1>3, <2>1, <3>1, FindsKeeps
  <2> QED
    BY <2>2, <2>3
<1> QED
  BY <1>4, <1>5, <1>6, <1>7, <1>8 DEF ResetSupport

LEMMA SpecialKeeps ==
  ASSUME RInv, Special, UNCHANGED <<usb, asked>> PROVE RInv'
<1>1. /\ req \in Requests /\ req.at = "special" /\ req.look = "done"
      /\ UNCHANGED <<info, port, Named>>
  BY StandsStill DEF RInv, Special, LookFits, Asking
<1>2. CASE req.mode = "Run" /\ info # None /\ info.kind = "HidBootloader"
  <2>1. /\ req'.at = "routine" /\ req'.look = "done" /\ req' \in Requests
        /\ UNCHANGED <<req.mode, req.how, req.attempt, req.deeds, req.answer, req.noted>>
    <3>1. req' = [req EXCEPT !.at = "routine", !.seen = None]
      BY <1>1, <1>2 DEF Special, Goes
    <3> QED
      BY <1>1, <3>1 DEF Requests, Midway
  <2>2. ModeFits' /\ LookFits' /\ CopyFits' /\ BranchFits' /\ DeedFits' /\ NotARoutine'
    BY <1>1, <1>2, <2>1 DEF ModeFits, LookFits, CopyFits, BranchFits, DeedFits, NotARoutine,
       Asking, Holding, Chosen, InDeed, LookSteps
  <2> QED
    BY <1>1, <2>1, <2>2, StepsOn
<1>3. CASE ~(req.mode = "Run" /\ info # None /\ info.kind = "HidBootloader")
  <2>1. /\ req'.at = "again" /\ req'.look = "state" /\ req' \in Requests
        /\ UNCHANGED <<req.mode, req.how, req.attempt, req.deeds, req.answer, req.noted>>
    <3>1. req' = [req EXCEPT !.at = "again", !.look = "state"]
      BY <1>1, <1>3 DEF Special
    <3> QED
      BY <1>1, <3>1 DEF Requests, Midway, LookSteps
  <2>2. ModeFits' /\ LookFits' /\ CopyFits' /\ BranchFits' /\ DeedFits' /\ NotARoutine'
    BY <1>1, <1>3, <2>1 DEF ModeFits, LookFits, CopyFits, BranchFits, DeedFits, NotARoutine,
       Asking, Holding, Chosen, InDeed, LookSteps
  <2> QED
    BY <1>1, <2>1, <2>2, StepsOn
<1> QED
  BY <1>2, <1>3

LEMMA RoutineKeeps ==
  ASSUME RInv, Routine, UNCHANGED <<usb, asked>> PROVE RInv'
<1>1. /\ req \in Requests /\ req.at = "routine" /\ req.mode = "Run"
      /\ req.deeds = {} /\ req.attempt = 1
  BY DEF RInv, Routine, ModeFits, Unanswered, Midway
<1>2. CASE Answers("502")
  BY <1>1, <1>2, NothingMoreDone
<1>3. CASE HasHid /\ info.kind = "HidBootloader" /\ Ends("200", Does("routine", info))
  <2> DEFINE d == Deed("routine", info)
  <2>1. Does("routine", info) = {d}
    BY <1>1 DEF Does
  <2>2. d \in [what : Deeds, on : AllKinds \cup {"nobody"}, again : BOOLEAN] /\ d.what = "routine"
    BY <1>1, DeedTyped DEF RInv, Deeds
  <2>3. d.on \in {"HidBootloader", "nobody"}
    BY <1>3 DEF Deed
  <2>4. Way("HidBootloader", "Run") = "routine" /\ "HidBootloader" \in AllKinds /\ "Run" \in Modes
    BY DEF Way, AllKinds, Modes
  <2>5. Fits(d) /\ Asked(d)
    BY <1>1, <2>2, <2>3, <2>4 DEF Fits, Asked
  <2>6. req.noted = "announced" => req.how = "routine"
    BY <1>1, <1>3, <2>4 DEF RInv, AnnouncedFits, Looking, Midway, Named, HasHid
  <2>7. {d} \in SomeDeeds /\ {x.what : x \in {d}} = {"routine"}
    BY <2>2 DEF SomeDeeds
  <2> HIDE DEF d
  <2>8. Ends("200", {d})
    BY <1>3, <2>1
  <2> QED
    BY <1>1, <2>5, <2>6, <2>7, <2>8, AnswerKeeps
<1> QED
  BY <1>2, <1>3 DEF Routine

LEMMA BranchCopyKeeps ==
  ASSUME RInv, BranchCopy, UNCHANGED <<usb, asked>> PROVE RInv'
<1>1. /\ req \in Requests /\ req.at = "branch" /\ req.look = "done" /\ Shapes
      /\ info \in Devices \cup {None} /\ UNCHANGED <<info, port, Named>>
  BY StandsStill DEF RInv, UInv, TypeOK, BranchCopy, LookFits, Asking
<1>2. /\ req'.at = "choose" /\ req'.look = "done" /\ req'.seen = info /\ req' \in Requests
      /\ UNCHANGED <<req.mode, req.how, req.attempt, req.deeds, req.answer, req.noted>>
  BY <1>1 DEF BranchCopy, Requests, Midway
<1>3. info # None => info \in Named /\ \A a \in Named : a = info
  BY <1>1 DEF Shapes, OneTarget, Named
<1>4. ModeFits' /\ LookFits' /\ CopyFits' /\ DeedFits'
  BY <1>1, <1>2, <1>3 DEF RInv, ModeFits, LookFits, CopyFits, DeedFits, Asking, Holding, Chosen,
     InDeed, LookSteps
<1>5. BranchFits' /\ NotARoutine'
  BY <1>1, <1>2 DEF RInv, BranchFits, NotARoutine
<1> QED
  BY <1>1, <1>2, <1>3, <1>4, <1>5, StepsOn

(* A deed is chosen for the copy, which is of whatever is still there. *)
LEMMA ChoiceKeeps ==
  ASSUME RInv, UNCHANGED <<usb, asked>>, req.at = "choose",
         NEW at \in {"touch"} \cup InDeed, Goes(at),
         at = "picoboot" => req.mode = "Run",
         at \in {"report", "touch"} => req.mode = "Bootloader",
         req.seen # None => Way(req.seen.kind, req.mode) = at
  PROVE  RInv'
<1>1. /\ req \in Requests /\ req.look = "done" /\ UNCHANGED <<info, port, Named>>
      /\ port \in {None, info} /\ info \in {None, req.seen}
  BY StandsStill DEF RInv, LookFits, CopyFits, Asking, Holding
<1>2. /\ req'.at = at /\ req'.look = "done" /\ req' \in Requests
      /\ UNCHANGED <<req.mode, req.how, req.attempt, req.deeds, req.answer, req.noted>>
  BY <1>1 DEF Goes, Requests, Midway, InDeed
<1>3. ModeFits' /\ LookFits' /\ CopyFits' /\ BranchFits' /\ DeedFits' /\ NotARoutine'
  BY <1>1, <1>2 DEF ModeFits, LookFits, CopyFits, BranchFits, DeedFits, NotARoutine,
     Asking, Holding, Chosen, InDeed, LookSteps
<1> QED
  BY <1>1, <1>2, <1>3, StepsOn DEF InDeed

LEMMA BranchKeeps ==
  ASSUME RInv, Branch, UNCHANGED <<usb, asked>> PROVE RInv'
<1> DEFINE kind == KindOf(req.seen)
<1>1. /\ req \in Requests /\ req.mode \in Modes /\ req.at = "choose" /\ Shapes
      /\ req.deeds = {}
      /\ req.seen # None => Way(req.seen.kind, req.mode) # "none" /\ \A a \in Named : a = req.seen
      /\ req.mode = "Run" /\ req.seen # None => req.seen.kind # "HidBootloader"
  BY DEF RInv, UInv, Branch, Requests, Unanswered, Midway, BranchFits, NotARoutine, CopyFits, Holding
<1>2. /\ req.seen # None => req.seen.kind \in AllKinds
      /\ kind = IF req.seen = None THEN "Unsupported" ELSE req.seen.kind
  BY <1>1, UsbAssumption DEF Requests, Devices, KindOf
<1> HIDE DEF kind
<1>3. CASE msc # None \/ kind \in StorageKinds
  <2>1. CASE req.mode = "Bootloader"
    <3>1. req.noted = "announced" => req.how = "there"
      <4>1. CASE msc # None
        <5>1. msc \in Named /\ msc.kind \in StorageKinds
          BY <1>1, <4>1 DEF Named, Shapes, OpenedIsThere
        <5>2. Way(msc.kind, req.mode) = "there"
          BY <2>1, <5>1 DEF Way, StorageKinds
        <5> QED
          BY <1>1, <5>1, <5>2 DEF RInv, AnnouncedFits, Looking, Midway
      <4>2. CASE kind \in StorageKinds
        BY <1>1, <1>2, <2>1, <4>2 DEF RInv, AnnouncedFits, Looking, Midway, Way, StorageKinds
      <4> QED
        BY <1>3, <4>1, <4>2
    <3> QED
      BY <1>1, <1>3, <2>1, <3>1, NothingMoreDone DEF Branch, kind
  <2>2. CASE req.mode = "Run"
    <3>1. ASSUME req.seen # None PROVE Way(req.seen.kind, req.mode) = "picoboot"
      <4>1. req.seen.kind \in StorageKinds
        BY <1>1, <1>2, <1>3, <3>1 DEF Shapes, OpenedIsThere, Named
      <4> QED
        BY <1>1, <2>2, <3>1, <4>1 DEF Way, StorageKinds
    <3>2. Goes("picoboot")
      BY <1>3, <2>2 DEF Branch, kind
    <3> QED
      BY <1>1, <2>2, <3>1, <3>2, ChoiceKeeps DEF InDeed
  <2> QED
    BY <1>1, <2>1, <2>2 DEF Modes
<1>4. CASE ~(msc # None \/ kind \in StorageKinds) /\ kind = "HidBootloader"
  <2>1. req.seen # None /\ req.seen.kind = "HidBootloader" /\ req.mode = "Bootloader"
    BY <1>1, <1>2, <1>4 DEF Modes
  <2>2. req.noted = "announced" => req.how = "there"
    BY <1>1, <2>1 DEF RInv, AnnouncedFits, Looking, Midway, Way
  <2> QED
    BY <1>1, <1>4, <2>2, NothingMoreDone DEF Branch, kind
<1>5. CASE ~(msc # None \/ kind \in StorageKinds) /\ kind # "HidBootloader"
  <2> DEFINE at == CASE kind = "Cdc" -> "touch" [] kind = "Hid" -> "report"
                     [] kind = "SerialBridge" -> "bridgeLines" [] OTHER -> "jtagLines"
  <2>1. Goes(at)
    BY <1>5 DEF Branch, kind
  <2>2. at \in {"touch", "report"} => req.seen # None /\ req.mode = "Bootloader"
    BY <1>1, <1>2, <1>5 DEF Way, Modes
  <2>3. req.seen # None => Way(req.seen.kind, req.mode) = at
    BY <1>1, <1>2, <1>5 DEF Way, Modes, AllKinds, SerialKinds, StorageKinds
  <2>4. at \in {"touch", "report", "bridgeLines", "jtagLines"}
    OBVIOUS
  <2> HIDE DEF at
  <2> QED
    BY <1>1, <2>1, <2>2, <2>3, <2>4, ChoiceKeeps DEF InDeed
<1> QED
  BY <1>3, <1>4, <1>5

LEMMA TransferKeeps ==
  ASSUME RInv, NEW what \in {"picoboot", "report"}, NEW possible \in BOOLEAN,
         possible => info # None, Transfer(what, possible), UNCHANGED <<usb, asked>>
  PROVE  RInv'
<1>1. CASE possible
  BY <1>1, DeedKeeps DEF Transfer, InDeed
<1>2. CASE ~possible
  BY <1>2, NothingMoreDone DEF Transfer
<1> QED
  BY <1>1, <1>2

LEMMA LinesKeep ==
  ASSUME RInv, NEW what \in {"bridgeLines", "jtagLines"}, Lines(what), UNCHANGED <<usb, asked>>
  PROVE  RInv'
<1>1. CASE serial \in {port} \ {None}
  <2>1. info # None
    BY <1>1 DEF RInv, LookFits, Chosen, InDeed, Lines
  <2> QED
    BY <1>1, <2>1, DeedKeeps DEF Lines, InDeed
<1>2. CASE serial \notin {port} \ {None}
  BY <1>2, NothingMoreDone DEF Lines
<1> QED
  BY <1>1, <1>2

(* After a touch the request waits for mass storage. *)
LEMMA WaitKeeps ==
  ASSUME RInv, UNCHANGED <<usb, asked>>, req.at = "touch", NEW D \in SomeDeeds,
         req' = [req EXCEPT !.at = "wait", !.deeds = D],
         {d.what : d \in D} = {"touch"},
         req.noted = "announced" => req.how = "touch",
         \A d \in D : (d.again \/ Fits(d)) /\ Asked(d)
  PROVE  RInv'
<1>1. Orderly' /\ UInv' /\ mix' \in Mixes
  BY StandsStill
<1>2. /\ req'.at = "wait" /\ req'.mode = req.mode /\ req'.how = req.how
      /\ req'.deeds = D /\ req'.answer = req.answer /\ req'.noted = req.noted
      /\ req'.look = "done" /\ req' \in Requests
  BY DEF RInv, LookFits, Asking, Requests
<1>3. ModeFits' /\ Unanswered'
  BY <1>2 DEF RInv, ModeFits, Unanswered, TouchedOnce, Midway
<1>4. AnnouncedFits' /\ LookFits' /\ CopyFits' /\ BranchFits' /\ DeedFits' /\ NotARoutine'
  BY <1>2 DEF AnnouncedFits, LookFits, CopyFits, BranchFits, DeedFits, NotARoutine,
              Asking, Holding, Looking, Chosen, Midway, InDeed, LookSteps
<1>5. DeedFitsTarget' /\ NoContraryDeed' /\ AnnouncedIsDeed'
  BY <1>2 DEF RInv, Unanswered, DeedFitsTarget, NoContraryDeed, Asked, Fits, AnnouncedIsDeed
<1> QED
  BY <1>1, <1>2, <1>3, <1>4, <1>5 DEF RInv

(* A touch is asked for by a request for the boot loader. *)
LEMMA TouchIsAsked ==
  ASSUME req.mode = "Bootloader", NEW d, d.what = "touch" PROVE Asked(d)
BY DEF Asked, Way, AllKinds, SerialKinds, StorageKinds

LEMMA EnterBootselKeeps ==
  ASSUME RInv, EnterBootsel, UNCHANGED <<usb, asked>> PROVE RInv'
<1> DEFINE d == Deed("touch", serial)
<1>1. /\ req \in Requests /\ req.at = "touch" /\ req.attempt = 1 /\ req.mode = "Bootloader"
      /\ req.deeds = {} /\ Shapes /\ port \in {None, info}
  BY DEF RInv, EnterBootsel, ModeFits, Unanswered, LookFits, Chosen, UInv
<1>2. CASE msc # None
  <2>1. msc \in Named /\ msc.kind \in StorageKinds
    BY <1>1, <1>2 DEF Named, Shapes, OpenedIsThere
  <2>2. Way(msc.kind, "Bootloader") = "there"
    BY <2>1 DEF Way, StorageKinds
  <2>3. req.noted = "announced" => req.how = "there"
    BY <1>1, <2>1, <2>2 DEF RInv, AnnouncedFits, Looking
  <2> QED
    BY <1>1, <1>2, <2>3, NothingMoreDone DEF EnterBootsel
<1>3. CASE msc = None /\ (info = None \/ info.kind # "Cdc" \/ serial = None)
  BY <1>1, <1>3, NothingMoreDone DEF EnterBootsel
<1>4. CASE ~(msc # None) /\ ~(info = None \/ info.kind # "Cdc" \/ serial = None)
  <2>1. Does("touch", serial) = {d}
    BY <1>1 DEF Does
  <2>2. /\ d \in [what : Deeds, on : AllKinds \cup {"nobody"}, again : BOOLEAN]
        /\ d.what = "touch"
        /\ d.on = "nobody" \/ d.on = "Cdc"
    BY <1>1, <1>4, DeedTyped DEF RInv, Deeds
  <2>3. Way("Cdc", "Bootloader") = "touch" /\ "Bootloader" \in Modes
    BY DEF Way, Modes, StorageKinds
  <2>4. Fits(d) /\ Asked(d)
    BY <1>1, <2>2, <2>3, TouchIsAsked DEF Fits
  <2>5. req.noted = "announced" => req.how = "touch"
    BY <1>1, <1>4, <2>3 DEF RInv, AnnouncedFits, Looking, Named
  <2>6. {d} \in SomeDeeds /\ {x.what : x \in {d}} = {"touch"}
    BY <2>2 DEF SomeDeeds
  <2> HIDE DEF d
  <2>7. CASE req' = [req EXCEPT !.at = "wait", !.deeds = {d}]
    BY <1>1, <2>4, <2>5, <2>6, <2>7, WaitKeeps
  <2>8. CASE Ends("409", {d})
    BY <1>1, <2>4, <2>6, <2>8, AnswerKeeps
  <2> QED
    BY <1>4, <2>1, <2>7, <2>8 DEF EnterBootsel
<1> QED
  BY <1>2, <1>3, <1>4

LEMMA TouchAgainKeeps ==
  ASSUME RInv, TouchAgain, UNCHANGED <<usb, asked>> PROVE RInv'
<1> DEFINE d == Deed("touch", serial)
           D == Does("touch", serial)
<1>1. /\ req \in Requests /\ req.at = "touch" /\ req.attempt > 1 /\ req.mode = "Bootloader"
      /\ {x.what : x \in req.deeds} = {"touch"}
      /\ req.noted = "announced" => req.how = "touch"
  BY DEF RInv, TouchAgain, ModeFits, Unanswered, TouchedOnce
<1>2. D = req.deeds \cup {d}
  BY DEF Does
<1>3. /\ d \in [what : Deeds, on : AllKinds \cup {"nobody"}, again : BOOLEAN]
      /\ d.what = "touch" /\ d.again
  BY <1>1, DeedTyped DEF RInv, Deeds
<1>4. Asked(d)
  BY <1>1, <1>3, TouchIsAsked
<1>5. D \in SomeDeeds /\ {x.what : x \in D} = {"touch"}
  BY <1>1, <1>2, <1>3 DEF SomeDeeds, Requests
<1>6. \A x \in D : (x.again \/ Fits(x)) /\ Asked(x)
  BY <1>2, <1>3, <1>4 DEF RInv, Orderly, DeedFitsTarget, NoContraryDeed
<1> HIDE DEF D
<1>7. CASE req' = [req EXCEPT !.at = "wait", !.deeds = D]
  BY <1>1, <1>5, <1>6, <1>7, WaitKeeps
<1>8. CASE Ends("409", D)
  BY <1>1, <1>5, <1>6, <1>8, AnswerKeeps
<1> QED
  BY <1>7, <1>8 DEF TouchAgain, D

LEMMA WaitForMscKeeps ==
  ASSUME RInv, WaitForMsc, UNCHANGED <<usb, asked>> PROVE RInv'
<1>1. /\ req \in Requests /\ req.at = "wait" /\ req.mode = "Bootloader"
      /\ {x.what : x \in req.deeds} = {"touch"}
      /\ req.noted = "announced" => req.how = "touch"
  BY DEF RInv, WaitForMsc, ModeFits, Unanswered, TouchedOnce
<1>2. CASE Answers("200")
  BY <1>1, <1>2, NothingMoreDone
<1>3. CASE Answers("409")
  BY <1>1, <1>3, NothingMoreDone
<1>4. CASE req' = [req EXCEPT !.at = "touch", !.attempt = @ + 1]
  <2>1. Orderly' /\ UInv' /\ mix' \in Mixes
    BY StandsStill
  <2>2. /\ req'.at = "touch" /\ req'.mode = req.mode /\ req'.how = req.how
        /\ req'.deeds = req.deeds /\ req'.answer = req.answer /\ req'.noted = req.noted
        /\ req'.attempt > 1 /\ req'.look = "done" /\ req' \in Requests
    <3>1. req.attempt + 1 > 1 /\ req.attempt + 1 \in Nat \ {0}
      BY <1>1 DEF Requests
    <3> QED
      BY <1>1, <1>4, <3>1 DEF RInv, LookFits, Asking, Requests
  <2>3. ModeFits' /\ Unanswered'
    BY <1>1, <2>2 DEF RInv, ModeFits, Unanswered, TouchedOnce, Midway
  <2>4. AnnouncedFits' /\ LookFits' /\ CopyFits' /\ BranchFits' /\ DeedFits' /\ NotARoutine'
    BY <2>2 DEF AnnouncedFits, LookFits, CopyFits, BranchFits, DeedFits, NotARoutine,
                Asking, Holding, Looking, Chosen, Midway, InDeed, LookSteps
  <2>5. DeedFitsTarget' /\ NoContraryDeed' /\ AnnouncedIsDeed'
    BY <1>1, <2>1, <2>2 DEF RInv, Orderly, Unanswered, DeedFitsTarget, NoContraryDeed, Asked, AnnouncedIsDeed
  <2> QED
    BY <2>1, <2>2, <2>3, <2>4, <2>5 DEF RInv
<1> QED
  BY <1>2, <1>3, <1>4 DEF WaitForMsc

LEMMA HandlerKeeps ==
  ASSUME RInv, Handler PROVE RInv'
<1>1. HasPicoboot \in BOOLEAN /\ HasHid \in BOOLEAN
  BY DEF HasPicoboot, HasHid
<1>2. CASE Transfer("picoboot", HasPicoboot)
  BY <1>1, <1>2, TransferKeeps DEF Handler, HasPicoboot
<1>3. CASE Transfer("report", HasHid)
  BY <1>1, <1>3, TransferKeeps DEF Handler, HasHid
<1> QED
  BY <1>2, <1>3, ResetSupportKeeps, SpecialKeeps, RoutineKeeps, BranchCopyKeeps, BranchKeeps,
     LinesKeep, EnterBootselKeeps, TouchAgainKeeps, WaitForMscKeeps DEF Handler

(* ------------------------------- the results --------------------------- *)

LEMMA ResetStep ==
  ASSUME ~SwapMidway, QInv, [ResetNext]_resetVars PROVE QInv'
<1>1. [Next]_vars /\ UInv' /\ mix' \in Mixes
  BY ResetStepIsUsb, UsbStep DEF QInv, ResetNext, Plugs, Client, Enumerated, Storage, Hangup,
     Opening, Handler, Request, usb, rest2, resetVars
<1>2. ASSUME Orderly' PROVE RInv'
  <2>1. RInv
    BY <1>1, <1>2, HasteStays DEF QInv, UInv
  <2>2. CASE Plugs \/ Client \/ Storage \/ Hangup \/ Opening \/ UNCHANGED resetVars
    BY <1>2, <2>1, <2>2, KnowledgeStays
  <2>3. CASE Handler \/ \E m \in Modes : Request(m)
    BY <2>1, <2>3, HandlerKeeps, RequestKeeps
  <2> QED
    BY <2>2, <2>3 DEF ResetNext
<1> QED
  BY <1>1, <1>2 DEF QInv

LEMMA ResetInvariance == ASSUME ~SwapMidway PROVE ResetSpec => []QInv
BY RequestsStart, ResetStep, PTL DEF ResetSpec

(* resetSupport, resetTarget, enterBootsel: between the first look at the  *)
(* target and the deed it may leave, and its sessions with it, but what is *)
(* done is right for the kind of target it is done to.                     *)
THEOREM DeedsFit == ASSUME ~SwapMidway PROVE ResetSpec => []DeedFitsTarget
<1>1. QInv => DeedFitsTarget
  BY DEF QInv, RInv, Orderly, DeedFitsTarget
<1> QED
  BY <1>1, ResetInvariance, PTL

(* No request does the opposite of what it was sent for. *)
THEOREM NeverContrary == ASSUME ~SwapMidway PROVE ResetSpec => []NoContraryDeed
<1>1. QInv => NoContraryDeed
  BY DEF QInv, RInv, Orderly, NoContraryDeed
<1> QED
  BY <1>1, ResetInvariance, PTL

(* handleTargetReset: what the log announced is what was done. *)
THEOREM AnnouncedWasDone == ASSUME ~SwapMidway PROVE ResetSpec => []AnnouncedIsDeed
<1>1. QInv => AnnouncedIsDeed
  BY DEF QInv, RInv, Orderly, AnnouncedIsDeed
<1> QED
  BY <1>1, ResetInvariance, PTL

(* Whatever requests do, the sessions live as UsbTarget says: its theorems *)
(* hold for the program with requests as well.                             *)
THEOREM RequestsLeaveSessions == ResetSpec => Spec
<1> DEFINE OneMix == mix \in Mixes
<1>1. ResetInit => Init /\ OneMix
  BY DEF ResetInit
<1>2. OneMix /\ [ResetNext]_resetVars => OneMix'
  BY DEF ResetNext, Plugs, Client, Enumerated, Storage, Hangup, Opening, Handler, Request, usb,
         rest2, resetVars
<1>3. OneMix /\ [ResetNext]_resetVars => [Next]_vars
  BY ResetStepIsUsb
<1> HIDE DEF OneMix
<1> QED
  BY <1>1, <1>2, <1>3, PTL DEF ResetSpec, Spec

(* onNewDevice(), the callbacks and the client task: every queue holds     *)
(* events, and every session and handle names a device or nothing (TypeOK).*)
THEOREM SessionTypes == Spec => []TypeOK
<1>1. UInv => TypeOK
  BY DEF UInv
<1> QED
  BY <1>1, UsbInvariance, PTL

=============================================================================
