----------------------------- MODULE WiFiProofs -----------------------------
(* What the WiFi, the pages and the USB host never do, for every set of      *)
(* networks and every course of the world; and the holder counter and the    *)
(* mode of the radio, for any number of servers.                             *)
EXTENDS Gate, PowerSave, FiniteSetTheorems, TLAPS

(* ----------------------------- the portal -------------------------------- *)

\* Nothing of the radio is left over when a join or the portal is begun.
Clean == main \in {"boot", "join", "portal"} => radio = "off" /\ state = "Idle" /\ ev = <<>>

\* A station needs the radio.
Silent == radio = "off" => link = "down"

\* Where app_main is says what the radio is.
Stages == /\ main \in {"arm", "wait", "survey"} => radio = "STA"
          /\ main = "idle" => radio = "off"
          /\ main = "opening" => radio = "APSTA"

\* The portal's radio has raised one START, which finds auto down, and never
\* another event.
Portal == radio = "APSTA" => /\ main \in {"opening", "serve"}
                             /\ ~auto /\ link = "down"
                             /\ ev \in {<<>>, <<"START">>}
                             /\ state \in {"Idle", "Portal"}

QuietInv == Clean /\ Silent /\ Stages /\ Portal

\* A probe as delivered has its radio off.
LEMMA QuietInit == Init => QuietInv
BY DEF Init, Fresh, QuietInv, Clean, Silent, Stages, Portal

\* Whatever restarts the probe makes it so again.
LEMMA QuietReboot == ASSUME Reboot PROVE QuietInv'
BY DEF Reboot, QuietInv, Clean, Silent, Stages, Portal

\* app_main.
LEMMA QuietMain == ASSUME QuietInv, Main \/ TimesOut PROVE QuietInv'
<1> USE DEF QuietInv, Clean, Silent, Stages, Portal, At
<1>1. CASE Start BY <1>1 DEF Start
<1>2. CASE ConnectSta BY <1>2 DEF ConnectSta
<1>3. CASE Arm BY <1>3 DEF Arm
<1>4. CASE Joined BY <1>4 DEF Joined
<1>5. CASE GivesUp BY <1>5 DEF GivesUp
<1>6. CASE StopSta BY <1>6 DEF StopSta
<1>7. CASE JoinFailed BY <1>7 DEF JoinFailed
<1>8. CASE StartPortal BY <1>8 DEF StartPortal
<1>9. CASE PortalOpen BY <1>9 DEF PortalOpen
<1>10. CASE TimesOut BY <1>10 DEF TimesOut
<1> QED BY <1>1, <1>2, <1>3, <1>4, <1>5, <1>6, <1>7, <1>8, <1>9, <1>10 DEF Main

\* The event task: in the portal it sees the START alone and lets it pass.
LEMMA QuietEvents == ASSUME QuietInv, EventHandler PROVE QuietInv'
<1> USE DEF EventHandler
<1>1. main \notin {"boot", "join", "portal"} /\ UNCHANGED <<main, radio, auto>>
  BY DEF QuietInv, Clean
<1>2. CASE radio = "APSTA"
  <2>1. ev = <<"START">> /\ ~auto BY <1>2 DEF QuietInv, Portal
  <2>2. OnStart /\ ev' = <<>> BY <2>1
  <2>3. UNCHANGED <<link, state>> BY <2>1, <2>2 DEF OnStart
  <2> QED BY <1>1, <1>2, <2>2, <2>3 DEF QuietInv, Clean, Silent, Stages, Portal
<1>3. CASE radio # "APSTA"
  <2>1. radio = "off" => link' = link
    BY DEF OnStart, OnLost, OnGotIp, EspConnect
  <2> QED BY <1>1, <1>3, <2>1 DEF QuietInv, Clean, Silent, Stages, Portal
<1> QED BY <1>2, <1>3

\* The radio reports only on a station that is not down.
LEMMA QuietAir ==
  ASSUME QuietInv, Associates \/ GetsAddress \/ Loses PROVE QuietInv'
<1>1. UNCHANGED <<main, radio, auto, state>> /\ link # "down"
  BY DEF Associates, GetsAddress, Loses, RadioOnly
<1>2. radio = "STA" \/ radio \notin {"off", "APSTA"}
  BY <1>1 DEF QuietInv, Silent, Portal
<1> QED BY <1>1, <1>2 DEF QuietInv, Clean, Silent, Stages, Portal

\* QuietInv is inductive.
THEOREM QuietStep == QuietInv /\ [Next]_vars => QuietInv'
<1> SUFFICES ASSUME QuietInv, [Next]_vars PROVE QuietInv' OBVIOUS
<1>1. CASE Main \/ TimesOut BY <1>1, QuietMain
<1>2. CASE EventHandler BY <1>2, QuietEvents
<1>3. CASE Associates \/ GetsAddress \/ Loses BY <1>3, QuietAir
<1>4. CASE PowerCut \/ PortalRetry \/ EspRestart
  BY <1>4, QuietReboot DEF PowerCut, PortalRetry, EspRestart
<1>5. CASE NetChanges
  BY <1>5 DEF NetChanges, wifiVars, QuietInv, Clean, Silent, Stages, Portal
<1>6. CASE (\E n, p \in Nets : HandleConnect(n, p)) \/ HandleForget \/ WritePass
  BY <1>6 DEF HandleConnect, HandleForget, WritePass, WebOnly,
              QuietInv, Clean, Silent, Stages, Portal
<1>7. CASE UNCHANGED vars
  BY <1>7 DEF vars, wifiVars, QuietInv, Clean, Silent, Stages, Portal
<1> QED BY <1>1, <1>2, <1>3, <1>4, <1>5, <1>6, <1>7 DEF Next, Web

\* The station never tries to join while the probe offers its own network.
THEOREM PortalStaysQuiet == Spec => []PortalIsQuiet
<1>1. QuietInv => PortalIsQuiet BY DEF QuietInv, Portal, PortalIsQuiet
<1> QED BY QuietInit, QuietStep, <1>1, PTL DEF Spec

(* ------------------------ the pages and the host ------------------------- *)

\* What the gate adds is a part of what WiFi allows: the composition changes
\* nothing of WiFi's state but by WiFi's own actions.
LEMMA GateStepIsWiFi == [GateNext]_allVars => [Next]_vars
<1> SUFFICES ASSUME [GateNext]_allVars PROVE [Next]_vars OBVIOUS
<1>1. CASE AppMain
  BY <1>1 DEF AppMain, RegisterWiFi, RegisterUi, DecideUsb, StartAtOnce, ConfirmImage, Goes
<1>2. CASE UsbGateTask BY <1>2 DEF UsbGateTask, Poll, GateOpens
<1>3. CASE Restarts BY <1>3 DEF Restarts, Next, Web
<1>4. CASE Wlan BY <1>4 DEF Wlan, Next, Web
<1>5. CASE Asked BY <1>5 DEF Asked, Next
<1>6. CASE UNCHANGED allVars BY <1>6 DEF allVars
<1> QED BY <1>1, <1>2, <1>3, <1>4, <1>5, <1>6 DEF GateNext

-----------------------------------------------------------------------------
\* The portal is announced when app_main has opened it, and by nobody else.
PortalPlace == /\ state = "Portal" => radio = "APSTA" /\ main = "serve"
               /\ main = "serve" /\ radio = "APSTA" => state = "Portal"

\* The station was online if it says so, and has said so since it last began.
OnlineSeen == state = "Connected" => "connected" \in bits

\* What is decided behind wifi.start(), and on what.
Later == app # "routes" \/ routes # {} \/ gate # "none" \/ usb
Decided ==
  /\ Later => main = "serve"
  /\ app = "start" \/ gate = "start" \/ usb => "connected" \in bits
  /\ app = "ui" /\ state = "Portal" => "form" \in routes

GateInv == QuietInv /\ PortalPlace /\ OnlineSeen /\ Decided /\ RoutesFit

LEMMA GateStarts == GateInit => GateInv
<1> SUFFICES ASSUME GateInit PROVE GateInv OBVIOUS
<1>1. QuietInv BY QuietInit DEF GateInit
<1> QED BY <1>1 DEF GateInit, Init, Fresh, AtReset, GateInv, PortalPlace, OnlineSeen,
                    Decided, Later, RoutesFit

\* The event task never makes or ends a portal, and forgets no success.
LEMMA EventsKeep ==
  ASSUME QuietInv, EventHandler
  PROVE  /\ UNCHANGED <<main, radio>>
         /\ radio = "APSTA" => state' = state
         /\ state' = "Portal" => state = "Portal"
         /\ "connected" \in bits => "connected" \in bits'
         /\ state' = "Connected" => (state = "Connected" /\ bits' = bits) \/ "connected" \in bits'
<1> USE DEF EventHandler
<1>1. CASE radio = "APSTA"
  <2>1. ev = <<"START">> /\ ~auto BY <1>1 DEF QuietInv, Portal
  <2>2. OnStart BY <2>1
  <2> QED BY <2>1, <2>2 DEF OnStart
<1>2. CASE radio # "APSTA"
  <2>1. CASE OnStart BY <1>2, <2>1 DEF OnStart
  <2>2. CASE OnLost BY <1>2, <2>2 DEF OnLost
  <2>3. CASE OnGotIp BY <1>2, <2>3 DEF OnGotIp
  <2> QED BY <2>1, <2>2, <2>3
<1> QED BY <1>1, <1>2

\* A restart makes everything as it was delivered.
LEMMA GateRestarts == ASSUME Restarts PROVE GateInv'
<1>1. Reboot /\ Reset BY DEF Restarts, PowerCut, PortalRetry, EspRestart
<1>2. QuietInv' BY <1>1, QuietReboot
<1> QED BY <1>1, <1>2 DEF Reboot, Reset, AtReset, GateInv, PortalPlace, OnlineSeen,
                          Decided, Later, RoutesFit

\* While wifi.start() runs, nothing has been decided behind it.
LEMMA GateMain ==
  ASSUME GateInv, Main \/ TimesOut, UNCHANGED gateVars, QuietInv' PROVE GateInv'
<1>1. main # "serve"
  BY DEF Main, At, Start, ConnectSta, Arm, Joined, GivesUp, StopSta, JoinFailed,
         StartPortal, PortalOpen, TimesOut
<1>2. ~Later /\ ~Later' /\ state # "Portal"
  BY <1>1 DEF GateInv, Decided, Later, gateVars, PortalPlace
<1>3. Decided' /\ RoutesFit'
  BY <1>2 DEF Decided, Later, RoutesFit
<1>4. PortalPlace' /\ OnlineSeen'
  <2> USE DEF PortalPlace, OnlineSeen, At
  <2>0. QuietInv /\ OnlineSeen BY DEF GateInv
  <2>1. CASE Start BY <1>2, <2>0, <2>1 DEF Start
  <2>2. CASE ConnectSta BY <1>2, <2>0, <2>2 DEF ConnectSta
  <2>3. CASE Arm BY <2>3 DEF Arm
  <2>4. CASE Joined BY <1>2, <2>0, <2>4 DEF Joined, QuietInv, Stages
  <2>5. CASE GivesUp \/ TimesOut BY <1>2, <2>0, <2>5 DEF GivesUp, TimesOut
  <2>6. CASE StopSta BY <1>2, <2>0, <2>6 DEF StopSta
  <2>7. CASE JoinFailed BY <2>7 DEF JoinFailed
  <2>8. CASE StartPortal BY <1>2, <2>0, <2>8 DEF StartPortal
  <2>9. CASE PortalOpen BY <2>0, <2>9 DEF PortalOpen, QuietInv, Stages
  <2> QED BY <2>1, <2>2, <2>3, <2>4, <2>5, <2>6, <2>7, <2>8, <2>9 DEF Main
<1> QED BY <1>3, <1>4 DEF GateInv

\* app_main behind wifi.start(), and the gate.
LEMMA GateTasks == ASSUME GateInv, AppMain \/ UsbGateTask PROVE GateInv'
<1> USE DEF GateInv, PortalPlace, OnlineSeen, Decided, Later, RoutesFit
<1>1. UNCHANGED vars
  BY DEF AppMain, RegisterWiFi, RegisterUi, DecideUsb, StartAtOnce, ConfirmImage, Goes,
         UsbGateTask, Poll, GateOpens
<1>2. QuietInv' /\ PortalPlace' /\ OnlineSeen'
  BY <1>1 DEF vars, wifiVars, QuietInv, Clean, Silent, Stages, Portal
<1> USE <1>1, <1>2 DEF vars, wifiVars, Goes, At
<1>3. CASE RegisterWiFi BY <1>3 DEF RegisterWiFi
<1>4. CASE RegisterUi BY <1>4 DEF RegisterUi
<1>5. CASE DecideUsb BY <1>5 DEF DecideUsb
<1>6. CASE StartAtOnce BY <1>6 DEF StartAtOnce, StartUsbStack
<1>7. CASE ConfirmImage BY <1>7 DEF ConfirmImage
<1>8. CASE Poll BY <1>8 DEF Poll
<1>9. CASE GateOpens BY <1>9 DEF GateOpens, StartUsbStack
<1> QED BY <1>3, <1>4, <1>5, <1>6, <1>7, <1>8, <1>9 DEF AppMain, UsbGateTask

\* GateInv is inductive.
THEOREM GateStep == GateInv /\ [GateNext]_allVars => GateInv'
<1> SUFFICES ASSUME GateInv, [GateNext]_allVars PROVE GateInv' OBVIOUS
<1>0. QuietInv' BY GateStepIsWiFi, QuietStep DEF GateInv
<1>1. CASE AppMain \/ UsbGateTask BY <1>1, GateTasks
<1>2. CASE Restarts BY <1>2, GateRestarts
<1>3. CASE (Main \/ TimesOut) /\ UNCHANGED gateVars BY <1>0, <1>3, GateMain
<1>4. CASE EventHandler /\ UNCHANGED gateVars
  <2>1. QuietInv BY DEF GateInv
  <2>2. /\ UNCHANGED <<main, radio, app, routes, gate, usb>>
        /\ radio = "APSTA" => state' = state
        /\ state' = "Portal" => state = "Portal"
        /\ "connected" \in bits => "connected" \in bits'
        /\ state' = "Connected" =>
             (state = "Connected" /\ bits' = bits) \/ "connected" \in bits'
    BY <1>4, <2>1, EventsKeep DEF gateVars
  <2> QED BY <1>0, <2>2 DEF GateInv, PortalPlace, OnlineSeen, Decided, Later, RoutesFit
<1>5. CASE (Associates \/ GetsAddress \/ Loses \/ NetChanges \/ WritePass) /\ UNCHANGED gateVars
  <2>1. UNCHANGED <<main, radio, state, bits, app, routes, gate, usb>>
    BY <1>5 DEF Associates, GetsAddress, Loses, RadioOnly, NetChanges, WritePass, WebOnly,
                gateVars, wifiVars
  <2> QED BY <1>0, <2>1 DEF GateInv, PortalPlace, OnlineSeen, Decided, Later, RoutesFit
<1>6. CASE Asked
  <2>1. UNCHANGED <<main, radio, state, bits, app, routes, gate, usb>>
    BY <1>6 DEF Asked, HandleConnect, HandleForget, WebOnly, gateVars
  <2> QED BY <1>0, <2>1 DEF GateInv, PortalPlace, OnlineSeen, Decided, Later, RoutesFit
<1>7. CASE UNCHANGED allVars
  BY <1>0, <1>7 DEF allVars, vars, wifiVars, gateVars, GateInv, PortalPlace, OnlineSeen,
                    Decided, Later, RoutesFit
<1> QED BY <1>1, <1>2, <1>3, <1>4, <1>5, <1>6, <1>7 DEF GateNext, Wlan

\* What the HTTP server shows fits the state of the network for ever, though
\* it was decided by one look.
THEOREM RoutesAlwaysFit == GateSpec => []RoutesFit
<1>1. GateInv => RoutesFit BY DEF GateInv
<1> QED BY GateStarts, GateStep, <1>1, PTL DEF GateSpec

\* No probe that was never in a network gives up its USB console.
THEOREM HostNeedsNetwork == GateSpec => []HostAfterNetwork
<1>1. GateInv => HostAfterNetwork BY DEF GateInv, Decided, HostAfterNetwork
<1> QED BY GateStarts, GateStep, <1>1, PTL DEF GateSpec

\* The portal's quiet survives the composition.
THEOREM PortalQuietInProbe == GateSpec => []PortalIsQuiet
<1>1. GateInv => PortalIsQuiet BY DEF GateInv, QuietInv, Portal, PortalIsQuiet
<1> QED BY GateStarts, GateStep, <1>1, PTL DEF GateSpec

(* ----------------------------- power saving ------------------------------ *)


Applying(t) == pc[t] \in {"lock", "read", "set"}

(* Control: who is inside the mutex, who may be counted, how app_main runs *)
(* before any server does.                                                 *)
Control ==
  /\ \A t \in Tasks : pc[t] \in {"read", "set"} <=> mutex = t
  /\ \A t \in Tasks : (Holding(t) \/ pc[t] = "add") => counted[t]
  /\ pc[MainTask] = "idle" \/ Applying(MainTask)
  /\ goal[MainTask] = "idle"
  /\ boot = "join" => \A s \in Servers : pc[s] = "idle"
  /\ pc[MainTask] # "idle" => boot = "join" /\ psNone
  /\ pc[MainTask] = "set" => ~want[MainTask]

(* A task that just counted itself in has read a count above zero. *)
OwnHolderSeen == \A t \in Tasks : pc[t] = "set" /\ goal[t] = "session" => want[t]

(* A count read inside the mutex is stale only if its changer is queued    *)
(* behind the mutex.                                                       *)
StaleCountIsQueued ==
  /\ \A t \in Tasks : pc[t] = "set" =>
       want[t] = (holders > 0) \/ \E u \in Tasks : pc[u] = "lock"
  /\ (\E t \in Tasks : Applying(t)) \/ driver # "obeys" \/ psNone = (holders > 0)

(* The flag and the driver agree once the first call succeeded. *)
FlagAgrees ==
  ((driver = "obeys" \/ MainTask \notin FailingCalls) /\ pc[MainTask] = "idle")
    => (psNone <=> psMode = "awake")

(* While somebody's session is counted, nobody is about to doze. *)
NoDozeAhead ==
  driver = "obeys" =>
    \A s \in Tasks : (pc[s] = "session" /\ counted[s]) \/ pc[s] = "sub" =>
      /\ psNone
      /\ \A t \in Tasks : pc[t] = "set" => want[t]

PowerInv ==
  /\ PowerTypeOK
  /\ Control
  /\ CounterIsExact
  /\ OwnHolderSeen
  /\ StaleCountIsQueued
  /\ FlagAgrees
  /\ NoDozeAhead

-----------------------------------------------------------------------------

LEMMA HoldersFinite == IsFiniteSet(Holders) /\ IsFiniteSet(Holders')
<1>1. IsFiniteSet(Tasks)
  BY ServersAssumption, FS_AddElement DEF Tasks
<1>2. Holders \subseteq Tasks /\ Holders' \subseteq Tasks
  BY DEF Holders
<1> QED
  BY <1>1, <1>2, FS_Subset

LEMMA SomeHolderCounts ==
  ASSUME PowerTypeOK, CounterIsExact
  PROVE  /\ \A t \in Tasks : Holding(t) => holders > 0
         /\ holders >= 0
         /\ (\A t \in Tasks : ~Holding(t)) => holders = 0
<1>1. Cardinality(Holders) \in Nat
  BY HoldersFinite, FS_CardinalityType
<1>2. (Holders = {}) <=> (Cardinality(Holders) = 0)
  BY HoldersFinite, FS_EmptySet
<1>3. \A t \in Tasks : Holding(t) <=> t \in Holders
  BY DEF Holders
<1>4. Holders \subseteq Tasks
  BY DEF Holders
<1>5. (\A t \in Tasks : ~Holding(t)) => Holders = {}
  BY <1>3, <1>4
<1>6. \A t \in Tasks : Holding(t) => Holders # {}
  BY <1>3
<1> QED
  BY <1>1, <1>2, <1>5, <1>6 DEF CounterIsExact

LEMMA PowerStarts == PowerInit => PowerInv
<1> SUFFICES ASSUME PowerInit PROVE PowerInv
  OBVIOUS
<1> USE ServersAssumption DEF PowerInit, Tasks
<1>1. PowerTypeOK
  BY DEF PowerTypeOK
<1>2. \A t \in Tasks : ~Holding(t)
  BY DEF Holding
<1>3. CounterIsExact
  <2>1. Holders = {}
    BY <1>2 DEF Holders
  <2> QED
    BY <2>1, FS_EmptySet DEF CounterIsExact
<1>4. Applying(MainTask)
  BY DEF Applying
<1> QED
  BY <1>1, <1>2, <1>3, <1>4
  DEF PowerInv, Control, OwnHolderSeen, StaleCountIsQueued, FlagAgrees, NoDozeAhead

(* What each step does to the set of holders. *)
LEMMA HoldersStep ==
  ASSUME PowerInv, [PowerNext]_powerVars
  PROVE  CounterIsExact'
<1> USE ServersAssumption DEF PowerInv, PowerTypeOK, Tasks
<1>0. Cardinality(Holders) \in Nat /\ holders = Cardinality(Holders)
  BY HoldersFinite, FS_CardinalityType DEF CounterIsExact
<1>1. ASSUME Holders' = Holders, holders' = holders PROVE CounterIsExact'
  BY <1>1, <1>0 DEF CounterIsExact
<1>2. CASE StartConsole \/ InstallHook \/ StartRfc2217
  BY <1>1, <1>2 DEF StartConsole, InstallHook, StartRfc2217, Boot, Holders, Holding
<1>3. ASSUME NEW s \in Servers, Accept(s) PROVE CounterIsExact'
  BY <1>1, <1>3 DEF Accept, Goto, Holders, Holding
<1>4. ASSUME NEW s \in Servers, Acquire(s) PROVE CounterIsExact'
  <2>1. s \notin Holders
    BY <1>4 DEF Acquire, Holders, Holding
  <2>2. Holders' = Holders \cup {s}
    BY <1>4 DEF Acquire, Goto, Holders, Holding
  <2> QED
    BY <2>1, <2>2, <1>0, <1>4, HoldersFinite, FS_AddElement DEF Acquire, CounterIsExact
<1>5. ASSUME NEW s \in Servers, Leave(s) PROVE CounterIsExact'
  BY <1>1, <1>5 DEF Leave, Goto, Holders, Holding
<1>6. ASSUME NEW s \in Servers, Release(s) PROVE CounterIsExact'
  <2>1. s \in Holders
    BY <1>6 DEF Release, Holders, Holding
  <2>2. Holders' = Holders \ {s}
    BY <1>6 DEF Release, Goto, Holders, Holding
  <2>3. holders > 0
    BY <2>1, SomeHolderCounts DEF Holders
  <2> QED
    BY <2>1, <2>2, <2>3, <1>0, <1>6, HoldersFinite, FS_RemoveElement
    DEF Release, CounterIsExact
<1>7. ASSUME NEW t \in Tasks, Lock(t) \/ ReadHolders(t) PROVE CounterIsExact'
  BY <1>1, <1>7 DEF Lock, ReadHolders, Goto, Holders, Holding
<1>8. ASSUME NEW t \in Tasks, SetAndUnlock(t) PROVE CounterIsExact'
  <2>1. Holding(t) <=> goal[t] = "session"
    BY <1>8 DEF SetAndUnlock, Holding
  <2>2. goal[t] = "session" => counted[t]
    BY <2>1 DEF Control
  <2>3. \A u \in Tasks : Holding(u)' <=> Holding(u)
    BY <2>1, <2>2, <1>8 DEF SetAndUnlock, Goto, Holding
  <2> QED
    BY <2>3, <1>1, <1>8 DEF Holders, SetAndUnlock
<1>9. CASE UNCHANGED powerVars
  BY <1>1, <1>9 DEF powerVars, Holders, Holding
<1> QED
  BY <1>2, <1>3, <1>4, <1>5, <1>6, <1>7, <1>8, <1>9 DEF PowerNext, ApplyStep

LEMMA PowerStep == PowerInv /\ [PowerNext]_powerVars => PowerInv'
<1> SUFFICES ASSUME PowerInv, [PowerNext]_powerVars PROVE PowerInv'
  OBVIOUS
<1>0. CounterIsExact'
  BY HoldersStep
<1>00. /\ \A t \in Tasks : Holding(t) => holders > 0
       /\ holders >= 0
  BY SomeHolderCounts DEF PowerInv
<1>01. (\A t \in Tasks : ~Holding(t)) => holders = 0
  BY SomeHolderCounts DEF PowerInv
<1> USE ServersAssumption
    DEF PowerInv, PowerTypeOK, Tasks, Control, OwnHolderSeen, StaleCountIsQueued, FlagAgrees,
        NoDozeAhead, Applying, Holding
<1>1. CASE StartConsole \/ InstallHook \/ StartRfc2217
  BY <1>0, <1>1 DEF StartConsole, InstallHook, StartRfc2217, Boot
<1>2. ASSUME NEW s \in Servers, Accept(s) PROVE PowerInv'
  <2>1. boot # "join"
    BY <1>2 DEF Accept, Started
  <2>2. PowerTypeOK' /\ Control'
    <3>1. CASE boot \in {"hooked", "up"}
      BY <1>2, <2>1, <3>1 DEF Accept, Goto
    <3>2. CASE boot \notin {"hooked", "up"}
      <4>1. pc' = [pc EXCEPT ![s] = "session"] /\ counted' = [counted EXCEPT ![s] = FALSE]
        <5>1. (boot \in {"hooked", "up"}) = FALSE
          BY <3>2
        <5> QED
          BY <1>2, <5>1 DEF Accept, Goto
      <4>2. UNCHANGED <<holders, psNone, psMode, mutex, goal, want, boot, driver>>
        BY <1>2 DEF Accept
      <4>3. \A t \in Tasks \ {s} : Holding(t)' <=> Holding(t)
        BY <4>1, <4>2
      <4>4. ~Holding(s)'
        BY <4>1, <4>2
      <4>5. PowerTypeOK'
        BY <4>1, <4>2
      <4> QED
        BY <1>2, <2>1, <4>1, <4>2, <4>3, <4>4, <4>5 DEF Accept
    <3> QED
      BY <3>1, <3>2
  <2>3. OwnHolderSeen' /\ StaleCountIsQueued' /\ FlagAgrees'
    BY <1>2 DEF Accept, Goto
  <2>4. NoDozeAhead'
    BY <1>2 DEF Accept, Goto
  <2> QED
    BY <1>0, <2>2, <2>3, <2>4
<1>3. ASSUME NEW s \in Servers, Acquire(s) PROVE PowerInv'
  BY <1>0, <1>00, <1>3 DEF Acquire, Goto
<1>4. ASSUME NEW s \in Servers, Leave(s) PROVE PowerInv'
  BY <1>0, <1>4 DEF Leave, Goto
<1>5. ASSUME NEW s \in Servers, Release(s) PROVE PowerInv'
  <2>1. PowerTypeOK'
    BY <1>00, <1>5 DEF Release, Goto
  <2>2. Control'
    BY <1>00, <1>5 DEF Release, Goto
  <2>3. OwnHolderSeen'
    BY <1>00, <1>5 DEF Release, Goto
  <2>4. StaleCountIsQueued'
    BY <1>00, <1>5 DEF Release, Goto
  <2>5. FlagAgrees'
    BY <1>00, <1>5 DEF Release, Goto
  <2>6. NoDozeAhead'
    BY <1>00, <1>5 DEF Release, Goto
  <2> QED
    BY <1>0, <2>1, <2>2, <2>3, <2>4, <2>5, <2>6
<1>6. ASSUME NEW t \in Tasks, Lock(t) PROVE PowerInv'
  BY <1>0, <1>6 DEF Lock, Goto
<1>7. ASSUME NEW t \in Tasks, ReadHolders(t) PROVE PowerInv'
  <2>1. t = MainTask => holders = 0
    BY <1>01, <1>7 DEF ReadHolders
  <2>2. PowerTypeOK'
    BY <1>7 DEF ReadHolders, Goto
  <2>4. Control'
    <3>1. CASE t = MainTask
      <4>1. (holders > 0) = FALSE
        BY <2>1, <3>1
      <4>2. want' = [want EXCEPT ![t] = FALSE]
        BY <1>7, <4>1 DEF ReadHolders
      <4>3. ~want'[MainTask]
        BY <4>2, <3>1
      <4>4. \A u \in Tasks : Holding(u)' <=> Holding(u)
        BY <1>7 DEF ReadHolders, Goto
      <4> QED
        BY <1>7, <4>3, <4>4 DEF ReadHolders, Goto
    <3>2. CASE t # MainTask
      BY <1>7, <3>2 DEF ReadHolders, Goto
    <3> QED
      BY <3>1, <3>2
  <2>3. OwnHolderSeen' /\ StaleCountIsQueued' /\ FlagAgrees' /\ NoDozeAhead'
    BY <1>00, <1>7 DEF ReadHolders, Goto
  <2> QED
    BY <1>0, <2>2, <2>3, <2>4
<1>8. ASSUME NEW t \in Tasks, SetAndUnlock(t) PROVE PowerInv'
  <2>1. PowerTypeOK'
    BY <1>8 DEF SetAndUnlock, Goto, Mode
  <2>2. Control'
    BY <1>8 DEF SetAndUnlock, Goto, Mode
  <2>3. OwnHolderSeen'
    BY <1>8 DEF SetAndUnlock, Goto, Mode
  <2>4. StaleCountIsQueued'
    BY <1>8 DEF SetAndUnlock, Goto, Mode
  <2>5. FlagAgrees'
    BY <1>8 DEF SetAndUnlock, Goto, Mode
  <2>6. NoDozeAhead'
    BY <1>8 DEF SetAndUnlock, Goto, Mode
  <2> QED
    BY <1>0, <2>1, <2>2, <2>3, <2>4, <2>5, <2>6
<1>9. CASE UNCHANGED powerVars
  BY <1>0, <1>9 DEF powerVars
<1> QED
  BY <1>1, <1>2, <1>3, <1>4, <1>5, <1>6, <1>7, <1>8, <1>9 DEF PowerNext, ApplyStep

LEMMA PowerInvariance == PowerSpec => []PowerInv
  BY PowerStarts, PowerStep, PTL DEF PowerSpec

(* Every variable keeps its type. *)
THEOREM PowerTypes == PowerSpec => []PowerTypeOK
<1>1. PowerInv => PowerTypeOK
  BY DEF PowerInv
<1> QED
  BY <1>1, PowerInvariance, PTL

(* The atomic counter always equals the number of open counted sessions. *)
THEOREM CounterExact == PowerSpec => []CounterIsExact
<1>1. PowerInv => CounterIsExact
  BY DEF PowerInv
<1> QED
  BY <1>1, PowerInvariance, PTL

(* A counted session keeps the radio awake from acquire to release. *)
THEOREM AwakeThroughout == PowerSpec => []SessionKeepsAwake
<1>1. PowerInv => SessionKeepsAwake
  BY ServersAssumption DEF PowerInv, SessionKeepsAwake, NoDozeAhead, FlagAgrees, Control, Tasks,
     PowerTypeOK, Applying
<1> QED
  BY <1>1, PowerInvariance, PTL

(* With nobody connected and nothing pending the radio dozes. *)
THEOREM DozeAtRest == PowerSpec => []IdleMeansDoze
<1>1. PowerInv => IdleMeansDoze
  <2> SUFFICES ASSUME PowerInv, driver = "obeys", \A t \in Tasks : pc[t] = "idle"
               PROVE  psMode = "doze"
    BY DEF IdleMeansDoze
  <2>1. holders = 0
    BY SomeHolderCounts DEF PowerInv, Holding
  <2>2. psNone = FALSE
    BY <2>1 DEF PowerInv, StaleCountIsQueued, Applying, PowerTypeOK
  <2> QED
    BY <2>2, ServersAssumption DEF PowerInv, FlagAgrees, PowerTypeOK, Tasks
<1> QED
  BY <1>1, PowerInvariance, PTL

(* isRadioAwake() tells the truth whatever later driver calls return. *)
THEOREM FlagTruthful == PowerSpec => []FlagIsTrue
<1>1. PowerInv => FlagIsTrue
  BY DEF PowerInv, FlagIsTrue, FlagAgrees, Control
<1> QED
  BY <1>1, PowerInvariance, PTL

(* --------------------------- types of the WiFi --------------------------- *)

EventQueues == Seq({"START", "LOST", "IP"})

\* What the radio and the driver do to the queue of events.
LEMMA QueuesOfEvents ==
  /\ <<>> \in EventQueues /\ <<"START">> \in EventQueues /\ <<"LOST">> \in EventQueues
  /\ \A q \in EventQueues : /\ Append(q, "IP") \in EventQueues /\ Append(q, "LOST") \in EventQueues
                            /\ q # <<>> => Tail(q) \in EventQueues
  BY DEF EventQueues

LEMMA WiFiStartsTyped == Init => TypeOK
<1> SUFFICES ASSUME Init PROVE TypeOK OBVIOUS
<1>1. /\ nvs \in [ssid : Nets \cup {None}, pass : Nets \cup {None}]
      /\ cfg \in [ssid : Nets \cup {None}, pass : Nets \cup {None}]
  BY DEF Init, Fresh
<1>2. ev \in EventQueues
  BY QueuesOfEvents DEF Init, Fresh
<1>3. attempts \in 0..MaxAttempts /\ web \in [at : {"idle", "pass", "restart"}, pass : Nets \cup {None}]
  BY DEF Init, Fresh, MaxAttempts
<1> QED BY <1>1, <1>2, <1>3 DEF Init, Fresh, TypeOK, EventQueues

\* What a reset leaves is typed, whatever is stored.
LEMMA RebootTyped == ASSUME TypeOK, Reboot, UNCHANGED <<nvs, near>> PROVE TypeOK'
<1>1. cfg' \in [ssid : Nets \cup {None}, pass : Nets \cup {None}]
  BY DEF Reboot
<1>2. ev' \in EventQueues
  BY QueuesOfEvents DEF Reboot
<1>3. attempts' \in 0..MaxAttempts /\ web' \in [at : {"idle", "pass", "restart"}, pass : Nets \cup {None}]
  BY DEF Reboot, MaxAttempts
<1> QED BY <1>1, <1>2, <1>3 DEF Reboot, TypeOK, EventQueues

LEMMA MainTyped == ASSUME TypeOK, Main \/ TimesOut PROVE TypeOK'
<1>1. UNCHANGED <<nvs, near, web>>
  BY DEF Main, TimesOut, Start, ConnectSta, Arm, Joined, GivesUp, StopSta, JoinFailed, StartPortal,
         PortalOpen
<1>2. /\ cfg' \in {cfg, nvs} /\ radio' \in {radio, "STA", "APSTA", "off"} /\ link' \in {link, "down"}
      /\ ev' \in {ev, <<>>, <<"START">>, <<"LOST">>} /\ attempts' \in {attempts, 0} /\ bits' \in {bits, {}}
      /\ auto' \in {auto, TRUE, FALSE} /\ retry' \in {retry, HasCredentials}
      /\ state' \in {state, "Connecting", "Idle", "Portal"}
      /\ main' \in {"join", "arm", "wait", "survey", "idle", "portal", "opening", "serve"}
  BY DEF Main, TimesOut, Start, ConnectSta, Arm, Joined, GivesUp, StopSta, JoinFailed, StartPortal,
         PortalOpen
<1>3. ev' \in EventQueues
  BY <1>2, QueuesOfEvents DEF TypeOK, EventQueues
<1>4. auto' \in BOOLEAN /\ retry' \in BOOLEAN
  BY <1>2 DEF TypeOK, HasCredentials
<1> QED BY <1>1, <1>2, <1>3, <1>4 DEF TypeOK, MaxAttempts, EventQueues

LEMMA EventsTyped == ASSUME TypeOK, EventHandler PROVE TypeOK'
<1>1. UNCHANGED <<nvs, near, cfg, radio, auto, retry, main, web>>
  BY DEF EventHandler
<1>2. ev' \in Seq({"START", "LOST", "IP"})
  BY QueuesOfEvents DEF EventHandler, TypeOK, EventQueues
<1>3. /\ link' \in {link, "joining"} /\ state' \in {state, "Connecting", "Connected"}
      /\ bits' \in {bits, bits \cup {"failed"}, bits \cup {"connected"}}
  BY DEF EventHandler, OnStart, OnLost, OnGotIp, EspConnect
<1>4. attempts' \in 0..MaxAttempts
  BY DEF EventHandler, OnStart, OnLost, OnGotIp, TypeOK, MaxAttempts
<1> QED BY <1>1, <1>2, <1>3, <1>4 DEF TypeOK

LEMMA AirTyped == ASSUME TypeOK, Associates \/ GetsAddress \/ Loses PROVE TypeOK'
<1>1. RadioOnly /\ link' \in {"linked", "online", "down"}
  BY DEF Associates, GetsAddress, Loses
<1>2. ev' \in EventQueues
  BY QueuesOfEvents DEF Associates, GetsAddress, Loses, TypeOK, EventQueues
<1> QED BY <1>1, <1>2 DEF RadioOnly, TypeOK, EventQueues

LEMMA WebTyped ==
  ASSUME TypeOK, (\E n, p \in Nets : HandleConnect(n, p)) \/ HandleForget \/ WritePass
  PROVE  TypeOK'
<1>1. WebOnly
  BY DEF HandleConnect, HandleForget, WritePass
<1>2. nvs' \in [ssid : Nets \cup {None}, pass : Nets \cup {None}]
  BY DEF HandleConnect, HandleForget, WritePass, TypeOK
<1>3. web' \in [at : {"idle", "pass", "restart"}, pass : Nets \cup {None}]
  BY DEF HandleConnect, HandleForget, WritePass, TypeOK
<1> QED BY <1>1, <1>2, <1>3 DEF WebOnly, TypeOK

LEMMA WiFiTypesStep == TypeOK /\ [Next]_vars => TypeOK'
<1> SUFFICES ASSUME TypeOK, [Next]_vars PROVE TypeOK' OBVIOUS
<1>1. CASE Main \/ TimesOut BY <1>1, MainTyped
<1>2. CASE EventHandler BY <1>2, EventsTyped
<1>3. CASE Associates \/ GetsAddress \/ Loses BY <1>3, AirTyped
<1>4. CASE PowerCut \/ PortalRetry \/ EspRestart
  BY <1>4, RebootTyped DEF PowerCut, PortalRetry, EspRestart
<1>5. CASE NetChanges
  BY <1>5 DEF NetChanges, wifiVars, TypeOK
<1>6. CASE (\E n, p \in Nets : HandleConnect(n, p)) \/ HandleForget \/ WritePass
  BY <1>6, WebTyped
<1>7. CASE UNCHANGED vars
  BY <1>7 DEF vars, wifiVars, TypeOK
<1> QED BY <1>1, <1>2, <1>3, <1>4, <1>5, <1>6, <1>7 DEF Next, Web

\* start(), eventHandler() and the requests: the attempts are never counted
\* beyond the last one, and a name and a password are always stored and used
\* as the requests gave them (TypeOK).
THEOREM WiFiTypes == Spec => []TypeOK
  BY WiFiStartsTyped, WiFiTypesStep, PTL DEF Spec

\* The same in the probe with its pages and its USB host, whose own variables
\* keep their types as well (GateTypeOK).
THEOREM ProbeTypes == GateSpec => [](TypeOK /\ GateTypeOK)
<1>1. GateInit => TypeOK /\ GateTypeOK
  BY WiFiStartsTyped DEF GateInit, AtReset, GateTypeOK
<1>2. TypeOK /\ [GateNext]_allVars => TypeOK'
  BY GateStepIsWiFi, WiFiTypesStep
<1>3. GateTypeOK /\ [GateNext]_allVars => GateTypeOK'
  <2> SUFFICES ASSUME GateTypeOK, [GateNext]_allVars PROVE GateTypeOK' OBVIOUS
  <2>1. CASE AppMain
    BY <2>1 DEF AppMain, RegisterWiFi, RegisterUi, DecideUsb, StartAtOnce, StartUsbStack,
                ConfirmImage, Goes, GateTypeOK
  <2>2. CASE UsbGateTask
    BY <2>2 DEF UsbGateTask, Poll, GateOpens, StartUsbStack, GateTypeOK
  <2>3. CASE Restarts BY <2>3 DEF Restarts, Reset, AtReset, GateTypeOK
  <2>4. CASE Wlan \/ Asked \/ UNCHANGED allVars
    BY <2>4 DEF Wlan, Asked, allVars, gateVars, GateTypeOK
  <2> QED BY <2>1, <2>2, <2>3, <2>4 DEF GateNext
<1> QED BY <1>1, <1>2, <1>3, PTL DEF GateSpec

(* ----------------- what NeverStranded and HostComes rest on --------------- *)

\* Who is at work on the join that main waits for: a START or a LOST that will
\* begin an attempt or give up, the radio, or the news of the address.
JoinUnderWay ==
  /\ main = "arm" => \/ auto /\ ev = <<"START">> /\ link = "down"
                     \/ ev = <<>> /\ link = "joining"
  /\ main = "wait" /\ bits = {} =>
       /\ state = "Connecting"
       /\ \/ ev = <<>> /\ link \in {"joining", "linked"}
          \/ ev = <<"LOST">> /\ link = "down"
          \/ ev # <<>> /\ Head(ev) = "IP"

WayBackKept == state = "Portal" => /\ main = "serve"
                                   /\ web.at = "idle" => retry = HasCredentials

\* The wait of connectSta() has somebody who will end it: an event that is
\* still to be handled, or a radio that is joining.
JoinIsAnswered == main = "wait" /\ bits = {} => ev # <<>> \/ link \in {"joining", "linked"}

\* A portal with a network stored has the timer that leads back to it.
PortalRetries == state = "Portal" /\ HasCredentials => retry \/ web.at # "idle"

\* app_main has started the USB host, or left it to a gate that still looks.
HostIsDue == app \in {"probation", "confirmed"} => usb \/ gate # "none"

AliveInv == TypeOK /\ QuietInv /\ JoinUnderWay /\ WayBackKept

LEMMA AliveStarts == Init => AliveInv
<1> SUFFICES ASSUME Init PROVE AliveInv OBVIOUS
<1>1. TypeOK /\ QuietInv BY WiFiStartsTyped, QuietInit
<1>2. main = "boot" /\ state = "Idle" BY DEF Init, Fresh
<1> QED BY <1>1, <1>2 DEF AliveInv, JoinUnderWay, WayBackKept

LEMMA AliveMain ==
  ASSUME AliveInv, Main \/ TimesOut PROVE JoinUnderWay' /\ WayBackKept'
<1> USE DEF AliveInv, JoinUnderWay, WayBackKept, At
<1>1. CASE Start BY <1>1 DEF Start
<1>2. CASE ConnectSta
  <2>1. link' = "down" /\ auto' = TRUE /\ ev' = <<"START">> /\ main' = "arm" /\ state' = state
    BY <1>2 DEF ConnectSta, QuietInv, Clean, Silent
  <2>2. state # "Portal" BY <1>2 DEF ConnectSta
  <2> QED BY <2>1, <2>2
<1>3. CASE Arm
  <2>1. ev' = <<>> /\ link' = "joining" BY <1>3 DEF Arm
  <2> QED BY <1>3, <2>1 DEF Arm
<1>4. CASE Joined \/ GivesUp \/ TimesOut BY <1>4 DEF Joined, GivesUp, TimesOut
<1>5. CASE StopSta \/ JoinFailed \/ StartPortal BY <1>5 DEF StopSta, JoinFailed, StartPortal
<1>6. CASE PortalOpen
  <2>1. HasCredentials' = HasCredentials BY <1>6 DEF Main, TimesOut, HasCredentials, PortalOpen
  <2> QED BY <1>6, <2>1 DEF PortalOpen
<1> QED BY <1>1, <1>2, <1>3, <1>4, <1>5, <1>6 DEF Main

LEMMA AliveEvents ==
  ASSUME AliveInv, EventHandler PROVE JoinUnderWay' /\ WayBackKept'
<1>1. UNCHANGED <<main, retry, web, HasCredentials>> /\ (state' = "Portal" => state = "Portal")
  BY DEF EventHandler, OnStart, OnLost, OnGotIp, HasCredentials
<1>2. WayBackKept' BY <1>1 DEF AliveInv, WayBackKept
<1>3. CASE main = "arm"
  <2>1. auto /\ ev = <<"START">> /\ link = "down" /\ radio = "STA"
    BY <1>3 DEF AliveInv, JoinUnderWay, EventHandler, QuietInv, Stages
  <2>2. OnStart /\ ev' = <<>> BY <2>1 DEF EventHandler
  <2>3. link' = "joining" BY <2>1, <2>2 DEF OnStart, EspConnect
  <2> QED BY <1>1, <1>2, <1>3, <2>2, <2>3 DEF JoinUnderWay
<1>4. CASE main = "wait"
  <2> SUFFICES ASSUME bits' = {} PROVE JoinUnderWay' BY <1>1, <1>2, <1>4 DEF JoinUnderWay
  <2>1. bits = {} /\ Head(ev) # "IP"
    BY DEF EventHandler, OnStart, OnLost, OnGotIp
  <2>2. ev = <<"LOST">> /\ link = "down" /\ state = "Connecting" /\ radio = "STA"
    BY <1>4, <2>1 DEF AliveInv, JoinUnderWay, EventHandler, QuietInv, Stages
  <2>3. OnLost /\ ev' = <<>> BY <2>2 DEF EventHandler
  <2>4. state' = "Connecting" /\ link' = "joining"
    BY <2>2, <2>3 DEF OnLost, EspConnect
  <2> QED BY <1>1, <1>4, <2>3, <2>4 DEF JoinUnderWay
<1>5. CASE main \notin {"arm", "wait"} BY <1>1, <1>2, <1>5 DEF JoinUnderWay
<1> QED BY <1>2, <1>3, <1>4, <1>5

LEMMA AliveAir ==
  ASSUME AliveInv, Associates \/ GetsAddress \/ Loses PROVE JoinUnderWay' /\ WayBackKept'
<1>1. UNCHANGED <<main, retry, web, state, bits, HasCredentials>>
  BY DEF Associates, GetsAddress, Loses, RadioOnly, HasCredentials
<1>2. WayBackKept' BY <1>1 DEF AliveInv, WayBackKept
<1>3. main # "arm"
  BY DEF AliveInv, JoinUnderWay, Associates, GetsAddress, Loses
<1>4. /\ Append(<<>>, "IP") # <<>> /\ Head(Append(<<>>, "IP")) = "IP"
      /\ ev # <<>> => \A e \in {"IP", "LOST"} : Append(ev, e) # <<>> /\ Head(Append(ev, e)) = Head(ev)
  BY DEF AliveInv, TypeOK
<1>5. ASSUME main = "wait", bits = {} PROVE JoinUnderWay'
  <2> USE <1>5 DEF AliveInv, JoinUnderWay
  <2>1. CASE Associates BY <1>1, <2>1 DEF Associates
  <2>2. CASE GetsAddress
    <3>1. ev' = Append(ev, "IP") /\ (ev = <<>> \/ (ev # <<>> /\ Head(ev) = "IP"))
      BY <2>2 DEF GetsAddress
    <3>2. ev' # <<>> /\ Head(ev') = "IP" BY <1>4, <3>1
    <3> QED BY <1>1, <3>2
  <2>3. CASE Loses
    <3>1. link' = "down" /\ ev' = Append(ev, "LOST") /\ (ev = <<>> \/ (ev # <<>> /\ Head(ev) = "IP"))
      BY <2>3 DEF Loses
    <3>2. CASE ev = <<>>
      <4>1. ev' = <<"LOST">> BY <3>1, <3>2
      <4> QED BY <1>1, <3>1, <4>1
    <3>3. CASE ev # <<>> /\ Head(ev) = "IP"
      <4>1. ev' # <<>> /\ Head(ev') = "IP" BY <1>4, <3>1, <3>3
      <4> QED BY <1>1, <4>1
    <3> QED BY <3>1, <3>2, <3>3
  <2> QED BY <2>1, <2>2, <2>3
<1> QED BY <1>1, <1>2, <1>3, <1>5 DEF JoinUnderWay

LEMMA AliveStep == AliveInv /\ [Next]_vars => AliveInv'
<1> SUFFICES ASSUME AliveInv, [Next]_vars PROVE AliveInv' OBVIOUS
<1>0. TypeOK' /\ QuietInv' BY WiFiTypesStep, QuietStep DEF AliveInv
<1>1. CASE Main \/ TimesOut BY <1>0, <1>1, AliveMain DEF AliveInv
<1>2. CASE EventHandler BY <1>0, <1>2, AliveEvents DEF AliveInv
<1>3. CASE Associates \/ GetsAddress \/ Loses BY <1>0, <1>3, AliveAir DEF AliveInv
<1>4. CASE PowerCut \/ PortalRetry \/ EspRestart
  BY <1>0, <1>4 DEF PowerCut, PortalRetry, EspRestart, Reboot, AliveInv, JoinUnderWay, WayBackKept
<1>5. CASE NetChanges \/ UNCHANGED vars
  BY <1>0, <1>5 DEF NetChanges, vars, wifiVars, AliveInv, JoinUnderWay, WayBackKept, HasCredentials
<1>6. CASE (\E n, p \in Nets : HandleConnect(n, p)) \/ HandleForget \/ WritePass
  <2>1. UNCHANGED <<main, ev, link, auto, state, bits>> /\ web'.at # "idle"
    BY <1>6 DEF HandleConnect, HandleForget, WritePass, WebOnly, AliveInv, TypeOK
  <2> QED BY <1>0, <2>1 DEF AliveInv, JoinUnderWay, WayBackKept
<1> QED BY <1>1, <1>2, <1>3, <1>4, <1>5, <1>6 DEF Next, Web

\* connectSta() never waits for a join that nobody works on, and a portal that
\* was opened for want of a network is always left again: what NeverStranded
\* needs besides fairness.
THEOREM JoinNeverForgotten == Spec => [](JoinIsAnswered /\ PortalRetries)
<1>1. AliveInv => JoinIsAnswered /\ PortalRetries
  BY DEF AliveInv, JoinUnderWay, JoinIsAnswered, WayBackKept, PortalRetries
<1> QED BY AliveStarts, AliveStep, <1>1, PTL DEF Spec

\* The look app_main takes at m_state loses the USB host in no course of
\* things: what HostComes needs besides fairness.
THEOREM HostNeverForgotten == GateSpec => []HostIsDue
<1> DEFINE Decision == app \in {"start", "probation", "confirmed"} => app = "start" \/ usb \/ gate # "none"
<1>1. GateInit => Decision
  BY DEF GateInit, AtReset
<1>2. Decision /\ [GateNext]_allVars => Decision'
  <2> SUFFICES ASSUME Decision, [GateNext]_allVars PROVE Decision' OBVIOUS
  <2>1. CASE AppMain
    BY <2>1 DEF AppMain, RegisterWiFi, RegisterUi, DecideUsb, StartAtOnce, StartUsbStack, ConfirmImage, Goes
  <2>2. CASE UsbGateTask
    BY <2>2 DEF UsbGateTask, Poll, GateOpens, StartUsbStack
  <2>3. CASE Restarts BY <2>3 DEF Restarts, Reset, AtReset
  <2>4. CASE Wlan \/ Asked \/ UNCHANGED allVars
    BY <2>4 DEF Wlan, Asked, allVars, gateVars
  <2> QED BY <2>1, <2>2, <2>3, <2>4 DEF GateNext
<1>3. Decision => HostIsDue
  BY DEF HostIsDue
<1> QED BY <1>1, <1>2, <1>3, PTL DEF GateSpec

=============================================================================
