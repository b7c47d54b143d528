----------------------------- MODULE PowerSave -----------------------------
(***************************************************************************)
(* Dynamic WiFi power saving: the radio stays awake while a TCP client is  *)
(* connected (net_wifi/WiFiManager.cpp acquireLowLatency,                  *)
(* releaseLowLatency, applyPowerSave; serial_bridge/ClientActivity.hpp;    *)
(* src/main.cpp onClientActivity, startUsbStack).                          *)
(*                                                                         *)
(* Each server task opens a ClientActivityScope per client.  The holder    *)
(* counter is an atomic that is changed outside the mutex; the radio mode  *)
(* is changed inside it, from a count read inside it.                      *)
(*                                                                         *)
(* Servers start only once the WiFi is up, so the portal's early return in *)
(* applyPowerSave never applies here.                                      *)
(***************************************************************************)
EXTENDS Integers, FiniteSets

CONSTANTS
  Servers,       \* the tasks that serve clients: console and RFC2217
  EarlyServers,  \* those started before the activity hook is installed
  MainTask,      \* app_main, which joins the network first
  FailingCalls,  \* the tasks whose esp_wifi_set_ps call may fail
  Nobody         \* the mutex is free

Tasks == Servers \cup {MainTask}

ASSUME ServersAssumption ==
  /\ IsFiniteSet(Servers)
  /\ EarlyServers \subseteq Servers
  /\ MainTask \notin Servers
  /\ Nobody \notin Tasks
  /\ FailingCalls \subseteq Tasks

VARIABLES
  holders,   \* m_awakeHolders
  psNone,    \* m_psNoneActive
  psMode,    \* what the driver really does
  mutex,     \* m_psMutex: its holder
  pc,        \* where each task is
  goal,      \* where applyPowerSave returns to
  want,      \* wantAwake, read inside the mutex
  counted,   \* the scope copied a hook that was already installed
  boot,      \* how far startUsbStack has come
  driver     \* history: "obeys" until the first refused call

powerVars == <<holders, psNone, psMode, mutex, pc, goal, want, counted, boot, driver>>

(* ---------------------------- startup ---------------------------------- *)

(* connectSta(): counter zeroed and the flag set the wrong way round so    *)
(* that the first applyPowerSave() really sets the mode.                   *)
PowerInit ==
  /\ holders = 0 /\ psNone = TRUE
  /\ psMode \in {"doze", "awake"}
  /\ mutex = Nobody
  /\ pc = [t \in Tasks |-> IF t = MainTask THEN "lock" ELSE "idle"]
  /\ goal = [t \in Tasks |-> "idle"]
  /\ want = [t \in Tasks |-> FALSE]
  /\ counted = [t \in Tasks |-> FALSE]
  /\ boot = "join"
  /\ driver = "obeys"

(* startUsbStack(): console server, then the hooks, then RFC2217. *)
Boot(from, to) ==
  /\ boot = from /\ boot' = to
  /\ UNCHANGED <<holders, psNone, psMode, mutex, pc, goal, want, counted, driver>>

StartConsole == pc[MainTask] = "idle" /\ Boot("join", "console")
InstallHook  == Boot("console", "hooked")
StartRfc2217 == Boot("hooked", "up")

Started(s) == boot = "up" \/ (s \in EarlyServers /\ boot \in {"console", "hooked"})

(* ------------------------ one client session --------------------------- *)

Goto(t, label) == pc' = [pc EXCEPT ![t] = label]

(* ClientActivityScope(): the hook is copied, and called if there is one. *)
Accept(s) ==
  /\ pc[s] = "idle" /\ Started(s)
  /\ LET hooked == boot \in {"hooked", "up"} IN
       /\ counted' = [counted EXCEPT ![s] = hooked]
       /\ Goto(s, IF hooked THEN "add" ELSE "session")
  /\ UNCHANGED <<holders, psNone, psMode, mutex, goal, want, boot, driver>>

(* acquireLowLatency() up to applyPowerSave(). *)
Acquire(s) ==
  /\ pc[s] = "add"
  /\ holders' = holders + 1
  /\ goal' = [goal EXCEPT ![s] = "session"]
  /\ Goto(s, "lock")
  /\ UNCHANGED <<psNone, psMode, mutex, want, counted, boot, driver>>

(* ~ClientActivityScope(): the client left. *)
Leave(s) ==
  /\ pc[s] = "session"
  /\ Goto(s, IF counted[s] THEN "sub" ELSE "idle")
  /\ UNCHANGED <<holders, psNone, psMode, mutex, goal, want, counted, boot, driver>>

(* A forgotten release. *)
ReleaseNone(s) ==
  /\ pc[s] = "sub"
  /\ goal' = [goal EXCEPT ![s] = "idle"]
  /\ Goto(s, "lock")
  /\ UNCHANGED <<holders, psNone, psMode, mutex, want, counted, boot, driver>>

(* releaseLowLatency() up to applyPowerSave(). *)
Release(s) ==
  /\ pc[s] = "sub"
  /\ holders' = IF holders <= 0 THEN 0 ELSE holders - 1
  /\ goal' = [goal EXCEPT ![s] = "idle"]
  /\ Goto(s, "lock")
  /\ UNCHANGED <<psNone, psMode, mutex, want, counted, boot, driver>>

(* -------------------------- applyPowerSave ----------------------------- *)

Lock(t) ==
  /\ pc[t] = "lock" /\ mutex = Nobody
  /\ mutex' = t
  /\ Goto(t, "read")
  /\ UNCHANGED <<holders, psNone, psMode, goal, want, counted, boot, driver>>

(* The last caller decides: a switch instead of a counter. *)
ReadSwitch(t) ==
  /\ pc[t] = "read"
  /\ want' = [want EXCEPT ![t] = goal[t] = "session"]
  /\ Goto(t, "set")
  /\ UNCHANGED <<holders, psNone, psMode, mutex, goal, counted, boot, driver>>

ReadHolders(t) ==
  /\ pc[t] = "read"
  /\ want' = [want EXCEPT ![t] = holders > 0]
  /\ Goto(t, "set")
  /\ UNCHANGED <<holders, psNone, psMode, mutex, goal, counted, boot, driver>>

Mode(awake) == IF awake THEN "awake" ELSE "doze"

(* The flag follows the request even when the driver refused. *)
SetAndUnlockBlind(t) ==
  /\ pc[t] = "set"
  /\ psNone' = want[t]
  /\ \/ psMode' = Mode(want[t]) /\ UNCHANGED driver
     \/ t \in FailingCalls /\ driver' = "failed" /\ UNCHANGED psMode
  /\ mutex' = Nobody
  /\ Goto(t, goal[t])
  /\ UNCHANGED <<holders, goal, want, counted, boot>>

(* esp_wifi_set_ps() when the mode has to change; the flag follows only    *)
(* its success; then the mutex is given back.                              *)
SetAndUnlock(t) ==
  /\ pc[t] = "set"
  /\ \/ /\ want[t] # psNone
        /\ psNone' = want[t] /\ psMode' = Mode(want[t]) /\ UNCHANGED driver
     \/ /\ want[t] # psNone /\ t \in FailingCalls
        /\ driver' = "failed" /\ UNCHANGED <<psNone, psMode>>
     \/ want[t] = psNone /\ UNCHANGED <<psNone, psMode, driver>>
  /\ mutex' = Nobody
  /\ Goto(t, goal[t])
  /\ UNCHANGED <<holders, goal, want, counted, boot>>

(* -------------------------- the specification -------------------------- *)

ApplyStep(t) == Lock(t) \/ ReadHolders(t) \/ SetAndUnlock(t)

PowerNext ==
  \/ StartConsole \/ InstallHook \/ StartRfc2217
  \/ \E s \in Servers : Accept(s) \/ Acquire(s) \/ Leave(s) \/ Release(s)
  \/ \E t \in Tasks : ApplyStep(t)

PowerSpec == PowerInit /\ [][PowerNext]_powerVars

(* ------------------------------ properties ----------------------------- *)

PowerTypeOK ==
  /\ holders \in Nat
  /\ psNone \in BOOLEAN
  /\ psMode \in {"doze", "awake"}
  /\ mutex \in Tasks \cup {Nobody}
  /\ pc \in [Tasks -> {"idle", "add", "lock", "read", "set", "session", "sub"}]
  /\ goal \in [Tasks -> {"idle", "session"}]
  /\ want \in [Tasks -> BOOLEAN]
  /\ counted \in [Tasks -> BOOLEAN]
  /\ boot \in {"join", "console", "hooked", "up"}
  /\ driver \in {"obeys", "failed"}

(* The tasks whose acquire is not yet matched by a release. *)
Holding(t) ==
  \/ pc[t] = "sub"
  \/ pc[t] = "session" /\ counted[t]
  \/ pc[t] \in {"lock", "read", "set"} /\ goal[t] = "session"

Holders == {t \in Tasks : Holding(t)}

(* The counter is the number of open, counted sessions: a release never    *)
(* comes without its acquire (the case releaseLowLatency warns about).     *)
CounterIsExact == holders = Cardinality(Holders)

(* While the driver obeys, the radio is awake during the whole of every    *)
(* counted session, whatever the other server acquires and releases.       *)
SessionKeepsAwake ==
  driver = "obeys" =>
    \A t \in Servers : pc[t] = "session" /\ counted[t] => psMode = "awake"

(* When all clients are gone and every task is at rest the radio dozes:    *)
(* no forgotten holder keeps it awake.                                     *)
IdleMeansDoze ==
  (driver = "obeys" /\ \A t \in Tasks : pc[t] = "idle") => psMode = "doze"

(* Once the first mode was set, isRadioAwake() tells the truth, even when  *)
(* later calls into the driver fail.                                       *)
FlagIsTrue ==
  (MainTask \notin FailingCalls /\ boot # "join") => (psNone <=> psMode = "awake")

(* The comment in startUsbStack: the radio stays awake as long as one of   *)
(* the two servers has a client, counted or not.                           *)
ClientKeepsAwake == \A s \in Servers : pc[s] = "session" => psMode = "awake"
=============================================================================
