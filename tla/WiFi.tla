-------------------------------- MODULE WiFi --------------------------------
(***************************************************************************)
(* WiFiManager: joining the stored network at boot, the portal when that    *)
(* fails, and reconnecting.  `main` walks through start(), connectSta() and  *)
(* startPortal(); the event task runs eventHandler.  The event task has the  *)
(* higher priority on the same core, so main goes on only when every event   *)
(* is handled.  The radio joins or fails after at least one beacon interval, *)
(* long after main has armed its wait.                                       *)
(***************************************************************************)
EXTENDS Integers, Sequences

CONSTANTS Nets,  \* protected networks; a password is named for its network
          None,  \* an absent name or password
          Bounds \* bound: how often the world does what it may leave undone

ASSUME NoneAssumption == None \notin Nets

VARIABLES nvs,      \* KEY_SSID, KEY_PASS
          cfg,      \* the credentials in the driver's RAM
          near,     \* the networks in reach
          radio,    \* esp_wifi mode
          link,     \* the station: "down", "joining", "linked" (no IP yet), "online"
          ev,       \* the default event loop's queue
          state, auto, attempts, bits, \* m_state, m_staAutoConnect, m_attempts, m_events
          retry,    \* m_portalRetry runs
          main,     \* where app_main is
          web,      \* handleConnect, handleForget
          left      \* what is left of Bounds

wifiVars == <<cfg, radio, link, ev, state, auto, attempts, bits, retry, main, web>>
vars == <<nvs, near, left, wifiVars>>

MaxAttempts == 3
HasCredentials == nvs.ssid # None
Works(c) == c.ssid \in near /\ c.pass = c.ssid
Usable == Works(nvs)

Spend(what) == left[what] > 0 /\ left' = [left EXCEPT ![what] = @ - 1]

TypeOK ==
  /\ nvs \in [ssid : Nets \cup {None}, pass : Nets \cup {None}] /\ cfg \in [ssid : Nets \cup {None}, pass : Nets \cup {None}]
  /\ near \subseteq Nets
  /\ radio \in {"off", "STA", "APSTA"} /\ link \in {"down", "joining", "linked", "online"}
  /\ ev \in Seq({"START", "LOST", "IP"}) /\ state \in {"Idle", "Connecting", "Connected", "Portal"}
  /\ auto \in BOOLEAN /\ retry \in BOOLEAN /\ attempts \in 0..MaxAttempts
  /\ bits \subseteq {"connected", "failed"}
  /\ main \in {"boot", "join", "arm", "wait", "survey", "idle", "portal", "opening", "serve"}
  /\ web \in [at : {"idle", "pass", "restart"}, pass : Nets \cup {None}]

Fresh(c) == /\ c = [ssid |-> None, pass |-> None]
            /\ radio = "off" /\ link = "down" /\ ev = <<>> /\ state = "Idle"
            /\ auto = FALSE /\ attempts = 0 /\ bits = {} /\ retry = FALSE
            /\ main = "boot" /\ web = [at |-> "idle", pass |-> None]

Init == /\ nvs \in {[ssid |-> n, pass |-> n] : n \in Nets \cup {None}}
        /\ near \in SUBSET Nets /\ left \in Bounds
        /\ Fresh(cfg)

Reboot == /\ cfg' = [ssid |-> None, pass |-> None]
          /\ radio' = "off" /\ link' = "down" /\ ev' = <<>> /\ state' = "Idle"
          /\ auto' = FALSE /\ attempts' = 0 /\ bits' = {} /\ retry' = FALSE
          /\ main' = "boot" /\ web' = [at |-> "idle", pass |-> None]

-----------------------------------------------------------------------------
(* app_main; a step of it needs the event queue empty. *)

At(place) == main = place /\ ev = <<>>

Start == /\ At("boot")
         /\ main' = IF HasCredentials THEN "join" ELSE "portal"
         /\ UNCHANGED <<cfg, radio, link, ev, state, auto, attempts, bits, retry, web>>

ConnectSta == /\ At("join")
              /\ cfg' = nvs /\ auto' = TRUE /\ radio' = "STA"
              /\ ev' = <<"START">> /\ main' = "arm"
              /\ UNCHANGED <<link, state, attempts, bits, retry, web>>

\* By now the handler has counted the first attempt; that count is lost here.
Arm == /\ At("arm")
       /\ state' = "Connecting" /\ attempts' = 0 /\ bits' = {} /\ main' = "wait"
       /\ UNCHANGED <<cfg, radio, link, ev, auto, retry, web>>

Joined == /\ At("wait") /\ "connected" \in bits
          /\ main' = "serve"
          /\ UNCHANGED <<cfg, radio, link, ev, state, auto, attempts, bits, retry, web>>

GivesUp == /\ At("wait") /\ bits = {"failed"}
           /\ main' = "survey"
           /\ UNCHANGED <<cfg, radio, link, ev, state, auto, attempts, bits, retry, web>>

\* esp_wifi_stop() reports a station that was not down as disconnected.
StopSta == /\ At("survey")
           /\ radio' = "off" /\ link' = "down"
           /\ ev' = IF link = "down" THEN <<>> ELSE <<"LOST">>
           /\ main' = "idle"
           /\ UNCHANGED <<cfg, state, auto, attempts, bits, retry, web>>

JoinFailed == /\ At("idle")
              /\ state' = "Idle" /\ main' = "portal"
              /\ UNCHANGED <<cfg, radio, link, ev, auto, attempts, bits, retry, web>>

StartPortal == /\ At("portal")
               /\ auto' = FALSE /\ radio' = "APSTA"
               /\ ev' = <<"START">> /\ main' = "opening"
               /\ UNCHANGED <<cfg, link, state, attempts, bits, retry, web>>

\* A portal without the way back to a network that returns.
PortalStays == /\ At("opening")
               /\ state' = "Portal" /\ retry' = FALSE /\ main' = "serve"
               /\ UNCHANGED <<cfg, radio, link, ev, auto, attempts, bits, web>>

PortalOpen == /\ At("opening")
              /\ state' = "Portal" /\ retry' = HasCredentials /\ main' = "serve"
              /\ UNCHANGED <<cfg, radio, link, ev, auto, attempts, bits, web>>

Main == /\ \/ Start \/ ConnectSta \/ Arm \/ Joined \/ GivesUp \/ StopSta
           \/ JoinFailed \/ StartPortal \/ PortalOpen
        /\ UNCHANGED <<nvs, near, left>>

\* No answer within connectTimeoutMs.
TimesOut == /\ At("wait") /\ bits = {} /\ Spend("slow")
            /\ main' = "survey"
            /\ UNCHANGED <<nvs, near, cfg, radio, link, ev, state, auto, attempts, bits, retry, web>>

-----------------------------------------------------------------------------
(* eventHandler, in the event task. *)

\* esp_wifi_connect(): needs the radio, and a station that is down.
EspConnect == link' = IF radio # "off" /\ link = "down" THEN "joining" ELSE link

\* A handler that joins whenever the station starts.
AlwaysConnects == attempts' = 1 /\ EspConnect /\ UNCHANGED <<state, bits>>

OnStart == \/ auto /\ attempts' = 1 /\ EspConnect /\ UNCHANGED <<state, bits>>
           \/ ~auto /\ UNCHANGED <<attempts, link, state, bits>>

OnLost ==
  \/ /\ state = "Connected"
     /\ state' = "Connecting" /\ EspConnect /\ UNCHANGED <<attempts, bits>>
  \/ /\ state = "Connecting" /\ attempts < MaxAttempts
     /\ attempts' = attempts + 1 /\ EspConnect /\ UNCHANGED <<state, bits>>
  \/ /\ state # "Connected" /\ (state # "Connecting" \/ attempts >= MaxAttempts)
     /\ bits' = IF state = "Connecting" THEN bits \cup {"failed"} ELSE bits
     /\ UNCHANGED <<state, attempts, link>>

OnGotIp == /\ attempts' = 0 /\ state' = "Connected" /\ bits' = bits \cup {"connected"}
           /\ UNCHANGED link

EventHandler == /\ ev # <<>> /\ ev' = Tail(ev)
                /\ \/ Head(ev) = "START" /\ OnStart
                   \/ Head(ev) = "LOST" /\ OnLost
                   \/ Head(ev) = "IP" /\ OnGotIp
                /\ UNCHANGED <<nvs, near, left, cfg, radio, auto, retry, main, web>>

-----------------------------------------------------------------------------
(* The radio and the world. *)

RadioOnly == UNCHANGED <<nvs, near, cfg, radio, state, auto, attempts, bits, retry, main, web>>

Associates == /\ link = "joining" /\ main # "arm" /\ Works(cfg)
              /\ link' = "linked" /\ UNCHANGED <<ev, left>> /\ RadioOnly

GetsAddress == /\ link = "linked" /\ cfg.ssid \in near
               /\ link' = "online" /\ ev' = Append(ev, "IP") /\ UNCHANGED left /\ RadioOnly

\* The network refuses, is out of reach or vanishes; a good one does so seldom.
Loses == /\ link # "down" /\ main # "arm"
         /\ \/ ~Works(cfg) /\ UNCHANGED left
            \/ Works(cfg) /\ Spend("fades")
         /\ link' = "down" /\ ev' = Append(ev, "LOST") /\ RadioOnly

Air == Associates \/ GetsAddress \/ (~Works(cfg) /\ Loses)

NetChanges == /\ Spend("nets")
              /\ \E n \in Nets : near' = (near \ {n}) \cup ({n} \ near)
              /\ UNCHANGED <<nvs, wifiVars>>

PowerCut == Spend("cuts") /\ Reboot /\ UNCHANGED <<nvs, near>>

\* The timer of startPortal: esp_restart().
PortalRetry == retry /\ Reboot /\ UNCHANGED <<nvs, near, left>>

-----------------------------------------------------------------------------
(* The requests, from either network, once the routes are registered. *)

WebOnly == UNCHANGED <<near, cfg, radio, link, ev, state, auto, attempts, bits, retry, main>>

Serves == main = "serve" /\ state \in {"Connected", "Portal"} /\ web.at = "idle"

\* The name is written first, the password in a second write.
HandleConnect(ssid, pass) ==
  /\ Serves /\ Spend("requests")
  /\ nvs' = [nvs EXCEPT !.ssid = ssid] /\ web' = [at |-> "pass", pass |-> pass]
  /\ WebOnly

HandleForget == /\ Serves /\ Spend("requests")
                /\ nvs' = [nvs EXCEPT !.ssid = None] /\ web' = [at |-> "pass", pass |-> None]
                /\ WebOnly

WritePass == /\ web.at = "pass"
             /\ nvs' = [nvs EXCEPT !.pass = web.pass] /\ web' = [web EXCEPT !.at = "restart"]
             /\ WebOnly /\ UNCHANGED left

EspRestart == web.at = "restart" /\ Reboot /\ UNCHANGED <<nvs, near, left>>

Web == WritePass \/ EspRestart

Next == \/ Main \/ TimesOut \/ EventHandler
        \/ Associates \/ GetsAddress \/ Loses \/ NetChanges
        \/ PowerCut \/ PortalRetry
        \/ (\E n, p \in Nets : HandleConnect(n, p)) \/ HandleForget \/ Web

\* Both tasks run, the radio answers, the timer fires, a request is finished.
Fairness == /\ WF_vars(Main)
            /\ WF_vars(EventHandler)
            /\ WF_vars(Air)
            /\ WF_vars(PortalRetry)
            /\ WF_vars(Web)

Spec == Init /\ [][Next]_vars /\ Fairness

-----------------------------------------------------------------------------
\* While the probe offers its own network the station makes no attempt to join
\* one: it would take the radio from the portal, which would vanish from the
\* phones that are to use it (m_staAutoConnect).
PortalIsQuiet == radio = "APSTA" => link = "down" /\ state # "Connected"

\* After every boot the probe can be reached: it comes online or opens its
\* portal. With credentials that work from some time on it comes online after
\* every boot, also when it first had to open the portal (portal_retry).
NeverStranded ==
  /\ (main = "boot") ~> (state \in {"Connected", "Portal"})
  /\ <>[]Usable => ((main = "boot") ~> (state = "Connected"))

\* What eventHandler says of a probe that has been online ("keep trying
\* forever"): when its network is there for good it is online again and again.
ReconnectsForever == <>[]Usable => []<>(state = "Connected")
=============================================================================
