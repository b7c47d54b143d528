-------------------------------- MODULE Gate --------------------------------
(***************************************************************************)
(* app_main behind wifi.start(), and the USB gate.  Three decisions are      *)
(* taken from m_state, at three moments: which pages the HTTP server gets,   *)
(* whether the interface's wildcard is among them, and whether the USB host  *)
(* starts at once or usbGateTask waits for the network first.  None of them  *)
(* is ever taken back, while the event task goes on changing m_state.        *)
(***************************************************************************)
EXTENDS WiFi

VARIABLES app,     \* where app_main is behind wifi.start()
          routes,  \* what the HTTP server has registered
          gate,    \* usbGateTask
          usb      \* startUsbStack() was called

gateVars == <<app, routes, gate, usb>>
allVars == <<vars, gateVars>>

GateTypeOK == /\ app \in {"routes", "ui", "usb", "start", "probation", "confirmed"}
              /\ routes \subseteq {"wifi", "form", "ui"}
              /\ gate \in {"none", "poll", "start"}
              /\ usb \in BOOLEAN

AtReset(a, r, g, u) == a = "routes" /\ r = {} /\ g = "none" /\ u = FALSE

GateInit == Init /\ AtReset(app, routes, gate, usb)

-----------------------------------------------------------------------------
(* app_main goes on behind wifi.start(); like usbGateTask it runs only when  *)
(* every event is handled.                                                   *)

Goes(from, to) == /\ At("serve") /\ app = from /\ app' = to
                  /\ UNCHANGED vars

\* wifi.registerRoutes()
RegisterWiFi == /\ Goes("routes", "ui")
                /\ routes' = {"wifi"} \cup (IF state = "Portal" THEN {"form"} ELSE {})
                /\ UNCHANGED <<gate, usb>>

\* assets.registerRoutes(), whose wildcard would hide the form.
RegisterUi == /\ Goes("ui", "usb")
              /\ routes' = routes \cup (IF state = "Portal" THEN {} ELSE {"ui"})
              /\ UNCHANGED <<gate, usb>>

\* A probe without the gate.
UsbAlways == Goes("usb", "start") /\ UNCHANGED <<gate, routes, usb>>

\* The wait of app_main ends here; the gate's only begins.
DecideUsb == \/ /\ state = "Connected" /\ Goes("usb", "start")
                /\ UNCHANGED <<gate, routes, usb>>
             \/ /\ state # "Connected" /\ Goes("usb", "probation")
                /\ gate' = "poll" /\ UNCHANGED <<routes, usb>>

\* From here on the port belongs to the host; what of it fails is not tried
\* again.
StartUsbStack == usb' = TRUE

StartAtOnce == Goes("start", "probation") /\ StartUsbStack /\ UNCHANGED <<routes, gate>>

ConfirmImage == Goes("probation", "confirmed") /\ UNCHANGED <<routes, gate, usb>>

AppMain == RegisterWiFi \/ RegisterUi \/ DecideUsb \/ StartAtOnce \/ ConfirmImage

-----------------------------------------------------------------------------
(* usbGateTask: looks every 500 ms, and what it saw may be over when it acts. *)

\* A gate that looks once.
PollOnce == /\ gate = "poll" /\ ev = <<>>
            /\ gate' = IF state = "Connected" THEN "start" ELSE "none"
            /\ UNCHANGED <<vars, app, routes, usb>>

Poll == /\ gate = "poll" /\ ev = <<>> /\ state = "Connected"
        /\ gate' = "start"
        /\ UNCHANGED <<vars, app, routes, usb>>

GateOpens == /\ gate = "start" /\ ev = <<>>
             /\ gate' = "none" /\ StartUsbStack
             /\ UNCHANGED <<vars, app, routes>>

UsbGateTask == Poll \/ GateOpens

-----------------------------------------------------------------------------
(* The probe. *)

Reset == AtReset(app', routes', gate', usb')

Restarts == (PowerCut \/ PortalRetry \/ EspRestart) /\ Reset

Wlan == /\ \/ Main \/ TimesOut \/ EventHandler \/ Associates \/ GetsAddress \/ Loses
           \/ NetChanges \/ WritePass
        /\ UNCHANGED gateVars

Asked == /\ "wifi" \in routes
         /\ (\E n, p \in Nets : HandleConnect(n, p)) \/ HandleForget
         /\ UNCHANGED gateVars

GateNext == AppMain \/ UsbGateTask \/ Restarts \/ Wlan \/ Asked

\* Every task runs on, the radio answers, the timer fires, a request that was
\* taken is finished.
GateFairness == /\ WF_allVars(Main /\ UNCHANGED gateVars)
                /\ WF_allVars(AppMain)
                /\ WF_allVars(UsbGateTask)
                /\ WF_allVars(EventHandler /\ UNCHANGED gateVars)
                /\ WF_allVars(Air /\ UNCHANGED gateVars)
                /\ WF_allVars(PortalRetry /\ Reset)
                /\ WF_allVars(WritePass /\ UNCHANGED gateVars)
                /\ WF_allVars(EspRestart /\ Reset)

GateSpec == GateInit /\ [][GateNext]_allVars /\ GateFairness

-----------------------------------------------------------------------------
(* Correctness. *)

\* What the HTTP server was given on the strength of one look at m_state is
\* right for as long as the probe runs: a probe that shows the form is in its
\* portal, one that shows the interface is not, and one of them is shown.
RoutesFit == /\ "form" \in routes => state = "Portal"
             /\ "ui" \in routes => state # "Portal"
             /\ app \notin {"routes", "ui"} => routes \cap {"form", "ui"} # {}

\* usbGateTask's comment: a probe that was never in a network keeps its USB
\* port as the console a PC can read, whoever starts the host and however old
\* the look at m_state is by then.
HostAfterNetwork == usb => "connected" \in bits

\* main.cpp:1255-1271: once a network is there for good the USB host has been
\* started, also when it was absent or lost at the one moment app_main looked.
HostComes == <>[](state = "Connected") => <>[]usb

\* main.cpp:946-947 "die Probe verbindet sich ohnehin unbegrenzt neu" --
\* violated: a probe that lost its network before anybody looked gives up
\* joining, and neither network nor USB host comes again.
HostComesWithNetwork == <>[]Usable => <>[]usb
=============================================================================
