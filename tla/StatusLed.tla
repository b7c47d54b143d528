----------------------------- MODULE StatusLed -----------------------------
(***************************************************************************)
(* The status lamp (status_led/StatusLed.cpp), the task that derives its    *)
(* mode (main.cpp ledSupervisorTask) and POST /api/led, which moves it to   *)
(* another pin (handleLed).  Colours and blinking are left out.             *)
(***************************************************************************)
EXTENDS Integers

CONSTANTS Pins,     \* the pins a client may name
          BadPins,  \* those on which no strip can be built
          NoPin,    \* no strip
          Others    \* what there may be to show apart from an empty cell

ASSUME LedAssumption ==
  /\ BadPins \subseteq Pins /\ NoPin \notin Pins
  /\ Others \subseteq {"NoWifi", "Busy", "TargetReady", "Idle"}

VARIABLES mode,     \* m_mode
          pin,      \* m_pin
          strip,    \* the pin m_strip is on
          reopen,   \* m_reopen
          render,   \* where the render task is
          sup,      \* what the supervisor is about to show, or "sleep"
          ledReq,   \* the request handleLed works on
          stored    \* the pin in NVS

ledVars == <<mode, pin, strip, reopen, render, sup, ledReq, stored>>
lampVars == <<pin, strip, reopen, render, ledReq, stored>>

Modes == {"Flashing", "BatteryLow", "NoWifi", "Busy", "TargetReady", "Idle"}
NoRequest == [at |-> "idle", pin |-> NoPin]

LedTypeOK ==
  /\ mode \in Modes
  /\ pin \in Pins /\ strip \in Pins \cup {NoPin}
  /\ reopen \in BOOLEAN
  /\ render \in {"run", "close", "open"}
  /\ sup \in (Modes \ {"Flashing"}) \cup {"sleep"}
  /\ ledReq \in [at : {"idle", "set", "wait"}, pin : Pins \cup {NoPin}]
  /\ stored \in Pins

LedInit == \E p \in Pins \ BadPins :
  /\ mode = "Idle"
  /\ pin = p /\ strip = p /\ stored = p
  /\ reopen = FALSE /\ render = "run"
  /\ sup = "sleep" /\ ledReq = NoRequest

-----------------------------------------------------------------------------
(* The supervisor: every 200 ms it looks, then it shows what it has found.  *)

\* An empty cell goes first; what else is shown depends on the network, the
\* clients and the target.
Look(low) == /\ sup = "sleep" /\ mode # "Flashing"
             /\ IF low THEN sup' = "BatteryLow" ELSE \E m \in Others : sup' = m
             /\ UNCHANGED <<mode, lampVars>>

Show == /\ sup # "sleep"
        /\ mode' = sup /\ sup' = "sleep"
        /\ UNCHANGED lampVars

\* FlashingIndicator.
SetMode(m) == mode' = m /\ UNCHANGED <<sup, lampVars>>

-----------------------------------------------------------------------------
(* The render task and handleLed. *)

TakeReopen == /\ render = "run" /\ reopen
              /\ reopen' = FALSE /\ render' = "close"
              /\ UNCHANGED <<mode, pin, strip, sup, ledReq, stored>>

CloseStrip == /\ render = "close"
              /\ strip' = NoPin /\ render' = "open"
              /\ UNCHANGED <<mode, pin, reopen, sup, ledReq, stored>>

OpenStrip == /\ render = "open"
             /\ strip' = IF pin \in BadPins THEN NoPin ELSE pin
             /\ render' = "run"
             /\ UNCHANGED <<mode, pin, reopen, sup, ledReq, stored>>

Render == TakeReopen \/ CloseStrip \/ OpenStrip

\* setPin(): nothing to do when a strip is on that pin already.
SetPin == /\ ledReq.at = "idle"
          /\ \E p \in Pins :
               IF p = pin /\ strip # NoPin
               THEN stored' = p /\ UNCHANGED <<pin, ledReq>>
               ELSE /\ pin' = p /\ ledReq' = [at |-> "set", pin |-> p]
                    /\ UNCHANGED stored
          /\ UNCHANGED <<mode, strip, reopen, render, sup>>

AskReopen == /\ ledReq.at = "set"
             /\ reopen' = TRUE /\ ledReq' = [ledReq EXCEPT !.at = "wait"]
             /\ UNCHANGED <<mode, pin, strip, render, sup, stored>>

\* The wait ends when the flag is down, which is before the strip is rebuilt;
\* its 25 ticks are never needed while the render task runs every one.  Only a
\* pin that is said to work is remembered.
Answered == /\ ledReq.at = "wait" /\ ~reopen
            /\ stored' = IF strip # NoPin THEN ledReq.pin ELSE stored
            /\ ledReq' = NoRequest
            /\ UNCHANGED <<mode, pin, strip, reopen, render, sup>>

-----------------------------------------------------------------------------
\* main.cpp:1066-1068 "wenn es leuchtet, bleibt er gemerkt" -- violated: the
\* flag goes down before the new strip is tried, so a pin is remembered on the
\* strength of the old strip.
RememberedPinWorks == stored \notin BadPins
=============================================================================
