---------------------------- MODULE ConsoleLine ----------------------------
(***************************************************************************)
(* Who sets the line coding of the target, and what is left of it: the     *)
(* serial task that opens a session, the web server that sends a 1200-baud *)
(* touch, and the RFC2217 server whose client chooses what it likes        *)
(* (UsbTarget.cpp touch, waitForMsc, restoreConsole, enterBootsel,         *)
(* setLineCoding; Rfc2217Server.cpp run, handleSubnegotiation,             *)
(* applyLineCoding).                                                       *)
(*                                                                         *)
(* m_baudRate of UsbTarget outlives the sessions, is read by two tasks and *)
(* written by three after transfers that block; m_baudRate of Rfc2217Server*)
(* is a second variable of the same name.  Opening, closing and losing a   *)
(* session are taken from UsbTarget in one step each.                      *)
(***************************************************************************)
EXTENDS Integers

CONSTANTS
  ClientBauds,     \* what an RFC2217 client asks for; {} = no client comes
  ClientFramings,  \* data bits, parity and stop bits it asks for
  Touches,         \* bound: how often enterBootsel() is called
  MaxOpens,        \* bound: how often the target comes as CDC
  MaxFailures      \* bound: how many control transfers fail

CONSOLE_BAUD   == 115200
TOUCH_BAUD     == 1200
TOUCH_ATTEMPTS == 2
DEFAULT        == "8N1"

ASSUME LineAssumption ==
  /\ ClientBauds \subseteq Nat \ {0}
  /\ Touches \in Nat /\ MaxOpens \in Nat /\ MaxFailures \in Nat

VARIABLES
  dev,       \* the target: "absent", "console" or "storage"
  open,      \* m_serial is not null
  line,      \* what the target was last told: coding and DTR
  baud,      \* UsbTarget::m_baudRate
  due,       \* the serial task's notification
  spc,       \* serial task
  want,      \* openSerial: the rate that was read for setLineCoding()
  hpc,       \* web server in enterBootsel
  keep,      \* touch: keep
  failed,    \* the last control transfer of touch() did not get through
  attempt,   \* enterBootsel: attempt
  result,    \* what the last enterBootsel() returned
  rpc,       \* RFC2217 server
  rbaud,     \* Rfc2217Server::m_baudRate
  rframing,  \* Rfc2217Server::m_dataBits, m_parity and m_stopBits
  apart,     \* history: no touch, no replug and no opening of a session while
             \* a client was served, and no failed change of its line coding
  raced,     \* history: openSerial() read the rate between touch()'s store of
             \* 1200 and the one that undoes it
  opens, touches, failures

http     == <<hpc, keep, failed, attempt, result, touches>>
rfc2217  == <<rpc, rbaud, rframing>>
target   == <<dev, open, due, opens>>
session  == <<target, spc, want>>
history  == <<apart, raced>>
vars     == <<session, line, baud, http, rfc2217, failures, history>>

Coding(b, f, dtr) == [baud |-> b, framing |-> f, dtr |-> dtr]
Idle == Coding(CONSOLE_BAUD, DEFAULT, TRUE)

Init ==
  /\ dev = "absent" /\ open = FALSE /\ line = Idle
  /\ baud = CONSOLE_BAUD
  /\ due = FALSE /\ spc = "wait" /\ want = CONSOLE_BAUD
  /\ hpc = "idle" /\ keep = CONSOLE_BAUD /\ failed = FALSE /\ attempt = 1
  /\ result = "none"
  /\ rpc = "idle" /\ rbaud = CONSOLE_BAUD /\ rframing = DEFAULT
  /\ apart = TRUE /\ raced = FALSE
  /\ opens = 0 /\ touches = 0 /\ failures = 0

(* ------------------------- control transfers --------------------------- *)

(* setLineCoding(): a transfer that blocks, and a store if it got through. *)
SetCoding(b, f) ==
  /\ open
  /\ line' = [line EXCEPT !.baud = b, !.framing = f]
  /\ UNCHANGED failures

SetDtr(on) ==
  /\ open
  /\ line' = [line EXCEPT !.dtr = on]
  /\ UNCHANGED failures

(* No session, or the target does not acknowledge.                         *)
NoTransfer ==
  /\ \/ ~open /\ UNCHANGED failures
     \/ open /\ failures < MaxFailures /\ failures' = failures + 1
  /\ UNCHANGED line

transfer == <<line, baud, failures>>

(* --------------------------- the target -------------------------------- *)

TargetComes ==
  /\ dev = "absent" /\ opens < MaxOpens
  /\ dev' = "console" /\ opens' = opens + 1
  /\ due' = TRUE
  /\ UNCHANGED <<open, spc, want, transfer, http, rfc2217, history>>

TargetLeaves ==
  /\ dev # "absent" /\ dev' = "absent"
  /\ open' = FALSE
  /\ apart' = (apart /\ rpc = "idle")
  /\ UNCHANGED <<due, opens, spc, want, transfer, http, rfc2217, raced>>

(* An RP2040 that saw the touch. *)
JumpToBootsel ==
  /\ dev = "console" /\ open /\ line.baud = TOUCH_BAUD
  /\ dev' = "storage" /\ open' = FALSE
  /\ apart' = (apart /\ rpc = "idle")
  /\ UNCHANGED <<due, opens, spc, want, transfer, http, rfc2217, raced>>

(* ---------------------------- serial task ------------------------------ *)

OpenSerial ==
  /\ spc = "wait" /\ due
  /\ due' = FALSE
  /\ IF dev = "console" /\ ~open
     THEN open' = TRUE /\ spc' = "read" /\ apart' = (apart /\ rpc = "idle")
     ELSE UNCHANGED <<open, spc, apart>>
  /\ UNCHANGED <<dev, opens, want, transfer, http, rfc2217, raced>>

(* The next session takes the console's rate, whatever was used before:    *)
(* m_baudRate is read,                                                     *)
ReadRate ==
  /\ spc = "read" /\ spc' = "coding"
  /\ want' = baud
  /\ raced' = (raced \/ (hpc = "keep" /\ ~failed))
  /\ UNCHANGED <<target, transfer, http, rfc2217, apart>>

(* sent, *)
OpenCoding ==
  /\ spc = "coding"
  /\ \/ SetCoding(want, DEFAULT) /\ spc' = "store"
     \/ NoTransfer /\ spc' = "lines"
  /\ UNCHANGED <<target, want, baud, http, rfc2217, history>>

(* and stored again. *)
OpenStore ==
  /\ spc = "store" /\ spc' = "lines"
  /\ baud' = want
  /\ UNCHANGED <<target, want, line, failures, http, rfc2217, history>>

OpenLines ==
  /\ spc = "lines" /\ spc' = "wait"
  /\ SetDtr(TRUE) \/ NoTransfer
  /\ UNCHANGED <<target, want, baud, http, rfc2217, history>>

(* --------------------- web server: enterBootsel ------------------------ *)

Return(r) == hpc' = "idle" /\ result' = r

EnterBootsel ==
  /\ hpc = "idle" /\ touches < Touches
  /\ touches' = touches + 1
  /\ attempt' = 1
  /\ CASE dev = "storage" -> Return("ok")
       [] dev # "storage" /\ ~open -> Return("refused")
       [] OTHER -> hpc' = "touch" /\ UNCHANGED result
  /\ apart' = (apart /\ (rpc = "idle" \/ hpc' = "idle"))
  /\ UNCHANGED <<keep, failed, session, transfer, rfc2217, raced>>

(* touch(): the rate is noted, if there is a session, *)
Touch ==
  /\ hpc = "touch"
  /\ IF open
     THEN keep' = baud /\ hpc' = "touchCoding" /\ UNCHANGED failed
     ELSE failed' = TRUE /\ hpc' = "judge" /\ UNCHANGED keep
  /\ UNCHANGED <<attempt, result, touches, session, transfer, rfc2217, history>>

(* then set to 1200 and, like any other, stored, *)
TouchCoding ==
  /\ hpc = "touchCoding"
  /\ \/ SetCoding(TOUCH_BAUD, DEFAULT) /\ failed' = FALSE /\ hpc' = "touchStore"
     \/ NoTransfer /\ failed' = TRUE /\ hpc' = "keep"
  /\ UNCHANGED <<baud, keep, attempt, result, touches, session, rfc2217, history>>

TouchStore ==
  /\ hpc = "touchStore" /\ hpc' = "keep"
  /\ baud' = TOUCH_BAUD
  /\ UNCHANGED <<line, failures, keep, failed, attempt, result, touches, session,
                 rfc2217, history>>

(* touch() that does not put m_baudRate back. *)
TouchKeepNot ==
  /\ hpc = "keep"
  /\ hpc' = IF failed THEN "judge" ELSE "dtrOn"
  /\ UNCHANGED <<keep, failed, attempt, result, touches, session, transfer, rfc2217, history>>

(* and put back. *)
TouchKeep ==
  /\ hpc = "keep"
  /\ baud' = keep
  /\ hpc' = IF failed THEN "judge" ELSE "dtrOn"
  /\ UNCHANGED <<line, failures, keep, failed, attempt, result, touches, session,
                 rfc2217, history>>

DtrOn ==
  /\ hpc = "dtrOn" /\ hpc' = "dtrOff"
  /\ SetDtr(TRUE) \/ NoTransfer
  /\ UNCHANGED <<baud, keep, failed, attempt, result, touches, session, rfc2217, history>>

DtrOff ==
  /\ hpc = "dtrOff" /\ hpc' = "judge"
  /\ \/ SetDtr(FALSE) /\ failed' = FALSE
     \/ NoTransfer /\ failed' = TRUE
  /\ UNCHANGED <<baud, keep, attempt, result, touches, session, rfc2217, history>>

waiting == <<keep, failed, touches, session, transfer, rfc2217, history>>

(* A touch that failed on a target that is still there ends the call.      *)
Judge ==
  /\ hpc = "judge"
  /\ IF failed /\ open /\ dev # "storage"
     THEN Return("notSent")
     ELSE hpc' = "waitForMsc" /\ UNCHANGED result
  /\ UNCHANGED <<attempt, waiting>>

BootselReached ==
  /\ hpc = "waitForMsc" /\ dev = "storage"
  /\ Return("ok")
  /\ UNCHANGED <<attempt, waiting>>

(* waitForMsc() ran out. *)
NoBootsel ==
  /\ hpc = "waitForMsc" /\ dev # "storage"
  /\ IF attempt < TOUCH_ATTEMPTS
     THEN attempt' = attempt + 1 /\ hpc' = "touch"
     ELSE hpc' = "restoreCoding" /\ UNCHANGED attempt
  /\ UNCHANGED <<result, waiting>>

(* restoreConsole() whose line coding is forgotten. *)
RestoreCodingNot ==
  /\ hpc = "restoreCoding" /\ hpc' = "restoreLines"
  /\ UNCHANGED <<transfer, keep, failed, attempt, result, touches, session, rfc2217, history>>

RestoreCoding ==
  /\ hpc = "restoreCoding"
  /\ \/ SetCoding(CONSOLE_BAUD, DEFAULT) /\ hpc' = "restoreStore"
     \/ NoTransfer /\ hpc' = "restoreLines"
  /\ UNCHANGED <<baud, keep, failed, attempt, result, touches, session, rfc2217, history>>

RestoreStore ==
  /\ hpc = "restoreStore" /\ hpc' = "restoreLines"
  /\ baud' = CONSOLE_BAUD
  /\ UNCHANGED <<line, failures, keep, failed, attempt, result, touches, session,
                 rfc2217, history>>

RestoreLines ==
  /\ hpc = "restoreLines" /\ Return("timeout")
  /\ SetDtr(TRUE) \/ NoTransfer
  /\ UNCHANGED <<baud, keep, failed, attempt, touches, session, rfc2217, history>>

(* ------------------------- RFC2217 server ------------------------------ *)

ClientComes ==
  /\ rpc = "idle" /\ ClientBauds # {} /\ rpc' = "client"
  /\ apart' = (apart /\ hpc = "idle" /\ spc = "wait")
  /\ UNCHANGED <<rbaud, rframing, session, transfer, http, raced>>

(* applyLineCoding(): what came of it is ignored.                          *)
Apply(b, f, stored, failing) ==
  \/ SetCoding(b, f) /\ rpc' = stored /\ UNCHANGED apart
  \/ NoTransfer /\ rpc' = failing /\ apart' = (apart /\ ~open)

SetBaudrate(b) ==
  /\ rpc = "client"
  /\ rbaud' = b
  /\ Apply(b, rframing, "store", "client")
  /\ UNCHANGED <<rframing, baud, session, http, raced>>

SetFraming(f) ==
  /\ rpc = "client"
  /\ rframing' = f
  /\ Apply(rbaud, f, "store", "client")
  /\ UNCHANGED <<rbaud, baud, session, http, raced>>

ApplyStore ==
  /\ rpc \in {"store", "resetStore"}
  /\ baud' = rbaud
  /\ rpc' = IF rpc = "store" THEN "client" ELSE "idle"
  /\ UNCHANGED <<rbaud, rframing, line, failures, session, http, history>>

ClientLeaves ==
  /\ rpc = "client" /\ rpc' = "resetLines"
  /\ rframing' = DEFAULT
  /\ UNCHANGED <<rbaud, session, transfer, http, history>>

ResetLines ==
  /\ rpc = "resetLines" /\ rpc' = "resetBaud"
  /\ SetDtr(TRUE) \/ NoTransfer
  /\ UNCHANGED <<baud, rbaud, rframing, session, http, history>>

(* Only a foreign rate is reset, and with it the framing. *)
ResetBaud ==
  /\ rpc = "resetBaud"
  /\ rbaud' = CONSOLE_BAUD
  /\ IF rbaud # CONSOLE_BAUD
     THEN Apply(CONSOLE_BAUD, rframing, "resetStore", "idle")
     ELSE rpc' = "idle" /\ UNCHANGED <<line, failures, apart>>
  /\ UNCHANGED <<baud, rframing, session, http, raced>>

(* -------------------------- the specification -------------------------- *)

World      == TargetComes \/ TargetLeaves \/ JumpToBootsel
SerialTask == OpenSerial \/ ReadRate \/ OpenCoding \/ OpenStore \/ OpenLines
Httpd ==
  \/ EnterBootsel \/ Touch \/ TouchCoding \/ TouchStore \/ TouchKeep \/ DtrOn \/ DtrOff
  \/ Judge \/ BootselReached \/ NoBootsel \/ RestoreCoding \/ RestoreStore \/ RestoreLines
Rfc2217 ==
  \/ ClientComes \/ ClientLeaves \/ ResetLines \/ ResetBaud \/ ApplyStore
  \/ \E b \in ClientBauds : SetBaudrate(b)
  \/ \E f \in ClientFramings : SetFraming(f)

Next == World \/ SerialTask \/ Httpd \/ Rfc2217

Spec == Init /\ [][Next]_vars

(* ------------------------------ properties ----------------------------- *)

Bauds == ClientBauds \cup {CONSOLE_BAUD, TOUCH_BAUD}

TypeOK ==
  /\ dev \in {"absent", "console", "storage"} /\ open \in BOOLEAN
  /\ line \in [baud : Bauds, framing : ClientFramings \cup {DEFAULT},
               dtr : BOOLEAN]
  /\ due \in BOOLEAN /\ spc \in {"wait", "read", "coding", "store", "lines"}
  /\ hpc \in {"idle", "touch", "touchCoding", "touchStore", "keep", "dtrOn", "dtrOff",
              "judge", "waitForMsc", "restoreCoding", "restoreStore", "restoreLines"}
  /\ failed \in BOOLEAN /\ attempt \in 1 .. TOUCH_ATTEMPTS
  /\ result \in {"none", "ok", "refused", "notSent", "timeout"}
  /\ rpc \in {"idle", "client", "store", "resetLines", "resetBaud", "resetStore"}
  /\ rframing \in ClientFramings \cup {DEFAULT}
  /\ opens \in 0 .. MaxOpens /\ touches \in 0 .. Touches
  /\ failures \in 0 .. MaxFailures
  /\ apart \in BOOLEAN /\ raced \in BOOLEAN

(* Nobody is doing anything to an open session. *)
Quiet == open /\ spc = "wait" /\ hpc = "idle" /\ rpc = "idle"

(* After any number of touches, replugs, jumps to BOOTSEL and RFC2217      *)
(* sessions a console that nobody is working on is readable: 115200 baud   *)
(* and DTR.  Three things may spoil it: a control transfer that failed, an *)
(* RFC2217 session that overlapped with a touch or a replug, and a rate    *)
(* that openSerial() read in the middle of a touch().                      *)
QuietConsoleIsUsable ==
  (apart /\ ~raced /\ failures = 0 /\ Quiet) => line.baud = CONSOLE_BAUD /\ line.dtr

(* ... and the rate the next session will be opened with is the console's, *)
(* also after touches and openings of which a transfer failed: touch()     *)
(* puts it back on its error path, too.                                    *)
NextSessionIsUsable ==
  (apart /\ ~raced /\ hpc # "keep" /\ rpc = "idle") => baud = CONSOLE_BAUD

(* The comment in touch(): openSerial() is to set up the next console with *)
(* CONSOLE_BAUD and not with 1200.                                         *)
TouchRateEnds == (apart /\ spc \in {"store", "lines"}) => want = CONSOLE_BAUD

(* After an RFC2217 client has left, its rate has left too, whatever else  *)
(* happened meanwhile (Rfc2217Server.cpp run: not with a foreign rate).    *)
NoForeignBaud == Quiet => line.baud = CONSOLE_BAUD

(* ... and so has its framing: the server resets m_dataBits, m_parity and  *)
(* m_stopBits together with the rate.                                      *)
NoForeignFraming == Quiet => line.framing = DEFAULT

(* A failed touch does not leave the target at 1200 baud.                  *)
FailedTouchRestores ==
  (Quiet /\ result = "notSent") => line.baud # TOUCH_BAUD
=============================================================================
