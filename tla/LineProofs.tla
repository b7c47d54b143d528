----------------------------- MODULE LineProofs -----------------------------
(***************************************************************************)
(* The lines of the target for every client, every number of touches and   *)
(* every number of sessions: the console's coding (ConsoleLine) and the    *)
(* reset lines of an ESP32 (AutoReset).                                    *)
(***************************************************************************)
EXTENDS ConsoleLine, AutoReset, TLAPS

(*************************** the console's coding **************************)

LineTypes ==
  /\ TypeOK
  /\ baud \in Bauds /\ want \in Bauds /\ keep \in Bauds /\ rbaud \in Bauds

Clean == apart /\ ~raced

(* What the windows between the statements leave certain: a session stands *)
(* on a console, and touch() stores its 1200 only after the transfer.      *)
Windows ==
  /\ open => dev = "console"
  /\ hpc = "touchStore" => ~failed
  /\ rpc \in {"idle", "resetStore"} => rbaud = CONSOLE_BAUD

(* apart means what it says. *)
Separate == apart => rpc = "idle" \/ (hpc = "idle" /\ spc = "wait")

(* touch() and openSerial() hold the console's rate. *)
CopiesAreConsole ==
  Clean => /\ hpc \in {"touchCoding", "touchStore", "keep"} => keep = CONSOLE_BAUD
           /\ spc \in {"coding", "store"} => want = CONSOLE_BAUD

(* Only between the two stores of a touch that got through is m_baudRate   *)
(* another rate.                                                           *)
RateStays ==
  (Clean /\ rpc = "idle" /\ ~(hpc = "keep" /\ ~failed)) => baud = CONSOLE_BAUD

(* While a client is served the server knows m_baudRate, ... *)
ServerKnowsRate ==
  (Clean /\ rpc # "idle") =>
     IF rpc \in {"store", "resetStore"} THEN open
     ELSE baud = IF open THEN rbaud ELSE CONSOLE_BAUD

(* ... and so does the target. *)
TargetToldRate ==
  (Clean /\ failures = 0 /\ rpc # "idle" /\ open) => line.baud = rbaud

(* enterBootsel() is at a place from which it still comes by               *)
(* restoreConsole(), or by the end of the session.                         *)
Restores ==
  \/ hpc \in {"touch", "touchCoding", "touchStore", "dtrOn", "dtrOff",
              "waitForMsc", "restoreCoding"}
  \/ hpc \in {"keep", "judge"} /\ ~failed

(* A rate that is not the console's, and a DTR that is off, have somebody  *)
(* on the way who sets them.                                               *)
RateOnTheWay ==
  (Clean /\ failures = 0 /\ open /\ rpc = "idle" /\ line.baud # CONSOLE_BAUD) =>
     spc \in {"read", "coding"} \/ Restores

DtrOnTheWay ==
  (failures = 0 /\ open /\ ~line.dtr) =>
     \/ spc \in {"read", "coding", "store", "lines"} \/ Restores
     \/ hpc \in {"restoreStore", "restoreLines"}

LInv ==
  /\ LineTypes
  /\ Windows
  /\ Separate
  /\ CopiesAreConsole
  /\ RateStays
  /\ ServerKnowsRate
  /\ TargetToldRate
  /\ RateOnTheWay
  /\ DtrOnTheWay

-----------------------------------------------------------------------------

Codings == [baud : Bauds, framing : ClientFramings \cup {DEFAULT}, dtr : BOOLEAN]

LEMMA LineInit == Init => LInv
<1> SUFFICES ASSUME Init PROVE LInv
  OBVIOUS
<1>1. LineTypes
  <2>1. /\ line \in Codings /\ baud \in Bauds /\ keep \in Bauds /\ rbaud \in Bauds
        /\ want \in Bauds
    BY DEF Init, Idle, Coding, Codings, Bauds
  <2>2. 0 \in 0 .. MaxOpens /\ 0 \in 0 .. Touches /\ 0 \in 0 .. MaxFailures
    BY LineAssumption
  <2>3. /\ opens \in 0 .. MaxOpens /\ touches \in 0 .. Touches
        /\ failures \in 0 .. MaxFailures /\ attempt \in 1 .. TOUCH_ATTEMPTS
    BY <2>2 DEF Init, TOUCH_ATTEMPTS
  <2> QED
    BY <2>1, <2>3 DEF Init, LineTypes, TypeOK, Codings
<1> QED
  BY <1>1 DEF LInv, Init, Windows, Separate, CopiesAreConsole, RateStays,
    ServerKnowsRate, TargetToldRate, RateOnTheWay, DtrOnTheWay, Idle, Coding

(* What a transfer leaves, whoever makes it.                               *)
LEMMA SetCodingLeaves ==
  ASSUME LineTypes, NEW b \in Bauds, NEW f \in ClientFramings \cup {DEFAULT},
         SetCoding(b, f)
  PROVE  line' \in Codings /\ failures' \in 0 .. MaxFailures
<1>1. line \in Codings /\ failures \in 0 .. MaxFailures
  BY DEF LineTypes, TypeOK, Codings
<1>2. line' = [line EXCEPT !.baud = b, !.framing = f]
  BY DEF SetCoding
<1>3. line' \in Codings
  BY <1>1, <1>2 DEF Codings
<1> QED
  BY <1>1, <1>3 DEF SetCoding

LEMMA SetDtrLeaves ==
  ASSUME LineTypes, NEW on \in BOOLEAN, SetDtr(on)
  PROVE  line' \in Codings /\ failures' \in 0 .. MaxFailures
<1>1. line \in Codings /\ failures \in 0 .. MaxFailures
  BY DEF LineTypes, TypeOK, Codings
<1>2. line' \in Codings
  BY <1>1 DEF Codings, SetDtr
<1> QED
  BY <1>1, <1>2 DEF SetDtr

LEMMA NoTransferLeaves ==
  ASSUME LineTypes, NoTransfer
  PROVE  line' \in Codings /\ failures' \in 0 .. MaxFailures
<1>1. line \in Codings /\ failures \in 0 .. MaxFailures
  BY DEF LineTypes, TypeOK, Codings
<1>2. failures' \in 0 .. MaxFailures
  BY <1>1, LineAssumption DEF NoTransfer
<1> QED
  BY <1>1, <1>2 DEF NoTransfer

(* The three outcomes of a transfer, as far as a later step can tell.      *)
LEMMA CodingOutcome ==
  ASSUME LineTypes, NEW b, NEW f, SetCoding(b, f)
  PROVE  open /\ failures' = failures /\ line'.baud = b /\ line'.dtr = line.dtr
<1>1. line \in Codings
  BY DEF LineTypes, TypeOK, Codings
<1> QED
  BY <1>1 DEF SetCoding, Codings

LEMMA DtrOutcome ==
  ASSUME LineTypes, NEW on, SetDtr(on)
  PROVE  open /\ failures' = failures /\ line'.baud = line.baud /\ line'.dtr = on
<1>1. line \in Codings
  BY DEF LineTypes, TypeOK, Codings
<1> QED
  BY <1>1 DEF SetDtr, Codings

LEMMA FailureOutcome ==
  ASSUME LineTypes, NoTransfer
  PROVE  line' = line /\ (failures' = 0 => failures = 0 /\ ~open)
<1>1. failures \in 0 .. MaxFailures
  BY DEF LineTypes, TypeOK
<1> QED
  BY <1>1, LineAssumption DEF NoTransfer

LEMMA LineTypesStep ==
  ASSUME LineTypes, [Next]_vars
  PROVE  LineTypes'
<1> DEFINE Wire == line \in Codings /\ failures \in 0 .. MaxFailures
           Rates == baud \in Bauds /\ want \in Bauds /\ keep \in Bauds
                    /\ rbaud \in Bauds
           Session ==
             /\ dev \in {"absent", "console", "storage"} /\ open \in BOOLEAN
             /\ due \in BOOLEAN
             /\ spc \in {"wait", "read", "coding", "store", "lines"}
             /\ opens \in 0 .. MaxOpens
           Caller ==
             /\ hpc \in {"idle", "touch", "touchCoding", "touchStore", "keep", "dtrOn",
                         "dtrOff", "judge", "waitForMsc", "restoreCoding",
                         "restoreStore", "restoreLines"}
             /\ failed \in BOOLEAN /\ attempt \in 1 .. TOUCH_ATTEMPTS
             /\ result \in {"none", "ok", "refused", "notSent", "timeout"}
             /\ touches \in 0 .. Touches
           Server ==
             /\ rpc \in {"idle", "client", "store", "resetLines", "resetBaud",
                         "resetStore"}
             /\ rframing \in ClientFramings \cup {DEFAULT}
           History == apart \in BOOLEAN /\ raced \in BOOLEAN
<1>1. Wire /\ Rates /\ Session /\ Caller /\ Server /\ History
  BY DEF LineTypes, TypeOK, Codings
<1>2. /\ CONSOLE_BAUD \in Bauds /\ TOUCH_BAUD \in Bauds /\ ClientBauds \subseteq Bauds
      /\ DEFAULT \in ClientFramings \cup {DEFAULT}
  BY DEF Bauds
<1>3. SUFFICES Wire' /\ Rates' /\ Session' /\ Caller' /\ Server' /\ History'
  BY DEF LineTypes, TypeOK, Codings, Bauds
<1>4. CASE UNCHANGED vars
  BY <1>1, <1>4 DEF vars, session, target, history, http, rfc2217
<1>5. CASE World
  <2>1. Wire' /\ Rates' /\ Caller' /\ Server' /\ History'
    BY <1>1, <1>5
    DEF World, TargetComes, TargetLeaves, JumpToBootsel, transfer, http, rfc2217, history
  <2>2. Session'
    <3>1. CASE TargetComes
      <4>1. opens' \in 0 .. MaxOpens
        BY <1>1, <3>1, LineAssumption DEF TargetComes
      <4> QED
        BY <1>1, <3>1, <4>1 DEF TargetComes
    <3>2. CASE TargetLeaves \/ JumpToBootsel
      BY <1>1, <3>2 DEF TargetLeaves, JumpToBootsel
    <3> QED
      BY <1>5, <3>1, <3>2 DEF World
  <2> QED
    BY <2>1, <2>2
<1>6. CASE SerialTask
  <2>1. Wire'
    BY <1>1, <1>2, <1>6, SetCodingLeaves, SetDtrLeaves, NoTransferLeaves
    DEF SerialTask, OpenSerial, ReadRate, OpenCoding, OpenStore, OpenLines, transfer
  <2>2. UNCHANGED http /\ UNCHANGED rfc2217
    BY <1>6 DEF SerialTask, OpenSerial, ReadRate, OpenCoding, OpenStore, OpenLines
  <2>3. Caller' /\ Server'
    BY <1>1, <2>2 DEF http, rfc2217
  <2>4. History'
    BY <1>1, <1>6
    DEF SerialTask, OpenSerial, ReadRate, OpenCoding, OpenStore, OpenLines, history
  <2>5. Session' /\ Rates'
    BY <1>1, <1>6
    DEF SerialTask, OpenSerial, ReadRate, OpenCoding, OpenStore, OpenLines, target,
      http, rfc2217, transfer
  <2> QED
    BY <2>1, <2>3, <2>4, <2>5
<1>7. CASE Httpd
  <2> USE DEF Httpd, EnterBootsel, Touch, TouchCoding, TouchStore, TouchKeep, DtrOn,
        DtrOff, Judge, BootselReached, NoBootsel, RestoreCoding, RestoreStore,
        RestoreLines, waiting, transfer
  <2>1. Wire'
    BY <1>1, <1>2, <1>7, SetCodingLeaves, SetDtrLeaves, NoTransferLeaves
  <2>2. Session' /\ Server' /\ History'
    <3>1. UNCHANGED session /\ UNCHANGED rfc2217 /\ UNCHANGED raced
      BY <1>7 DEF history
    <3>2. Session' /\ Server'
      BY <1>1, <3>1 DEF session, target, rfc2217
    <3>3. apart' \in BOOLEAN
      BY <1>1, <1>7 DEF history
    <3> QED
      BY <1>1, <3>1, <3>2, <3>3
  <2>3. Rates'
    BY <1>1, <1>2, <1>7 DEF session, rfc2217
  <2>4. Caller'
    <3>1. CASE EnterBootsel
      BY <1>1, <3>1, LineAssumption DEF Return, TOUCH_ATTEMPTS
    <3>2. CASE Touch \/ TouchCoding \/ TouchStore \/ TouchKeep \/ DtrOn \/ DtrOff
      BY <1>1, <3>2
    <3>3. CASE Judge \/ BootselReached \/ NoBootsel
      BY <1>1, <3>3 DEF Return, TOUCH_ATTEMPTS
    <3>4. CASE RestoreCoding \/ RestoreStore \/ RestoreLines
      BY <1>1, <3>4 DEF Return
    <3> QED
      BY <1>7, <3>1, <3>2, <3>3, <3>4
  <2> QED
    BY <2>1, <2>2, <2>3, <2>4
<1>8. CASE Rfc2217
  <2> USE DEF Rfc2217, ClientComes, ClientLeaves, ResetLines, ResetBaud, ApplyStore,
        SetBaudrate, SetFraming, Apply, transfer
  <2>1. Session' /\ Caller'
    <3>1. UNCHANGED session /\ UNCHANGED http
      BY <1>8
    <3> QED
      BY <1>1, <3>1 DEF session, target, http
  <2>2. Server' /\ Rates'
    BY <1>1, <1>2, <1>8 DEF session, http
  <2>3. History'
    BY <1>1, <1>8 DEF history
  <2>4. Wire'
    BY <1>1, <1>2, <1>8, SetCodingLeaves, SetDtrLeaves, NoTransferLeaves
  <2> QED
    BY <2>1, <2>2, <2>3, <2>4
<1> QED
  BY <1>4, <1>5, <1>6, <1>7, <1>8 DEF Next

LEMMA LineStep ==
  ASSUME LInv, [Next]_vars
  PROVE  LInv'
<1>1. LineTypes' /\ LineTypes
  BY LineTypesStep DEF LInv
<1> DEFINE Others == /\ Windows /\ Separate /\ CopiesAreConsole /\ RateStays
                    /\ ServerKnowsRate /\ TargetToldRate /\ RateOnTheWay /\ DtrOnTheWay
<1>2. Others /\ Clean = (apart /\ ~raced) /\ CONSOLE_BAUD # TOUCH_BAUD
  BY DEF LInv, Clean, CONSOLE_BAUD, TOUCH_BAUD
<1>3. SUFFICES Others'
  BY <1>1 DEF LInv
<1>4. apart \in BOOLEAN /\ raced \in BOOLEAN /\ failed \in BOOLEAN /\ open \in BOOLEAN
  BY <1>1 DEF LineTypes, TypeOK
<1> USE DEF Windows, Separate, CopiesAreConsole, RateStays, ServerKnowsRate,
      TargetToldRate, RateOnTheWay, DtrOnTheWay, Restores, Clean
<1>5. CASE UNCHANGED vars
  BY <1>2, <1>5 DEF vars, session, target, history, http, rfc2217
<1>6. CASE World
  BY <1>2, <1>4, <1>6
  DEF World, TargetComes, TargetLeaves, JumpToBootsel, transfer, http, rfc2217, history
<1>7. CASE SerialTask
  <2> USE DEF target, transfer, http, rfc2217, history
  <2>1. CASE OpenSerial
    BY <1>2, <1>4, <2>1 DEF OpenSerial
  <2>2. CASE ReadRate
    BY <1>2, <1>4, <2>2 DEF ReadRate
  <2>3. CASE OpenCoding
    <3>1. CASE SetCoding(want, DEFAULT) /\ spc' = "store"
      BY <1>1, <1>2, <1>4, <2>3, <3>1, CodingOutcome DEF OpenCoding
    <3>2. CASE NoTransfer /\ spc' = "lines"
      BY <1>1, <1>2, <1>4, <2>3, <3>2, FailureOutcome DEF OpenCoding
    <3> QED
      BY <2>3, <3>1, <3>2 DEF OpenCoding
  <2>4. CASE OpenStore
    BY <1>2, <1>4, <2>4 DEF OpenStore
  <2>5. CASE OpenLines
    <3>1. CASE SetDtr(TRUE)
      BY <1>1, <1>2, <1>4, <2>5, <3>1, DtrOutcome DEF OpenLines
    <3>2. CASE NoTransfer
      BY <1>1, <1>2, <1>4, <2>5, <3>2, FailureOutcome DEF OpenLines
    <3> QED
      BY <2>5, <3>1, <3>2 DEF OpenLines
  <2> QED
    BY <1>7, <2>1, <2>2, <2>3, <2>4, <2>5 DEF SerialTask
<1>8. CASE Httpd
  <2> USE DEF session, target, transfer, rfc2217, history
  <2>1. CASE EnterBootsel
    BY <1>2, <1>4, <2>1 DEF EnterBootsel, Return
  <2>2. CASE Touch \/ TouchStore \/ TouchKeep
    BY <1>2, <1>4, <2>2 DEF Touch, TouchStore, TouchKeep
  <2>3. CASE TouchCoding
    <3>1. CASE SetCoding(TOUCH_BAUD, DEFAULT) /\ failed' = FALSE /\ hpc' = "touchStore"
      BY <1>1, <1>2, <1>4, <2>3, <3>1, CodingOutcome DEF TouchCoding
    <3>2. CASE NoTransfer /\ failed' = TRUE /\ hpc' = "keep"
      BY <1>1, <1>2, <1>4, <2>3, <3>2, FailureOutcome DEF TouchCoding
    <3> QED
      BY <2>3, <3>1, <3>2 DEF TouchCoding
  <2>4. CASE DtrOn
    <3>1. CASE SetDtr(TRUE)
      BY <1>1, <1>2, <1>4, <2>4, <3>1, DtrOutcome DEF DtrOn
    <3>2. CASE NoTransfer
      BY <1>1, <1>2, <1>4, <2>4, <3>2, FailureOutcome DEF DtrOn
    <3> QED
      BY <2>4, <3>1, <3>2 DEF DtrOn
  <2>5. CASE DtrOff
    <3>1. CASE SetDtr(FALSE) /\ failed' = FALSE
      BY <1>1, <1>2, <1>4, <2>5, <3>1, DtrOutcome DEF DtrOff
    <3>2. CASE NoTransfer /\ failed' = TRUE
      BY <1>1, <1>2, <1>4, <2>5, <3>2, FailureOutcome DEF DtrOff
    <3> QED
      BY <2>5, <3>1, <3>2 DEF DtrOff
  <2>6. CASE Judge \/ BootselReached \/ NoBootsel
    BY <1>2, <1>4, <2>6 DEF Judge, BootselReached, NoBootsel, Return, waiting
  <2>7. CASE RestoreCoding
    <3>1. CASE SetCoding(CONSOLE_BAUD, DEFAULT) /\ hpc' = "restoreStore"
      BY <1>1, <1>2, <1>4, <2>7, <3>1, CodingOutcome DEF RestoreCoding
    <3>2. CASE NoTransfer /\ hpc' = "restoreLines"
      BY <1>1, <1>2, <1>4, <2>7, <3>2, FailureOutcome DEF RestoreCoding
    <3> QED
      BY <2>7, <3>1, <3>2 DEF RestoreCoding
  <2>8. CASE RestoreStore
    BY <1>2, <1>4, <2>8 DEF RestoreStore
  <2>9. CASE RestoreLines
    <3>1. CASE SetDtr(TRUE)
      BY <1>1, <1>2, <1>4, <2>9, <3>1, DtrOutcome DEF RestoreLines, Return
    <3>2. CASE NoTransfer
      BY <1>1, <1>2, <1>4, <2>9, <3>2, FailureOutcome DEF RestoreLines, Return
    <3> QED
      BY <2>9, <3>1, <3>2 DEF RestoreLines
  <2> QED
    BY <1>8, <2>1, <2>2, <2>3, <2>4, <2>5, <2>6, <2>7, <2>8, <2>9 DEF Httpd
<1>9. CASE Rfc2217
  <2> USE DEF session, target, transfer, http, history
  <2>1. CASE ClientComes \/ ClientLeaves
    <3>1. CASE ClientComes
      <4>1. (apart' /\ ~raced) => baud = CONSOLE_BAUD /\ rbaud = CONSOLE_BAUD
        BY <1>2, <3>1 DEF ClientComes
      <4>2. (apart' /\ ~raced /\ failures = 0 /\ open) => line.baud = CONSOLE_BAUD
        BY <1>2, <1>4, <3>1 DEF ClientComes
      <4> QED
        BY <1>2, <1>4, <3>1, <4>1, <4>2 DEF ClientComes
    <3>2. CASE ClientLeaves
      BY <1>2, <1>4, <3>2 DEF ClientLeaves
    <3> QED
      BY <2>1, <3>1, <3>2
  <2>2. ASSUME NEW b, NEW f, NEW s, NEW g, Apply(b, f, s, g)
        PROVE  \/ /\ open /\ failures' = failures /\ line'.baud = b
                  /\ line'.dtr = line.dtr /\ rpc' = s /\ apart' = apart
               \/ /\ line' = line /\ (failures' = 0 => failures = 0 /\ ~open)
                  /\ rpc' = g /\ apart' = (apart /\ ~open)
    BY <1>1, <2>2, CodingOutcome, FailureOutcome DEF Apply
  <2>3. ASSUME NEW b \in ClientBauds, SetBaudrate(b) PROVE Others'
    BY <1>2, <1>4, <2>2, <2>3 DEF SetBaudrate
  <2>4. ASSUME NEW f \in ClientFramings, SetFraming(f) PROVE Others'
    BY <1>2, <1>4, <2>2, <2>4 DEF SetFraming
  <2>5. CASE ResetLines
    <3>1. CASE SetDtr(TRUE)
      BY <1>1, <1>2, <1>4, <2>5, <3>1, DtrOutcome DEF ResetLines
    <3>2. CASE NoTransfer
      BY <1>1, <1>2, <1>4, <2>5, <3>2, FailureOutcome DEF ResetLines
    <3> QED
      BY <2>5, <3>1, <3>2 DEF ResetLines
  <2>6. CASE ResetBaud
    BY <1>2, <1>4, <2>2, <2>6 DEF ResetBaud
  <2>7. CASE ApplyStore
    <3>1. CASE rpc = "store"
      BY <1>2, <1>4, <2>7, <3>1 DEF ApplyStore
    <3>2. CASE rpc = "resetStore"
      BY <1>2, <1>4, <2>7, <3>2 DEF ApplyStore
    <3> QED
      BY <2>7, <3>1, <3>2 DEF ApplyStore
  <2> QED
    BY <1>9, <2>1, <2>3, <2>4, <2>5, <2>6, <2>7 DEF Rfc2217
<1> QED
  BY <1>5, <1>6, <1>7, <1>8, <1>9 DEF Next

(* The rate that the next session will be opened with is the console's     *)
(* before every touch, every client and every replug, for any number of    *)
(* failed transfers; what it takes is that no session of a client          *)
(* overlapped with a touch or a replug, that no change of the client's     *)
(* failed, and that no opening read the rate in the middle of a touch      *)
(* (NextSessionIsUsable).                                                  *)
THEOREM NextSession == Spec => []NextSessionIsUsable
<1>1. LInv => NextSessionIsUsable
  BY DEF LInv, RateStays, NextSessionIsUsable, Clean
<1> QED
  BY LineInit, LineStep, <1>1, PTL DEF Spec

(* Under the same conditions, and if no transfer failed at all, a console  *)
(* that nobody is working on is readable (QuietConsoleIsUsable).           *)
THEOREM QuietConsole == Spec => []QuietConsoleIsUsable
<1>1. LInv => QuietConsoleIsUsable
  BY DEF LInv, RateOnTheWay, DtrOnTheWay, Restores, QuietConsoleIsUsable, Quiet, Clean
<1> QED
  BY LineInit, LineStep, <1>1, PTL DEF Spec

(*************************** the reset lines of an ESP32 ********************)

ResetTypes ==
  /\ ResetTypeOK
  /\ mode # "none" => step <= Len(Sequence(mode)) + 1

(* A call that has not returned has promised nothing. *)
NothingPromised == mode # "none" => done = "none"

(* While no client touched the lines the chip and its latch are what the   *)
(* sequence has made of them so far.                                       *)
BridgeHolds ==
  (alone /\ mode # "none" /\ board = "bridge") =>
    /\ step = 2 => chip = "held"
    /\ mode = "Run" /\ step = 3 => chip = "run" /\ wire = Off
    /\ mode = "Bootloader" /\ step \in {3, 4} => chip = "boot"

JtagHolds ==
  (alone /\ mode # "none" /\ board = "jtag") =>
    /\ mode = "Run" =>
         /\ step \in {2, 3} => ~latch
         /\ step = 3 => chip = "held"
         /\ step = 4 => chip = "run" /\ wire = Off
    /\ mode = "Bootloader" =>
         /\ step \in {3, 4} => latch
         /\ step = 4 => chip = "held"
         /\ step = 5 => chip = "boot"

(* The server asks for nothing before a client came.                       *)
NothingAsked == client # "served" => asked = Off

(* How far esptool is tells what the board saw of it: the state with both  *)
(* lines asserted is held back and never reached it.                       *)
EsptoolGetsOn ==
  (tidy /\ client = "served" /\ tool = Esptool) =>
    /\ mode = "none"
    /\ board = "bridge" =>
         /\ at \in {1, 2} => wire = Off /\ chip = "run"
         /\ at \in {3, 4} => wire = Lines(FALSE, TRUE) /\ chip = "held"
         /\ at = 5 => wire = Lines(TRUE, FALSE) /\ chip = "boot"
         /\ at = 6 => wire = Off /\ chip = "boot"
         /\ at = 4 => asked = Lines(TRUE, TRUE)
         /\ at # 4 => asked = wire
         /\ deferred => at = 4

(* The chip is out of reset when nobody is left who would take it out, or  *)
(* the transfer that would have done so is the last one.                   *)
FreeAgain ==
  (client = "none" /\ ~lost
     /\ (mode = "none" \/ step > Len(Sequence(mode)))) => chip # "held"

WInv ==
  /\ ResetTypes
  /\ NothingPromised
  /\ BridgeHolds
  /\ JtagHolds
  /\ ResetDidIt
  /\ NothingAsked
  /\ EsptoolGetsOn
  /\ FreeAgain

-----------------------------------------------------------------------------

(* What a change of the lines makes of the chip and the latch. *)
LEMMA DriveIs ==
  ASSUME ResetTypeOK, NEW d \in BOOLEAN, NEW r \in BOOLEAN, Drive(Lines(d, r))
  PROVE  /\ wire' = Lines(d, r)
         /\ chip' = IF r /\ ~d THEN "held"
                    ELSE IF chip # "held" THEN chip
                    ELSE IF board = "bridge" THEN IF d /\ ~r THEN "boot" ELSE "run"
                    ELSE IF latch THEN "boot" ELSE "run"
         /\ latch' = IF d /\ ~r THEN TRUE ELSE IF ~d /\ ~r THEN FALSE ELSE latch
<1>1. Lines(d, r).dtr = d /\ Lines(d, r).rts = r
  BY DEF Lines
<1>2. (Lines(d, r) = Off) <=> (~d /\ ~r)
  BY DEF Lines, Off
<1> QED
  BY <1>1, <1>2 DEF Drive, InReset, DtrAlone, Started

LEMMA DriveLeaves ==
  ASSUME ResetTypeOK, NEW w \in AllLines, Drive(w)
  PROVE  /\ wire' = w /\ wire' \in AllLines
         /\ chip' \in {"run", "boot", "held"} /\ latch' \in BOOLEAN
         /\ lost' = FALSE /\ resetFailures' = resetFailures
BY DEF Drive, Started, ResetTypeOK, InReset, DtrAlone

(* A transfer that failed is counted, and noticed by whoever is at work.   *)
LEMMA NotDrivenLeaves ==
  ASSUME ResetTypeOK, NotDriven
  PROVE  /\ UNCHANGED <<wire, chip, latch>> /\ lost' = TRUE
         /\ resetFailures' \in 0 .. MaxResetFailures
         /\ resetFailures' # resetFailures
BY ResetAssumption DEF NotDriven, ResetTypeOK

LEMMA LinesAreLines ==
  /\ \A d, r \in BOOLEAN : Lines(d, r) \in AllLines
  /\ Rest \in AllLines /\ Off \in AllLines
  /\ Rest = Lines(board = "jtag", FALSE) /\ Off = Lines(FALSE, FALSE)
BY DEF Lines, AllLines, Rest, Off

LEMMA AskedIsLines ==
  ASSUME ResetTypeOK, at <= Len(tool)
  PROVE  [asked EXCEPT ![tool[at][1]] = tool[at][2]] \in AllLines
<1>1. tool \in Seq({"dtr", "rts"} \X BOOLEAN \X BOOLEAN)
  BY ResetAssumption DEF ResetTypeOK
<1>2. at \in 1 .. Len(tool)
  BY <1>1 DEF ResetTypeOK
<1>3. tool[at] \in {"dtr", "rts"} \X BOOLEAN \X BOOLEAN
  BY <1>1, <1>2
<1>4. tool[at][1] \in {"dtr", "rts"} /\ tool[at][2] \in BOOLEAN
  BY <1>3
<1>5. asked \in [dtr : BOOLEAN, rts : BOOLEAN]
  BY DEF ResetTypeOK, AllLines
<1>6. CASE tool[at][1] = "dtr"
  BY <1>4, <1>5, <1>6 DEF AllLines
<1>7. CASE tool[at][1] = "rts"
  BY <1>4, <1>5, <1>7 DEF AllLines
<1> QED
  BY <1>4, <1>6, <1>7

LEMMA SequenceShape ==
  ASSUME mode \in {"Run", "Bootloader"}, board \in Boards
  PROVE  /\ board \in {"bridge", "jtag"}
         /\ Sequence(mode) \in Seq(AllLines) /\ Len(Sequence(mode)) \in 2 .. 4
<1> DEFINE A == Lines(TRUE, FALSE)
           B == Lines(FALSE, TRUE)
<1>1. A \in AllLines /\ B \in AllLines /\ Off \in AllLines
  BY LinesAreLines
<1>2. Sequence(mode) \in {<<B, A, Off>>, <<B, Off>>, <<Off, A, B, Off>>, <<Off, B, Off>>}
  BY DEF Sequence
<1> HIDE DEF A, B
<1>3. /\ <<B, A, Off>> \in Seq(AllLines) /\ <<B, Off>> \in Seq(AllLines)
      /\ <<Off, A, B, Off>> \in Seq(AllLines) /\ <<Off, B, Off>> \in Seq(AllLines)
  BY <1>1
<1>4. /\ Len(<<B, A, Off>>) = 3 /\ Len(<<B, Off>>) = 2
      /\ Len(<<Off, A, B, Off>>) = 4 /\ Len(<<Off, B, Off>>) = 3
  OBVIOUS
<1>5. Len(Sequence(mode)) \in {2, 3, 4}
  BY <1>2, <1>4
<1>6. Len(Sequence(mode)) \in 2 .. 4
  BY <1>5
<1>7. Sequence(mode) \in Seq(AllLines)
  BY <1>2, <1>3
<1>8. board \in {"bridge", "jtag"}
  BY ResetAssumption
<1> QED
  BY <1>6, <1>7, <1>8

(* A step of the sequence is one of its settings of the lines. *)
LEMMA StepInSequence ==
  ASSUME ResetTypeOK, mode # "none", step <= Len(Sequence(mode))
  PROVE  /\ mode \in {"Run", "Bootloader"} /\ board \in {"bridge", "jtag"}
         /\ Len(Sequence(mode)) \in 2 .. 4
         /\ step \in 1 .. Len(Sequence(mode)) /\ Sequence(mode)[step] \in AllLines
<1>1. board \in Boards /\ mode \in {"Run", "Bootloader"} /\ step \in 1 .. 5
  BY DEF ResetTypeOK
<1>2. /\ board \in {"bridge", "jtag"}
      /\ Sequence(mode) \in Seq(AllLines) /\ Len(Sequence(mode)) \in 2 .. 4
  BY <1>1, SequenceShape
<1>3. step \in 1 .. Len(Sequence(mode))
  BY <1>1, <1>2
<1>4. Sequence(mode)[step] \in AllLines
  BY <1>2, <1>3
<1> QED
  BY <1>1, <1>2, <1>3, <1>4

(* What each step of bridgeReset() and jtagReset() sets. *)
LEMMA BridgeSets ==
  ASSUME ResetTypeOK, ResetStep, board = "bridge"
  PROVE  /\ mode = "Bootloader" =>
              /\ Len(Sequence(mode)) = 3 /\ step \in {1, 2, 3}
              /\ step = 1 => Drive(Lines(FALSE, TRUE))
              /\ step = 2 => Drive(Lines(TRUE, FALSE))
              /\ step = 3 => Drive(Lines(FALSE, FALSE))
         /\ mode = "Run" =>
              /\ Len(Sequence(mode)) = 2 /\ step \in {1, 2}
              /\ step = 1 => Drive(Lines(FALSE, TRUE))
              /\ step = 2 => Drive(Lines(FALSE, FALSE))
<1> DEFINE A == Lines(TRUE, FALSE)
           B == Lines(FALSE, TRUE)
           O == Lines(FALSE, FALSE)
<1>1. step \in 1 .. 5 /\ step <= Len(Sequence(mode)) /\ Drive(Sequence(mode)[step])
  BY DEF ResetTypeOK, ResetStep
<1>2. CASE mode = "Bootloader"
  <2>1. Sequence(mode) = <<B, A, O>>
    BY <1>2 DEF Sequence, Off
  <2> HIDE DEF A, B, O
  <2>2. Len(Sequence(mode)) = 3 /\ Sequence(mode)[1] = B /\ Sequence(mode)[2] = A /\ Sequence(mode)[3] = O
    BY <2>1
  <2>3. step <= 3
    BY <1>1, <2>2
  <2>4. step = 1 \/ step = 2 \/ step = 3
    BY <1>1, <2>3
  <2>5. /\ step = 1 => Drive(B)
        /\ step = 2 => Drive(A)
        /\ step = 3 => Drive(O)
    BY <1>1, <2>2
  <2> QED
    BY <1>2, <2>2, <2>4, <2>5 DEF A, B, O
<1>3. CASE mode = "Run"
  <2>1. Sequence(mode) = <<B, O>>
    BY <1>3 DEF Sequence, Off
  <2> HIDE DEF A, B, O
  <2>2. Len(Sequence(mode)) = 2 /\ Sequence(mode)[1] = B /\ Sequence(mode)[2] = O
    BY <2>1
  <2>3. step <= 2
    BY <1>1, <2>2
  <2>4. step = 1 \/ step = 2
    BY <1>1, <2>3
  <2>5. /\ step = 1 => Drive(B)
        /\ step = 2 => Drive(O)
    BY <1>1, <2>2
  <2> QED
    BY <1>3, <2>2, <2>4, <2>5 DEF A, B, O
<1> QED
  BY <1>2, <1>3

LEMMA JtagSets ==
  ASSUME ResetTypeOK, ResetStep, board = "jtag"
  PROVE  /\ mode = "Bootloader" =>
              /\ Len(Sequence(mode)) = 4 /\ step \in {1, 2, 3, 4}
              /\ step = 1 => Drive(Lines(FALSE, FALSE))
              /\ step = 2 => Drive(Lines(TRUE, FALSE))
              /\ step = 3 => Drive(Lines(FALSE, TRUE))
              /\ step = 4 => Drive(Lines(FALSE, FALSE))
         /\ mode = "Run" =>
              /\ Len(Sequence(mode)) = 3 /\ step \in {1, 2, 3}
              /\ step = 1 => Drive(Lines(FALSE, FALSE))
              /\ step = 2 => Drive(Lines(FALSE, TRUE))
              /\ step = 3 => Drive(Lines(FALSE, FALSE))
<1> DEFINE A == Lines(TRUE, FALSE)
           B == Lines(FALSE, TRUE)
           O == Lines(FALSE, FALSE)
<1>1. step \in 1 .. 5 /\ step <= Len(Sequence(mode)) /\ Drive(Sequence(mode)[step])
  BY DEF ResetTypeOK, ResetStep
<1>2. CASE mode = "Bootloader"
  <2>1. Sequence(mode) = <<O, A, B, O>>
    BY <1>2 DEF Sequence, Off
  <2> HIDE DEF A, B, O
  <2>2. Len(Sequence(mode)) = 4 /\ Sequence(mode)[1] = O /\ Sequence(mode)[2] = A /\ Sequence(mode)[3] = B /\ Sequence(mode)[4] = O
    BY <2>1
  <2>3. step <= 4
    BY <1>1, <2>2
  <2>4. step = 1 \/ step = 2 \/ step = 3 \/ step = 4
    BY <1>1, <2>3
  <2>5. /\ step = 1 => Drive(O)
        /\ step = 2 => Drive(A)
        /\ step = 3 => Drive(B)
        /\ step = 4 => Drive(O)
    BY <1>1, <2>2
  <2> QED
    BY <1>2, <2>2, <2>4, <2>5 DEF A, B, O
<1>3. CASE mode = "Run"
  <2>1. Sequence(mode) = <<O, B, O>>
    BY <1>3 DEF Sequence, Off
  <2> HIDE DEF A, B, O
  <2>2. Len(Sequence(mode)) = 3 /\ Sequence(mode)[1] = O /\ Sequence(mode)[2] = B /\ Sequence(mode)[3] = O
    BY <2>1
  <2>3. step <= 3
    BY <1>1, <2>2
  <2>4. step = 1 \/ step = 2 \/ step = 3
    BY <1>1, <2>3
  <2>5. /\ step = 1 => Drive(O)
        /\ step = 2 => Drive(B)
        /\ step = 3 => Drive(O)
    BY <1>1, <2>2
  <2> QED
    BY <1>3, <2>2, <2>4, <2>5 DEF A, B, O
<1> QED
  BY <1>2, <1>3

LEMMA ResetTypesStep ==
  ASSUME ResetTypes, [ResetNext]_resetVars
  PROVE  ResetTypes'
<1> DEFINE Target == /\ wire \in AllLines /\ chip \in {"run", "boot", "held"}
                     /\ latch \in BOOLEAN /\ lost \in BOOLEAN
                     /\ resetFailures \in 0 .. MaxResetFailures
           Call ==
             /\ mode \in {"none", "Run", "Bootloader"}
             /\ done \in {"none", "Run", "Bootloader"}
             /\ step \in 1 .. 5 /\ calls \in 0 .. Calls
             /\ mode # "none" => step <= Len(Sequence(mode)) + 1
           Tool ==
             /\ asked \in AllLines /\ tool \in Tools /\ at \in 1 .. Len(tool) + 1
             /\ client \in {"none", "served", "gone"} /\ deferred \in BOOLEAN
             /\ sessions \in 0 .. Sessions
           History == tidy \in BOOLEAN /\ alone \in BOOLEAN
<1>1. ResetTypeOK /\ Target /\ Call /\ Tool /\ History /\ board \in Boards
  BY DEF ResetTypes, ResetTypeOK
<1>2. SUFFICES Target' /\ Call' /\ Tool' /\ History' /\ board' \in Boards
  BY DEF ResetTypes, ResetTypeOK, AllLines
<1>3. (board' = board /\ mode' = mode) => Sequence(mode)' = Sequence(mode)
  BY DEF Sequence
<1>0. ASSUME NEW w \in AllLines, TryToDrive(w) PROVE Target'
  BY <1>1, <1>0, DriveLeaves, NotDrivenLeaves DEF TryToDrive
<1>4. CASE UNCHANGED resetVars
  BY <1>1, <1>3, <1>4 DEF resetVars, lines, caller, server
<1>5. ASSUME NEW m \in {"Run", "Bootloader"}, ResetTarget(m)
      PROVE  Target' /\ Call' /\ Tool' /\ History' /\ board' \in Boards
  <2>1. Len(Sequence(m)) \in Nat
    BY DEF Sequence
  <2>2. Sequence(mode)' = Sequence(m)
    BY <1>5 DEF ResetTarget, Sequence
  <2>3. calls' \in 0 .. Calls
    BY <1>1, <1>5, ResetAssumption DEF ResetTarget
  <2> QED
    <3>1. mode' = m /\ step' = 1
      BY <1>5 DEF ResetTarget
    <3>2. (mode # "none" => step <= Len(Sequence(mode)) + 1)'
      BY <2>1, <2>2, <3>1
    <3>3. Call'
      BY <1>1, <1>5, <2>3, <3>1, <3>2 DEF ResetTarget
    <3>4. Target' /\ Tool' /\ board' \in Boards
      BY <1>1, <1>5 DEF ResetTarget, lines, server
    <3> QED
      BY <1>5, <3>3, <3>4 DEF ResetTarget
<1>6. CASE ResetStep
  <2>1. /\ mode \in {"Run", "Bootloader"} /\ Len(Sequence(mode)) \in 2 .. 4
        /\ step \in 1 .. Len(Sequence(mode)) /\ Sequence(mode)[step] \in AllLines
    <3>1. mode # "none" /\ step <= Len(Sequence(mode))
      BY <1>6 DEF ResetStep
    <3> QED
      BY <1>1, <3>1, StepInSequence
  <2>2. Target'
    BY <1>1, <1>6, <2>1, DriveLeaves DEF ResetStep
  <2>3. Sequence(mode)' = Sequence(mode)
    BY <1>3, <1>6 DEF ResetStep
  <2>4. step' \in 1 .. 5 /\ step' <= Len(Sequence(mode)) + 1
    BY <1>1, <1>6, <2>1 DEF ResetStep
  <2> QED
    BY <1>1, <1>6, <2>2, <2>3, <2>4 DEF ResetStep, server
<1>7. CASE ResetFails
  <2>1. Target'
    BY <1>1, <1>7, NotDrivenLeaves DEF ResetFails
  <2> QED
    BY <1>1, <1>7, <2>1 DEF ResetFails, server
<1>8. CASE ResetReturns
  <2>1. Target'
    BY <1>0, <1>1, <1>8, LinesAreLines DEF ResetReturns, lines
  <2> QED
    BY <1>1, <1>8, <2>1 DEF ResetReturns, server
<1>9. CASE ToolComes
  <2>1. tool' \in Tools /\ at' \in 1 .. Len(tool') + 1
    <3>1. tool' \in Tools /\ at' = 1
      BY <1>9 DEF ToolComes
    <3>2. Len(tool') \in Nat
      BY <3>1, ResetAssumption
    <3> QED
      BY <3>1, <3>2
  <2>2. sessions' \in 0 .. Sessions
    BY <1>1, <1>9, ResetAssumption DEF ToolComes
  <2>3. tidy' \in BOOLEAN
    BY <1>9 DEF ToolComes
  <2>4. Sequence(mode)' = Sequence(mode)
    BY <1>3, <1>9 DEF ToolComes, caller
  <2> QED
    BY <1>1, <1>9, <2>1, <2>2, <2>3, <2>4 DEF ToolComes, lines, caller
<1>10. CASE SetControl
  <2> DEFINE w == [asked EXCEPT ![tool[at][1]] = tool[at][2]]
  <2>1. w \in AllLines
    BY <1>1, <1>10, AskedIsLines DEF SetControl
  <2>2. Target' /\ asked' \in AllLines /\ deferred' \in BOOLEAN
    BY <1>0, <1>1, <1>10, <2>1 DEF SetControl, lines
  <2>3. at' \in 1 .. Len(tool) + 1
    <3>1. Len(tool) \in Nat
      BY <1>1, ResetAssumption
    <3> QED
      BY <1>1, <1>10, <3>1 DEF SetControl
  <2>4. Sequence(mode)' = Sequence(mode)
    BY <1>3, <1>10 DEF SetControl, caller
  <2> QED
    BY <1>1, <1>10, <2>2, <2>3, <2>4 DEF SetControl, TidyIfDriven, caller
<1>11. CASE ApplyControlLines
  <2>1. Target'
    BY <1>0, <1>1, <1>11 DEF ApplyControlLines
  <2>2. Sequence(mode)' = Sequence(mode)
    BY <1>3, <1>11 DEF ApplyControlLines, caller
  <2> QED
    BY <1>1, <1>11, <2>1, <2>2 DEF ApplyControlLines, TidyIfDriven, caller
<1>12. CASE ToolLeaves
  <2>1. Sequence(mode)' = Sequence(mode)
    BY <1>3, <1>12 DEF ToolLeaves, caller
  <2> QED
    BY <1>1, <1>12, <2>1, LinesAreLines DEF ToolLeaves, lines, caller
<1>13. CASE ResetControlLines
  <2>1. Target'
    BY <1>0, <1>13, LinesAreLines DEF ResetControlLines
  <2>2. Sequence(mode)' = Sequence(mode)
    BY <1>3, <1>13 DEF ResetControlLines, caller
  <2> QED
    BY <1>1, <1>13, <2>1, <2>2 DEF ResetControlLines, caller
<1> QED
  BY <1>4, <1>5, <1>6, <1>7, <1>8, <1>9, <1>10, <1>11, <1>12, <1>13
  DEF ResetNext, ResetCall, ToolServer

LEMMA ResetInvInit == ResetInit => WInv
<1> SUFFICES ASSUME ResetInit PROVE WInv
  OBVIOUS
<1>1. ResetTypes
  <2>1. board \in {"bridge", "jtag"} /\ tool \in Tools /\ Len(tool) \in Nat
    BY ResetAssumption DEF ResetInit
  <2>2. wire \in AllLines /\ asked \in AllLines
    BY LinesAreLines DEF ResetInit
  <2>3. latch \in BOOLEAN
    BY DEF ResetInit, DtrAlone
  <2>4. /\ step \in 1 .. 5 /\ at \in 1 .. Len(tool) + 1 /\ calls \in 0 .. Calls
        /\ resetFailures \in 0 .. MaxResetFailures /\ sessions \in 0 .. Sessions
    BY <2>1, ResetAssumption DEF ResetInit
  <2> QED
    BY <2>1, <2>2, <2>3, <2>4 DEF ResetInit, ResetTypes, ResetTypeOK
<1> QED
  BY <1>1 DEF WInv, ResetInit, NothingPromised, BridgeHolds, JtagHolds, ResetDidIt,
    AsAsked, NothingAsked, EsptoolGetsOn, FreeAgain

(* The call's own part of the invariant under its own steps.               *)
LEMMA ResetStepHolds ==
  ASSUME WInv, ResetStep
  PROVE  BridgeHolds' /\ JtagHolds' /\ FreeAgain'
<1>1. ResetTypeOK /\ step \in 1 .. 5 /\ board \in Boards
  BY DEF WInv, ResetTypes, ResetTypeOK
<1>2. mode # "none" /\ step <= Len(Sequence(mode))
  BY DEF ResetStep
<1>3. /\ mode \in {"Run", "Bootloader"} /\ board \in {"bridge", "jtag"}
      /\ step \in 1 .. Len(Sequence(mode))
  BY <1>1, <1>2, StepInSequence
<1>4. /\ Drive(Sequence(mode)[step]) /\ step' = step + 1
      /\ UNCHANGED <<board, mode, alone, client>>
  BY DEF ResetStep, server
<1>5. BridgeHolds /\ JtagHolds /\ FreeAgain
  BY DEF WInv
<1>6. Sequence(mode)' = Sequence(mode)
  BY <1>4 DEF Sequence
<1>7. CASE board = "bridge" /\ mode = "Bootloader"
  <2>1. Len(Sequence(mode)) = 3 /\ step \in {1, 2, 3}
    BY <1>1, <1>7, BridgeSets
  <2>2. CASE step = 1
    <3>1. Drive(Lines(FALSE, TRUE))
      BY <1>1, <1>7, <2>2, BridgeSets
    <3>2. chip' = "held"
      BY <1>1, <3>1, DriveIs
    <3> QED
      BY <1>4, <1>6, <1>7, <2>1, <2>2, <3>2 DEF BridgeHolds, JtagHolds, FreeAgain
  <2>3. CASE step = 2
    <3>1. Drive(Lines(TRUE, FALSE))
      BY <1>1, <1>7, <2>3, BridgeSets
    <3>2. chip' = IF chip # "held" THEN chip ELSE "boot"
      BY <1>1, <1>7, <3>1, DriveIs
    <3> QED
      BY <1>4, <1>5, <1>6, <1>7, <2>1, <2>3, <3>2 DEF BridgeHolds, JtagHolds, FreeAgain
  <2>4. CASE step = 3
    <3>1. Drive(Lines(FALSE, FALSE))
      BY <1>1, <1>7, <2>4, BridgeSets
    <3>2. chip' = IF chip # "held" THEN chip ELSE "run"
      BY <1>1, <1>7, <3>1, DriveIs
    <3> QED
      BY <1>4, <1>5, <1>6, <1>7, <2>1, <2>4, <3>2 DEF BridgeHolds, JtagHolds, FreeAgain
  <2> QED
    BY <2>1, <2>2, <2>3, <2>4
<1>8. CASE board = "bridge" /\ mode = "Run"
  <2>1. Len(Sequence(mode)) = 2 /\ step \in {1, 2}
    BY <1>1, <1>8, BridgeSets
  <2>2. CASE step = 1
    <3>1. Drive(Lines(FALSE, TRUE))
      BY <1>1, <1>8, <2>2, BridgeSets
    <3>2. chip' = "held"
      BY <1>1, <3>1, DriveIs
    <3> QED
      BY <1>4, <1>6, <1>8, <2>1, <2>2, <3>2 DEF BridgeHolds, JtagHolds, FreeAgain
  <2>3. CASE step = 2
    <3>1. Drive(Lines(FALSE, FALSE))
      BY <1>1, <1>8, <2>3, BridgeSets
    <3>2. chip' = (IF chip # "held" THEN chip ELSE "run") /\ wire' = Off
      BY <1>1, <1>8, <3>1, DriveIs, LinesAreLines
    <3> QED
      BY <1>4, <1>5, <1>6, <1>8, <2>1, <2>3, <3>2 DEF BridgeHolds, JtagHolds, FreeAgain
  <2> QED
    BY <2>1, <2>2, <2>3
<1>9. CASE board = "jtag" /\ mode = "Bootloader"
  <2>1. Len(Sequence(mode)) = 4 /\ step \in {1, 2, 3, 4}
    BY <1>1, <1>9, JtagSets
  <2>2. CASE step = 1
    BY <1>4, <1>6, <1>9, <2>1, <2>2 DEF BridgeHolds, JtagHolds, FreeAgain
  <2>3. CASE step = 2
    <3>1. Drive(Lines(TRUE, FALSE))
      BY <1>1, <1>9, <2>3, JtagSets
    <3>2. latch'
      BY <1>1, <3>1, DriveIs
    <3> QED
      BY <1>4, <1>6, <1>9, <2>1, <2>3, <3>2 DEF BridgeHolds, JtagHolds, FreeAgain
  <2>4. CASE step = 3
    <3>1. Drive(Lines(FALSE, TRUE))
      BY <1>1, <1>9, <2>4, JtagSets
    <3>2. chip' = "held" /\ latch' = latch
      BY <1>1, <3>1, DriveIs
    <3>3. alone => latch
      BY <1>3, <1>5, <1>9, <2>4 DEF JtagHolds
    <3>4. alone' => latch'
      <4>1. alone' = alone
        BY <1>4
      <4> QED
        BY <3>2, <3>3, <4>1, Zenon
    <3>5. step' = 4 /\ board' = "jtag" /\ mode' = "Bootloader"
      BY <1>4, <1>9, <2>4
    <3>6. JtagHolds'
      BY <3>2, <3>4, <3>5 DEF JtagHolds
    <3>7. BridgeHolds'
      BY <3>5 DEF BridgeHolds
    <3>8. FreeAgain'
      BY <1>6, <2>1, <3>5 DEF FreeAgain
    <3> QED
      BY <3>6, <3>7, <3>8
  <2>5. CASE step = 4
    <3>1. Drive(Lines(FALSE, FALSE))
      BY <1>1, <1>9, <2>5, JtagSets
    <3>2. /\ chip' = IF chip # "held" THEN chip ELSE IF latch THEN "boot" ELSE "run"
          /\ chip' # "held"
      BY <1>1, <1>9, <3>1, DriveIs
    <3> QED
      BY <1>4, <1>5, <1>6, <1>9, <2>1, <2>5, <3>2 DEF BridgeHolds, JtagHolds, FreeAgain
  <2> QED
    BY <2>1, <2>2, <2>3, <2>4, <2>5
<1>10. CASE board = "jtag" /\ mode = "Run"
  <2>1. Len(Sequence(mode)) = 3 /\ step \in {1, 2, 3}
    BY <1>1, <1>10, JtagSets
  <2>2. CASE step = 1
    <3>1. Drive(Lines(FALSE, FALSE))
      BY <1>1, <1>10, <2>2, JtagSets
    <3>2. ~latch'
      BY <1>1, <3>1, DriveIs
    <3> QED
      BY <1>4, <1>6, <1>10, <2>1, <2>2, <3>2 DEF BridgeHolds, JtagHolds, FreeAgain
  <2>3. CASE step = 2
    <3>1. Drive(Lines(FALSE, TRUE))
      BY <1>1, <1>10, <2>3, JtagSets
    <3>2. chip' = "held" /\ latch' = latch
      BY <1>1, <3>1, DriveIs
    <3> QED
      BY <1>4, <1>5, <1>6, <1>10, <2>1, <2>3, <3>2 DEF BridgeHolds, JtagHolds, FreeAgain
  <2>4. CASE step = 3
    <3>1. Drive(Lines(FALSE, FALSE))
      BY <1>1, <1>10, <2>4, JtagSets
    <3>2. /\ chip' = IF chip # "held" THEN chip ELSE IF latch THEN "boot" ELSE "run"
          /\ chip' # "held" /\ wire' = Off
      BY <1>1, <1>10, <3>1, DriveIs, LinesAreLines
    <3> QED
      BY <1>4, <1>5, <1>6, <1>10, <2>1, <2>4, <3>2 DEF BridgeHolds, JtagHolds, FreeAgain
  <2> QED
    BY <2>1, <2>2, <2>3, <2>4
<1> QED
  BY <1>3, <1>7, <1>8, <1>9, <1>10

LEMMA LinesExcept ==
  ASSUME NEW d \in BOOLEAN, NEW r \in BOOLEAN, NEW x \in BOOLEAN
  PROVE  /\ [Lines(d, r) EXCEPT !["dtr"] = x] = Lines(x, r)
         /\ [Lines(d, r) EXCEPT !["rts"] = x] = Lines(d, x)
<1> DEFINE f == Lines(d, r)
<1>1. f \in AllLines /\ f["dtr"] = d /\ f["rts"] = r
  BY DEF Lines, AllLines
<1>2. \A w \in AllLines : w = Lines(w["dtr"], w["rts"])
  BY DEF Lines, AllLines
<1> HIDE DEF f
<1>3. /\ [f EXCEPT !["dtr"] = x] \in AllLines /\ [f EXCEPT !["rts"] = x] \in AllLines
      /\ DOMAIN f = {"dtr", "rts"}
  BY <1>1 DEF AllLines
<1>4. /\ [f EXCEPT !["dtr"] = x]["dtr"] = x /\ [f EXCEPT !["dtr"] = x]["rts"] = r
      /\ [f EXCEPT !["rts"] = x]["dtr"] = d /\ [f EXCEPT !["rts"] = x]["rts"] = x
  BY <1>1, <1>3
<1> QED
  BY <1>2, <1>3, <1>4 DEF f

(* One request of esptool on a board with the transistor pair.             *)
LEMMA EsptoolStep ==
  ASSUME WInv, SetControl
  PROVE  EsptoolGetsOn'
<1>1. ResetTypeOK /\ EsptoolGetsOn
  BY DEF WInv, ResetTypes
<1>2. SUFFICES ASSUME tidy', client' = "served", tool' = Esptool
               PROVE  /\ mode' = "none"
                      /\ board' = "bridge" => EsptoolGetsOn'
  BY DEF EsptoolGetsOn
<1>3. /\ tidy /\ client = "served" /\ tool = Esptool /\ mode' = mode
      /\ board' = board /\ at <= Len(tool) /\ at' = at + 1 /\ ~NotDriven
  BY <1>1, <1>2, NotDrivenLeaves DEF SetControl, TidyIfDriven, caller
<1>4. mode = "none"
  BY <1>1, <1>3 DEF EsptoolGetsOn
<1>5. ASSUME board = "bridge" PROVE EsptoolGetsOn'
  <2>1. at \in {1, 2, 3, 4, 5}
    <3>1. Len(tool) = 5
      BY <1>3 DEF Esptool
    <3>2. at \in 1 .. Len(tool) + 1
      BY <1>1 DEF ResetTypeOK
    <3> QED
      BY <1>3, <3>1, <3>2
  <2>2. /\ tool[1][1] = "dtr" /\ tool[1][2] = FALSE
        /\ tool[2][1] = "rts" /\ tool[2][2] = TRUE
        /\ tool[3][1] = "dtr" /\ tool[3][2] = TRUE
        /\ tool[4][1] = "rts" /\ tool[4][2] = FALSE
        /\ tool[5][1] = "dtr" /\ tool[5][2] = FALSE
    BY <1>3 DEF Esptool
  <2> DEFINE w == [asked EXCEPT ![tool[at][1]] = tool[at][2]]
             Now(d, r) == /\ Drive(Lines(d, r)) /\ asked' = Lines(d, r)
                          /\ ~deferred'
  <2>3. ASSUME NEW d \in BOOLEAN, NEW r \in BOOLEAN, ~(d /\ r), w = Lines(d, r)
        PROVE  Now(d, r)
    <3>1. w.dtr = d /\ w.rts = r
      BY <2>3 DEF Lines
    <3> QED
      BY <1>3, <2>3, <3>1 DEF SetControl, TryToDrive
  <2>4. /\ at \in {1, 2} => wire = Off /\ chip = "run"
        /\ at \in {3, 4} => wire = Lines(FALSE, TRUE) /\ chip = "held"
        /\ at = 5 => wire = Lines(TRUE, FALSE) /\ chip = "boot"
        /\ at = 4 => asked = Lines(TRUE, TRUE)
        /\ at # 4 => asked = wire
    BY <1>1, <1>3, <1>5 DEF EsptoolGetsOn
  <2>5. CASE at = 1
    <3>1. asked = Lines(FALSE, FALSE) /\ chip = "run"
      BY <2>4, <2>5 DEF Off
    <3>2. w = Lines(FALSE, FALSE)
      BY <2>2, <2>5, <3>1, LinesExcept
    <3>3. Now(FALSE, FALSE)
      BY <2>3, <3>2
    <3>4. wire' = Lines(FALSE, FALSE) /\ chip' = "run"
      BY <1>1, <3>1, <3>3, DriveIs
    <3> QED
      BY <1>3, <1>4, <2>5, <3>3, <3>4 DEF EsptoolGetsOn, Off
  <2>6. CASE at = 2
    <3>1. asked = Lines(FALSE, FALSE)
      BY <2>4, <2>6 DEF Off
    <3>2. w = Lines(FALSE, TRUE)
      BY <2>2, <2>6, <3>1, LinesExcept
    <3>3. Now(FALSE, TRUE)
      BY <2>3, <3>2
    <3>4. wire' = Lines(FALSE, TRUE) /\ chip' = "held"
      BY <1>1, <3>3, DriveIs
    <3> QED
      BY <1>3, <1>4, <2>6, <3>3, <3>4 DEF EsptoolGetsOn
  <2>7. CASE at = 3
    <3>1. asked = Lines(FALSE, TRUE) /\ chip = "held" /\ wire = Lines(FALSE, TRUE)
      BY <2>4, <2>7
    <3>2. w = Lines(TRUE, TRUE)
      BY <2>2, <2>7, <3>1, LinesExcept
    <3>3. w.dtr /\ w.rts
      BY <3>2 DEF Lines
    <3>4. asked' = w /\ deferred' /\ UNCHANGED <<wire, chip, latch>>
      BY <3>3 DEF SetControl, lines
    <3> QED
      BY <1>3, <1>4, <2>7, <3>1, <3>2, <3>4 DEF EsptoolGetsOn
  <2>8. CASE at = 4
    <3>1. asked = Lines(TRUE, TRUE) /\ chip = "held"
      BY <2>4, <2>8
    <3>2. w = Lines(TRUE, FALSE)
      BY <2>2, <2>8, <3>1, LinesExcept
    <3>3. Now(TRUE, FALSE)
      BY <2>3, <3>2
    <3>4. wire' = Lines(TRUE, FALSE) /\ chip' = "boot"
      BY <1>1, <1>5, <3>1, <3>3, DriveIs
    <3> QED
      BY <1>3, <1>4, <2>8, <3>3, <3>4 DEF EsptoolGetsOn
  <2>9. CASE at = 5
    <3>1. asked = Lines(TRUE, FALSE) /\ chip = "boot"
      BY <2>4, <2>9
    <3>2. w = Lines(FALSE, FALSE)
      BY <2>2, <2>9, <3>1, LinesExcept
    <3>3. Now(FALSE, FALSE)
      BY <2>3, <3>2
    <3>4. wire' = Lines(FALSE, FALSE) /\ chip' = "boot"
      BY <1>1, <3>1, <3>3, DriveIs
    <3> QED
      BY <1>3, <1>4, <2>9, <3>3, <3>4 DEF EsptoolGetsOn, Off
  <2> QED
    BY <2>1, <2>5, <2>6, <2>7, <2>8, <2>9
<1> QED
  BY <1>3, <1>4, <1>5

LEMMA ResetInvStep ==
  ASSUME WInv, [ResetNext]_resetVars
  PROVE  WInv'
<1>1. ResetTypes' /\ ResetTypes /\ ResetTypeOK
  BY ResetTypesStep DEF WInv, ResetTypes
<1>2. /\ NothingPromised /\ BridgeHolds /\ JtagHolds /\ ResetDidIt /\ NothingAsked
      /\ EsptoolGetsOn /\ FreeAgain
  BY DEF WInv
<1> DEFINE Others == /\ NothingPromised /\ BridgeHolds /\ JtagHolds /\ ResetDidIt
                    /\ NothingAsked /\ EsptoolGetsOn /\ FreeAgain
<1>3. SUFFICES Others'
  BY <1>1 DEF WInv
<1>4. (UNCHANGED <<board, mode>>) => Sequence(mode)' = Sequence(mode)
  BY DEF Sequence
<1>5. Rest.rts = FALSE
  BY DEF Rest, Lines
<1>6. CASE UNCHANGED resetVars
  <2>1. Sequence(mode)' = Sequence(mode) /\ Rest' = Rest
    BY <1>4, <1>6 DEF resetVars, lines, caller, Rest
  <2>2. NothingPromised' /\ BridgeHolds' /\ JtagHolds'
    BY <1>2, <1>6 DEF resetVars, lines, caller, server, NothingPromised, BridgeHolds, JtagHolds
  <2>3. ResetDidIt' /\ NothingAsked'
    BY <1>2, <1>6, <2>1 DEF resetVars, lines, caller, server, ResetDidIt, AsAsked, NothingAsked
  <2>4. EsptoolGetsOn' /\ FreeAgain'
    BY <1>2, <1>6, <2>1 DEF resetVars, lines, caller, server, EsptoolGetsOn, FreeAgain
  <2> QED
    BY <2>2, <2>3, <2>4
<1>7. ASSUME NEW m \in {"Run", "Bootloader"}, ResetTarget(m) PROVE Others'
  <2>1. mode' = m /\ step' = 1 /\ done' = "none" /\ ~tidy' /\ UNCHANGED server
    BY <1>7 DEF ResetTarget
  <2>2. FreeAgain'
    <3>1. Sequence(mode)' = Sequence(m)
      BY <1>7 DEF ResetTarget, Sequence
    <3>2. Len(Sequence(m)) \in Nat /\ Len(Sequence(m)) > 1
      BY DEF Sequence
    <3>3. ~(step' > Len(Sequence(mode))')
      BY <2>1, <3>1, <3>2
    <3> QED
      BY <2>1, <3>3 DEF FreeAgain
  <2> QED
    <3>1. BridgeHolds' /\ JtagHolds'
      BY <2>1 DEF BridgeHolds, JtagHolds
    <3>2. NothingPromised' /\ ResetDidIt' /\ EsptoolGetsOn'
      BY <2>1 DEF NothingPromised, ResetDidIt, AsAsked, EsptoolGetsOn
    <3>3. NothingAsked'
      BY <1>2, <2>1 DEF NothingAsked, server
    <3> QED
      BY <2>2, <3>1, <3>2, <3>3
<1>8. CASE ResetStep
  <2>1. BridgeHolds' /\ JtagHolds' /\ FreeAgain'
    BY <1>8, ResetStepHolds
  <2>2. /\ mode # "none" /\ UNCHANGED <<board, mode, tidy, done, alone>>
        /\ UNCHANGED server
    BY <1>8 DEF ResetStep
  <2>3. NothingPromised' /\ done' = "none"
    BY <1>2, <2>2 DEF NothingPromised
  <2>4. EsptoolGetsOn'
    BY <1>2, <2>2 DEF EsptoolGetsOn, server
  <2> QED
    BY <1>2, <2>1, <2>2, <2>3, <2>4 DEF ResetDidIt, AsAsked, NothingAsked, server
<1>9. CASE ResetFails
  <2>1. /\ mode # "none" /\ mode' = "none" /\ lost'
        /\ UNCHANGED <<tidy, done, alone>> /\ UNCHANGED server
    BY <1>1, <1>9, NotDrivenLeaves DEF ResetFails
  <2>2. done' = "none"
    BY <1>2, <2>1 DEF NothingPromised
  <2> QED
    BY <1>2, <2>1, <2>2 DEF NothingPromised, BridgeHolds, JtagHolds, ResetDidIt,
      AsAsked, NothingAsked, EsptoolGetsOn, FreeAgain, server
<1>10. CASE ResetReturns
  <2>1. /\ mode # "none" /\ mode' = "none" /\ done' = mode
        /\ UNCHANGED <<board, tidy, step, alone>> /\ UNCHANGED server
    BY <1>10 DEF ResetReturns
  <2>2. mode \in {"Run", "Bootloader"} /\ board \in Boards /\ step \in 1 .. 5
    BY <1>1, <2>1 DEF ResetTypeOK
  <2>3. /\ board \in {"bridge", "jtag"} /\ Len(Sequence(mode)) \in 2 .. 4
        /\ step = Len(Sequence(mode)) + 1
    <3>1. step > Len(Sequence(mode)) /\ step <= Len(Sequence(mode)) + 1
      BY <1>1, <1>10, <2>1 DEF ResetReturns, ResetTypes
    <3>2. Len(Sequence(mode)) \in 2 .. 4 /\ board \in {"bridge", "jtag"}
      BY <2>2, SequenceShape
    <3> QED
      BY <2>2, <3>1, <3>2
  <2>4. Rest' = Rest
    BY <2>1 DEF Rest
  <2>5. CASE mode = "Run"
    <3>1. TryToDrive(Rest)
      BY <1>10, <2>5 DEF ResetReturns
    <3>2. \/ /\ wire' = Rest /\ ~lost'
             /\ chip' = IF chip # "held" THEN chip ELSE Started(Rest)
          \/ wire' = wire /\ chip' = chip /\ lost'
      BY <1>1, <1>5, <3>1, NotDrivenLeaves DEF TryToDrive, Drive, InReset
    <3>3. ~lost' => chip' # "held"
      BY <3>2 DEF Started
    <3>4. alone => chip = "run" /\ wire = Off
      <4>1. CASE board = "bridge"
        <5>1. Sequence(mode) = <<Lines(FALSE, TRUE), Off>>
          BY <2>5, <4>1 DEF Sequence
        <5>2. Len(<<Lines(FALSE, TRUE), Off>>) = 2
          OBVIOUS
        <5>3. step = 3
          BY <2>3, <5>1, <5>2
        <5> QED
          BY <1>2, <2>1, <2>5, <4>1, <5>3 DEF BridgeHolds
      <4>2. CASE board = "jtag"
        <5>1. Sequence(mode) = <<Off, Lines(FALSE, TRUE), Off>>
          BY <2>5, <4>2 DEF Sequence
        <5>2. Len(<<Off, Lines(FALSE, TRUE), Off>>) = 3
          OBVIOUS
        <5>3. step = 4
          BY <2>3, <5>1, <5>2
        <5> QED
          BY <1>2, <2>1, <2>5, <4>2, <5>3 DEF JtagHolds
      <4> QED
        BY <2>3, <4>1, <4>2
    <3>5. ResetDidIt'
      BY <2>1, <2>4, <2>5, <3>2, <3>4 DEF ResetDidIt, AsAsked
    <3>6. EsptoolGetsOn'
      BY <1>2, <2>1 DEF EsptoolGetsOn, server
    <3> QED
      BY <1>2, <2>1, <3>3, <3>5, <3>6 DEF NothingPromised, BridgeHolds, JtagHolds,
        NothingAsked, FreeAgain, server
  <2>6. CASE mode = "Bootloader"
    <3>1. UNCHANGED <<wire, chip, latch, lost>>
      BY <1>10, <2>6 DEF ResetReturns, lines
    <3>2. alone => chip = "boot"
      <4>1. CASE board = "bridge"
        <5>1. Sequence(mode) = <<Lines(FALSE, TRUE), Lines(TRUE, FALSE), Off>>
          BY <2>6, <4>1 DEF Sequence
        <5>2. Len(<<Lines(FALSE, TRUE), Lines(TRUE, FALSE), Off>>) = 3
          OBVIOUS
        <5>3. step = 4
          BY <2>3, <5>1, <5>2
        <5> QED
          BY <1>2, <2>1, <2>6, <4>1, <5>3 DEF BridgeHolds
      <4>2. CASE board = "jtag"
        <5>1. Sequence(mode) = <<Off, Lines(TRUE, FALSE), Lines(FALSE, TRUE), Off>>
          BY <2>6, <4>2 DEF Sequence
        <5>2. Len(<<Off, Lines(TRUE, FALSE), Lines(FALSE, TRUE), Off>>) = 4
          OBVIOUS
        <5>3. step = 5
          BY <2>3, <5>1, <5>2
        <5> QED
          BY <1>2, <2>1, <2>6, <4>2, <5>3 DEF JtagHolds
      <4> QED
        BY <2>3, <4>1, <4>2
    <3>3. ResetDidIt'
      BY <2>1, <2>6, <3>1, <3>2 DEF ResetDidIt, AsAsked
    <3>4. EsptoolGetsOn'
      BY <1>2, <2>1 DEF EsptoolGetsOn, server
    <3>5. FreeAgain'
      <4>1. step > Len(Sequence(mode))
        BY <2>3
      <4> QED
        BY <1>2, <2>1, <3>1, <4>1 DEF FreeAgain, server
    <3> QED
      BY <1>2, <2>1, <3>3, <3>4, <3>5 DEF NothingPromised, BridgeHolds, JtagHolds,
        NothingAsked, server
  <2> QED
    BY <2>2, <2>5, <2>6
<1>11. CASE ToolComes
  <2>1. /\ client = "none" /\ client' = "served" /\ at' = 1 /\ deferred' = FALSE
        /\ tidy' = (mode = "none" /\ chip = "run" /\ wire = Rest)
        /\ UNCHANGED <<board, wire, chip, latch, lost, done, alone, asked>>
        /\ UNCHANGED caller
    BY <1>11 DEF ToolComes, lines
  <2>2. Sequence(mode)' = Sequence(mode) /\ Rest' = Rest
    BY <1>4, <2>1 DEF caller, Rest
  <2>3. EsptoolGetsOn'
    <3>1. asked = Off
      BY <1>2, <2>1 DEF NothingAsked
    <3>2. board = "bridge" => Rest = Off
      BY DEF Rest, Off
    <3>3. SUFFICES ASSUME tidy' PROVE EsptoolGetsOn'
      BY DEF EsptoolGetsOn
    <3>4. mode = "none" /\ chip = "run" /\ wire = Rest
      BY <2>1, <3>3
    <3>5. mode' = "none" /\ chip' = "run" /\ wire' = Rest /\ asked' = Off
      BY <2>1, <3>1, <3>4 DEF caller
    <3> QED
      BY <2>1, <3>2, <3>5 DEF EsptoolGetsOn
  <2> QED
    BY <1>2, <2>1, <2>2, <2>3 DEF NothingPromised, BridgeHolds, JtagHolds,
      ResetDidIt, AsAsked, NothingAsked, FreeAgain, caller
<1>12. CASE SetControl
  <2>1. EsptoolGetsOn'
    BY <1>12, EsptoolStep
  <2>2. /\ client' = "served" /\ done' = "none" /\ ~alone' /\ UNCHANGED caller
    BY <1>12 DEF SetControl
  <2> QED
    BY <1>2, <2>1, <2>2 DEF NothingPromised, BridgeHolds, JtagHolds, ResetDidIt,
      AsAsked, NothingAsked, FreeAgain, caller
<1>13. CASE ApplyControlLines
  <2>1. /\ client = "served" /\ client' = "served" /\ done' = "none" /\ ~alone'
        /\ deferred /\ Paused
        /\ UNCHANGED <<board, tool, asked, at>> /\ UNCHANGED caller
        /\ tidy' => tidy
    BY <1>13 DEF ApplyControlLines, TidyIfDriven
  <2>2. EsptoolGetsOn'
    <3>1. CASE tidy /\ tool = Esptool /\ board = "bridge"
      <4>1. at = 4
        BY <1>2, <2>1, <3>1 DEF EsptoolGetsOn
      <4>2. tool[3][3] = FALSE
        BY <3>1 DEF Esptool
      <4>3. ~Paused
        BY <4>1, <4>2 DEF Paused
      <4> QED
        BY <2>1, <4>3
    <3>2. CASE ~(tidy /\ tool = Esptool /\ board = "bridge")
      BY <1>2, <2>1, <3>2 DEF EsptoolGetsOn, caller
    <3> QED
      BY <3>1, <3>2
  <2> QED
    BY <1>2, <2>1, <2>2 DEF NothingPromised, BridgeHolds, JtagHolds, ResetDidIt,
      AsAsked, NothingAsked, FreeAgain, caller
<1>14. CASE ToolLeaves
  <2>1. /\ client' = "gone" /\ asked' = Off
        /\ UNCHANGED <<board, wire, chip, latch, lost, done, alone>> /\ UNCHANGED caller
    BY <1>14 DEF ToolLeaves, lines
  <2>2. Rest' = Rest
    BY <2>1 DEF Rest
  <2> QED
    BY <1>2, <2>1, <2>2 DEF NothingPromised, BridgeHolds, JtagHolds, ResetDidIt,
      AsAsked, NothingAsked, EsptoolGetsOn, FreeAgain, caller
<1>15. CASE ResetControlLines
  <2>1. /\ client = "gone" /\ client' = "none" /\ done' = "none" /\ ~alone'
        /\ TryToDrive(Rest) /\ asked' = asked /\ UNCHANGED caller
    BY <1>15 DEF ResetControlLines
  <2>2. chip' # "held" \/ lost'
    BY <1>1, <1>5, <2>1, NotDrivenLeaves DEF TryToDrive, Drive, InReset, Started
  <2> QED
    BY <1>2, <2>1, <2>2 DEF NothingPromised, BridgeHolds, JtagHolds, ResetDidIt,
      AsAsked, NothingAsked, EsptoolGetsOn, FreeAgain, caller
<1> QED
  BY <1>6, <1>7, <1>8, <1>9, <1>10, <1>11, <1>12, <1>13, <1>14, <1>15
  DEF ResetNext, ResetCall, ToolServer

-----------------------------------------------------------------------------

(* resetTarget() that returned ESP_OK with no client at the lines did to   *)
(* the chip what it was asked for, on both boards and wherever earlier     *)
(* calls, failed ones and former clients left the lines, the latch and the *)
(* chip; the lines are at rest, or both off if the last transfer, whose    *)
(* result is ignored, failed (ResetDidIt).                                 *)
THEOREM ResetDoesIt == ResetSpec => []ResetDidIt
<1>1. WInv => ResetDidIt
  BY DEF WInv
<1> QED
  BY ResetInvInit, ResetInvStep, <1>1, PTL DEF ResetSpec

(* esptool, whose requests arrive one line at a time, reaches the          *)
(* bootloader of a board with the transistor pair, whatever other clients  *)
(* and calls came before it (ToolReachesBootloader).                       *)
THEOREM EsptoolArrives == ResetSpec => []ToolReachesBootloader
<1>1. WInv => ToolReachesBootloader
  <2> SUFFICES ASSUME WInv, tidy, client = "served", tool = Esptool,
                      at > Len(tool), board = "bridge"
               PROVE  chip = "boot"
    BY DEF ToolReachesBootloader
  <2>1. Len(tool) = 5
    BY DEF Esptool
  <2>2. at \in 1 .. Len(tool) + 1
    BY DEF WInv, ResetTypes, ResetTypeOK
  <2>3. at = 6
    BY <2>1, <2>2
  <2> QED
    BY <2>3 DEF WInv, EsptoolGetsOn
<1> QED
  BY ResetInvInit, ResetInvStep, <1>1, PTL DEF ResetSpec

(* Neither a client that went away, in whatever state of the lines, nor a  *)
(* call that gave up leaves the chip in reset, unless the very last        *)
(* transfer failed (CrashedToolFreesTarget).                               *)
THEOREM CrashFreesTarget == ResetSpec => []CrashedToolFreesTarget
<1>1. WInv => CrashedToolFreesTarget
  BY DEF WInv, FreeAgain, CrashedToolFreesTarget
<1> QED
  BY ResetInvInit, ResetInvStep, <1>1, PTL DEF ResetSpec

(* The bridge's sequences and esptool's never run past their end, and      *)
(* every line, latch and chip is in a state it can be in (ResetTypeOK).    *)
THEOREM LinesTyped == ResetSpec => []ResetTypeOK
<1>1. WInv => ResetTypeOK
  BY DEF WInv, ResetTypes
<1> QED
  BY ResetInvInit, ResetInvStep, <1>1, PTL DEF ResetSpec

=============================================================================
