------------------------------- MODULE Stream -------------------------------
(***************************************************************************)
(* The target's bytes on their way to the console log, to a flash tool and *)
(* to the browser: the USB driver's receive callback (onTargetData), the   *)
(* console server's task (SerialBridge run, serveClient), the RFC2217      *)
(* server's task (Rfc2217Server run, serveClient) and the web server's     *)
(* handleConsole(), around two ring buffers.                               *)
(*                                                                         *)
(* A status line in the log is one unit, like a byte of the target.        *)
(***************************************************************************)
EXTENDS RingBuffer

CONSTANTS
  Transfer,   \* the largest USB transfer, and
  Chunk,      \* the largest read from a ring
  Budgets     \* the bounds, one record per mix of events explored together

(* Bytes from the target, openings and closings of the serial session,     *)
(* clients of either server, polls of the browser, reads of a flash tool,  *)
(* restarts of the probe.                                                  *)
Events == {"bytes", "toggles", "consoles", "tools", "polls", "reads", "restarts"}

(* in_buffer_size = 0: a transfer is at most one 64 byte packet. *)
ASSUME StreamAssumption ==
  /\ Transfer \in 1 .. Capacity - 1
  /\ Chunk \in Nat \ {0}
  /\ Budgets \subseteq [Events -> Nat]

VARIABLES
  ring,        \* SerialBridge::m_ring and Rfc2217Server::m_ring
  open,        \* UsbTarget::isSerialOpen()
  cdc,         \* the callback: how far it is, and its data
  fromTarget,  \* m_fromTarget
  suppressed,  \* m_suppressed
  pc,          \* console task
  cursor,      \* its cursor
  lastOpen, lastRfc,  \* m_lastTargetOpen, m_lastRfcActive
  pending,     \* the status line it is about to note
  tool,        \* RFC2217 task: "accept", "hello" or "serve"
  toolCursor,
  web,         \* the cursor the browser remembers, -1 for none
  sameBoot,    \* history: it is from this run of the probe
  written,     \* history: all that was ever written to either ring
  handed,      \* history: what this step gave to which reader, and the loss
               \* it was told of
  reported,    \* history: bytes the log reports as hidden, all lines together
  left         \* what is left of the bounds

target  == <<open, cdc, fromTarget, suppressed>>
console == <<pc, cursor, lastOpen, lastRfc, pending>>
rfc     == <<tool, toolCursor>>
browser == <<web, sameBoot>>
vars == <<ring, target, console, rfc, browser, written, handed, reported, left>>

Rings   == {"console", "rfc"}
Nobody  == [to |-> "nobody", out |-> <<>>, gap |-> 0]
NoNote  == <<>>
Resting == [at |-> "idle", data |-> <<>>]
Line(kind, n) == <<kind, n>>
Bytes(from, n) == [i \in 1 .. n |-> Line("byte", from + i)]

(* Rfc2217Server::hasClient(): m_clientSocket >= 0. *)
HasTool == tool # "accept"

Put(q, data) ==
  /\ ring' = [ring EXCEPT ![q] = Write(@, data)]
  /\ written' = [written EXCEPT ![q] = @ \o data]

Hand(reader, got, gap) ==
  handed' = [to |-> reader, out |-> got.out, gap |-> gap]

Init ==
  /\ ring = [q \in Rings |-> Empty]
  /\ open = FALSE /\ cdc = Resting
  /\ fromTarget = 0 /\ suppressed = 0
  /\ pc = "accept" /\ cursor = 0
  /\ lastOpen = FALSE /\ lastRfc = FALSE /\ pending = NoNote
  /\ tool = "accept" /\ toolCursor = 0
  /\ written = [q \in Rings |-> <<>>]
  /\ handed = Nobody /\ reported = 0
  /\ web = -1 /\ sameBoot = FALSE
  /\ left \in Budgets

SpendMany(what, n) == left[what] >= n /\ left' = [left EXCEPT ![what] = @ - n]
Spend(what) == SpendMany(what, 1)

(* The browser keeps its page, and its cursor, over a restart. *)
Restart ==
  /\ Spend("restarts")
  /\ ring' = [q \in Rings |-> Empty]
  /\ open' = FALSE /\ cdc' = Resting
  /\ fromTarget' = 0 /\ suppressed' = 0
  /\ pc' = "accept" /\ cursor' = 0
  /\ lastOpen' = FALSE /\ lastRfc' = FALSE /\ pending' = NoNote
  /\ tool' = "accept" /\ toolCursor' = 0
  /\ written' = [q \in Rings |-> <<>>]
  /\ handed' = Nobody /\ reported' = 0
  /\ sameBoot' = FALSE
  /\ UNCHANGED web

(* ------------------- the target and the USB driver --------------------- *)

Toggle ==
  /\ Spend("toggles")
  /\ open' = ~open
  /\ handed' = Nobody
  /\ UNCHANGED <<ring, cdc, fromTarget, suppressed, console, rfc,
                  browser, written, reported>>

(* onTargetData(): looks once who is there, then writes. *)
Receive(n) ==
  /\ open /\ cdc.at = "idle"
  /\ SpendMany("bytes", n)
  /\ fromTarget' = fromTarget + n
  /\ cdc' = [at |-> IF HasTool THEN "feed" ELSE "write", data |-> Bytes(fromTarget, n)]
  /\ handed' = Nobody
  /\ UNCHANGED <<ring, open, suppressed, console, rfc, browser, written, reported>>

WriteLog ==
  /\ cdc.at = "write"
  /\ Put("console", cdc.data)
  /\ cdc' = Resting
  /\ handed' = Nobody
  /\ UNCHANGED <<open, fromTarget, suppressed, console, rfc, browser, reported, left>>

FeedTool ==
  /\ cdc.at = "feed"
  /\ Put("rfc", cdc.data)
  /\ cdc' = [cdc EXCEPT !.at = "count"]
  /\ handed' = Nobody
  /\ UNCHANGED <<open, fromTarget, suppressed, console, rfc, browser, reported, left>>

CountSuppressed ==
  /\ cdc.at = "count"
  /\ suppressed' = suppressed + Len(cdc.data)
  /\ cdc' = Resting
  /\ handed' = Nobody
  /\ UNCHANGED <<ring, open, fromTarget, console, rfc,
                  browser, written, reported, left>>

(* ------------------------ the console server --------------------------- *)

ConsoleAccept ==
  /\ pc = "accept" /\ Spend("consoles")
  /\ pc' = "start"
  /\ handed' = Nobody
  /\ UNCHANGED <<ring, target, cursor, lastOpen, lastRfc, pending, rfc,
                  browser, written, reported>>

(* After the banner: from the oldest byte there is. *)
ConsoleStart ==
  /\ pc = "start"
  /\ cursor' = Oldest(ring["console"])
  /\ lastOpen' = open
  /\ pc' = "target"
  /\ handed' = Nobody
  /\ UNCHANGED <<ring, target, lastRfc, pending, rfc, browser, written, reported, left>>

LookAtTarget ==
  /\ pc = "target" /\ pending = NoNote
  /\ lastOpen' = open
  /\ pending' = IF open = lastOpen THEN NoNote
                ELSE Line(IF open THEN "opened" ELSE "gone", 0)
  /\ pc' = IF open = lastOpen THEN "tool" ELSE "noteTarget"
  /\ handed' = Nobody
  /\ UNCHANGED <<ring, target, cursor, lastRfc, rfc, browser, written, reported, left>>

LookAtToolNoReset ==
  /\ pc = "tool"
  /\ lastRfc' = HasTool
  /\ suppressed' = suppressed
  /\ pending' = IF HasTool = lastRfc THEN NoNote
                ELSE IF HasTool THEN Line("paused", 0) ELSE Line("resumed", suppressed)
  /\ pc' = IF HasTool = lastRfc THEN "drain" ELSE "noteTool"
  /\ handed' = Nobody
  /\ UNCHANGED <<ring, open, cdc, fromTarget, cursor, lastOpen, rfc,
                  browser, written, reported, left>>

(* The count starts at the moment this task notices the flash tool. *)
LookAtTool ==
  /\ pc = "tool"
  /\ lastRfc' = HasTool
  /\ suppressed' = IF HasTool /\ ~lastRfc THEN 0 ELSE suppressed
  /\ pending' = IF HasTool = lastRfc THEN NoNote
                ELSE IF HasTool THEN Line("paused", 0) ELSE Line("resumed", suppressed)
  /\ pc' = IF HasTool = lastRfc THEN "drain" ELSE "noteTool"
  /\ handed' = Nobody
  /\ UNCHANGED <<ring, open, cdc, fromTarget, cursor, lastOpen, rfc,
                  browser, written, reported, left>>

Note ==
  /\ pc \in {"noteTarget", "noteTool"}
  /\ Put("console", <<pending>>)
  /\ reported' = reported + (IF pending[1] = "resumed" THEN pending[2] ELSE 0)
  /\ pending' = NoNote
  /\ pc' = IF pc = "noteTarget" THEN "tool" ELSE "drain"
  /\ handed' = Nobody
  /\ UNCHANGED <<target, cursor, lastOpen, lastRfc, rfc, browser, left>>

(* Bytes that were overrun are a warning in the probe's own log; the       *)
(* client does not see it.                                                 *)
Drain ==
  /\ pc = "drain"
  /\ LET got == Read(ring["console"], cursor, Chunk)
     IN  /\ cursor' = got.cursor
         /\ Hand("console", got, 0)
         /\ pc' = IF got.out = <<>> THEN "target" ELSE "drain"
  /\ UNCHANGED <<ring, target, lastOpen, lastRfc, pending, rfc,
                  browser, written, reported, left>>

(* recv() returns 0, or select(), recv() or send() fails.  What the client *)
(* types goes to the target, see ConsoleLine.                              *)
ConsoleLeaves ==
  /\ pc = "drain"
  /\ pc' = "accept"
  /\ handed' = Nobody
  /\ UNCHANGED <<ring, target, cursor, lastOpen, lastRfc, pending, rfc,
                  browser, written, reported, left>>

(* ------------------------ the RFC2217 server --------------------------- *)

ToolAccept ==
  /\ tool = "accept" /\ Spend("tools")
  /\ tool' = "hello"
  /\ handed' = Nobody
  /\ UNCHANGED <<ring, target, console, toolCursor, browser, written, reported>>

(* After the six offers: only what is new. *)
ToolStart ==
  /\ tool = "hello"
  /\ toolCursor' = Newest(ring["rfc"])
  /\ tool' = "serve"
  /\ handed' = Nobody
  /\ UNCHANGED <<ring, target, console, browser, written, reported, left>>

(* Nobody looks at what read() says it skipped. *)
ToolDrain ==
  /\ tool = "serve" /\ Spend("reads")
  /\ LET got == Read(ring["rfc"], toolCursor, Chunk)
     IN  /\ toolCursor' = got.cursor
         /\ Hand("tool", got, 0)
  /\ UNCHANGED <<ring, target, console, tool, browser, written, reported>>

ToolLeaves ==
  /\ tool = "serve"
  /\ tool' = "accept"
  /\ handed' = Nobody
  /\ UNCHANGED <<ring, target, console, toolCursor, browser, written, reported, left>>

(* --------------------------- the browser ------------------------------- *)

(* handleConsole(): without a cursor from the oldest byte, else from where *)
(* the page is, or believes to be; "skipped" is part of the answer.        *)
Poll ==
  /\ Spend("polls")
  /\ LET q   == ring["console"]
         got == Read(q, IF web = -1 THEN Oldest(q) ELSE web, Chunk)
     IN  /\ web' = got.cursor
         /\ Hand("web", got, got.skipped)
  /\ sameBoot' = TRUE
  /\ UNCHANGED <<ring, target, console, rfc, written, reported>>

(* The page is closed or loaded anew. *)
Reload ==
  /\ web # -1
  /\ web' = -1 /\ sameBoot' = FALSE
  /\ handed' = Nobody
  /\ UNCHANGED <<ring, target, console, rfc, written, reported, left>>

ConsoleStep ==
  \/ ConsoleStart \/ LookAtTarget \/ LookAtTool \/ Note \/ Drain

CdcStep == WriteLog \/ FeedTool \/ CountSuppressed

Next ==
  \/ Restart \/ Toggle \/ CdcStep
  \/ \E n \in 1 .. Transfer : Receive(n)
  \/ ConsoleAccept \/ ConsoleStep \/ ConsoleLeaves
  \/ ToolAccept \/ ToolStart \/ ToolDrain \/ ToolLeaves
  \/ Poll \/ Reload

Spec == Init /\ [][Next]_vars

(* The tasks run, and the client of the console reads what it is sent. *)
FairSpec == Spec /\ WF_vars(ConsoleStep) /\ WF_vars(CdcStep)

(* ----------------------------- properties ------------------------------ *)

(* Each ring holds the newest of all that was ever written to it. *)
RingsHold == \A q \in Rings : Holds(ring[q], written[q])

(* Types; the rings hold what they should; no cursor is ahead of its ring. *)
TypeOK ==
  /\ RingsHold
  /\ open \in BOOLEAN /\ fromTarget \in Nat
  /\ cdc.at \in {"idle", "write", "feed", "count"} /\ Len(cdc.data) \in 0 .. Transfer
  /\ suppressed \in 0 .. fromTarget
  /\ pc \in {"accept", "start", "target", "noteTarget", "tool", "noteTool", "drain"}
  /\ cursor <= ring["console"].total
  /\ tool \in {"accept", "hello", "serve"}
  /\ toolCursor <= ring["rfc"].total
  /\ sameBoot => web \in 0 .. ring["console"].total

(* The console's log as its readers see it, and the flash tool's.          *)
ConsolePlace == [r \in {"console", "web"} |->
  IF r = "web" THEN IF sameBoot THEN web ELSE -1
  ELSE IF pc \in {"accept", "start"} THEN -1 ELSE cursor]

ConsoleHanded == IF handed.to \in {"console", "web"} THEN handed ELSE Nobody

ConsoleTranscript == INSTANCE Transcript WITH
  Readers <- {"console", "web"}, Told <- {"web"}, Depth <- Capacity,
  written <- written["console"],
  place <- ConsolePlace, handed <- ConsoleHanded

ToolPlace == [r \in {"tool"} |-> IF tool = "serve" THEN toolCursor ELSE -1]

ToolHanded == IF handed.to = "tool" THEN handed ELSE Nobody

ToolTranscript == INSTANCE Transcript WITH
  Readers <- {"tool"}, Told <- {}, Depth <- Capacity, written <- written["rfc"],
  place <- ToolPlace, handed <- ToolHanded

(* The console client, the browser and the flash tool each get what was    *)
(* written, in order and once, from where they are in the log.  They miss  *)
(* bytes only if the ring overran them, and then exactly those that are no *)
(* longer in it; the browser alone is told how many.                       *)
ReadersFollowLog == ConsoleTranscript!TSpec /\ ToolTranscript!TSpec

(* RingBuffer.hpp: lost bytes are reported instead of being kept from the  *)
(* reader.  The two servers keep them from theirs.                         *)
EveryReaderIsTold ==
  [][/\ handed'.to = "console" => cursor' = cursor + handed'.gap + Len(handed'.out)
     /\ handed'.to = "tool" =>
          toolCursor' = toolCursor + handed'.gap + Len(handed'.out)]_vars

(* The counts the log reports, "Flash-Sitzung beendet, n Bytes             *)
(* ausgeblendet", never add up to more than what really went past it:      *)
(* nothing is reported as hidden that stands in the log, and nothing       *)
(* twice, however the three tasks interleave.                              *)
ReportedWasHidden == reported <= Len(written["rfc"])

(* Whatever stands in the log reaches a console client that stays, or is   *)
(* overrun before.                                                         *)
Served == pc \notin {"accept", "start"}

ConsoleCatchesUp ==
  \A i \in 1 .. Capacity + 1 :
    (Served /\ Len(written["console"]) >= i) ~> (cursor >= i \/ ~Served)

(* docs/protocol.md: the two ports "share the same 16 KB backlog".  They   *)
(* do not: what a flash tool gets never enters the log.                    *)
BacklogShared == Len(written["console"]) >= fromTarget - Len(cdc.data)

(* SerialBridge.hpp on the browser's cursor: lost bytes are reported       *)
(* "statt sie still zu unterschlagen".  Over a restart of the probe they   *)
(* are not: the old cursor is taken for a place in the new log.            *)
BrowserIsTold ==
  [][web # -1 /\ ~sameBoot /\ sameBoot' => handed'.gap + Len(handed'.out) = web']_vars
=============================================================================
