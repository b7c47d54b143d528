------------------------------ MODULE CtrlWait ------------------------------
(***************************************************************************)
(* Who owns the context of a USB control or bulk transfer                  *)
(* (components/usb_target/UsbTarget.cpp, struct CtrlWait).                 *)
(*                                                                         *)
(* The httpd task submits a transfer and waits on a binary semaphore with  *)
(* a timeout; the usb_client task runs the completion callback.  A timeout *)
(* does not cancel the transfer, so either side may be the last to hold    *)
(* the context (semaphore + transfer + flags), and that side must free it. *)
(*                                                                         *)
(*   hidFeature()      submits its transfer once,                          *)
(*   picobootReboot()  submits the same transfer twice.                    *)
(*                                                                         *)
(* Abstracted: payloads, transfer status, and the interface claim around   *)
(* the transfer.  Every call allocates a context of its own; an address is *)
(* never reused, so touching a freed one stays visible.                    *)
(***************************************************************************)
EXTENDS Naturals, FiniteSets

CONSTANTS
  Contexts,   \* one address per call of hidFeature/picobootReboot (bounds the calls)
  Kinds,      \* the kinds of call that occur
  None        \* "no context": the waiter's nullptr

AllKinds == {"hid", "picoboot"}

ASSUME ContextsAssumption == None \notin Contexts
ASSUME KindsAssumption    == Kinds \subseteq AllKinds

VARIABLES
  heap,       \* [Contexts -> fresh (not yet allocated) | live | freed]
  frees,      \* [Contexts -> how often ctrlWaitFree ran on it]
  kindOf,     \* [Contexts -> the call the context belongs to]
  done,       \* CtrlWait::done
  abandoned,  \* CtrlWait::abandoned
  sem,        \* CtrlWait::sem, a binary semaphore
  inflight,   \* the transfer is submitted and its callback has not started
  pc,         \* the waiting httpd task
  cur,        \* its local w
  step,       \* which submission of w it is at
  cbPc,       \* the callback in the usb_client task
  cbCtx       \* its local w

flags  == <<done, abandoned, sem>>
waiter == <<pc, cur, step>>
cb     == <<cbPc, cbCtx>>
vars   == <<heap, frees, kindOf, flags, inflight, waiter, cb>>

(* ------------------------------ helpers -------------------------------- *)

LastStep(c) == IF kindOf[c] = "picoboot" THEN 2 ELSE 1

(* What could have been written instead; the mutation runs substitute it. *)
FreeHereNever(c) == {FALSE}
(* ctrlWaitFree(): semaphore, transfer and context go away together. *)
Free(c) == /\ heap'  = [heap EXCEPT ![c] = "freed"]
           /\ frees' = [frees EXCEPT ![c] = @ + 1]

(* What the callback reads as w->abandoned: garbage if w was freed under it. *)
FreeHere(c) == IF heap[c] = "freed" THEN {TRUE, FALSE} ELSE {abandoned[c]}

(* ---------------------- the waiter: httpd task ------------------------- *)

(* Allocation succeeds, or fails half way and cleanup() frees what there is. *)
Begin(c, k) ==
  /\ pc = "idle" /\ heap[c] = "fresh"
  /\ kindOf' = [kindOf EXCEPT ![c] = k]
  /\ \/ /\ heap' = [heap EXCEPT ![c] = "live"]
        /\ pc' = "ready" /\ cur' = c /\ step' = 1
        /\ UNCHANGED frees
     \/ /\ Free(c)
        /\ UNCHANGED waiter
  /\ UNCHANGED <<flags, inflight, cb>>

(* ctrlWaitArm() then submit; a refused submission ends the call. *)
Submit ==
  /\ pc = "ready"
  /\ done' = [done EXCEPT ![cur] = FALSE]
  /\ \/ /\ inflight' = [inflight EXCEPT ![cur] = TRUE]
        /\ pc' = "waiting"
        /\ UNCHANGED <<heap, frees, cur, step>>
     \/ /\ Free(cur)
        /\ pc' = "idle" /\ cur' = None
        /\ UNCHANGED <<inflight, step>>
  /\ UNCHANGED <<kindOf, abandoned, sem, cb>>

TakeSem ==
  /\ pc = "waiting" /\ sem[cur] = 1
  /\ sem' = [sem EXCEPT ![cur] = 0]
  /\ pc' = "own"
  /\ UNCHANGED <<heap, frees, kindOf, done, abandoned, inflight, cur, step, cb>>

TimeoutNever == FALSE /\ UNCHANGED vars

Timeout ==
  /\ pc = "waiting" /\ sem[cur] = 0
  /\ pc' = "timedout"
  /\ UNCHANGED <<heap, frees, kindOf, flags, inflight, cur, step, cb>>

DecideFrees ==
  /\ pc = "timedout"
  /\ Free(cur)
  /\ pc' = "idle" /\ cur' = None
  /\ UNCHANGED <<kindOf, flags, inflight, step, cb>>

DecideKeeps ==
  /\ pc = "timedout"
  /\ pc' = "own"
  /\ UNCHANGED <<heap, frees, kindOf, flags, inflight, cur, step, cb>>

(* The critical section after a timeout: the callback was already there    *)
(* and the context stays ours, or it is handed over to the callback.       *)
Decide ==
  /\ pc = "timedout"
  /\ IF done[cur]
       THEN /\ pc' = "own"
            /\ UNCHANGED <<abandoned, cur>>
       ELSE /\ abandoned' = [abandoned EXCEPT ![cur] = TRUE]
            /\ pc' = "idle" /\ cur' = None
  /\ UNCHANGED <<heap, frees, kindOf, done, sem, inflight, step, cb>>

NextSubmission ==
  /\ pc = "own" /\ step < LastStep(cur)
  /\ step' = step + 1
  /\ pc' = "ready"
  /\ UNCHANGED <<heap, frees, kindOf, flags, inflight, cur, cb>>

(* cleanup(): the status is read and the context freed. *)
Finish ==
  /\ pc = "own" /\ step = LastStep(cur)
  /\ Free(cur)
  /\ pc' = "idle" /\ cur' = None
  /\ UNCHANGED <<kindOf, flags, inflight, step, cb>>

(* ----------------- the callback: usb_client task ------------------------ *)

(* The library completes the transfer and the callback passes its critical *)
(* section; what it does next happens after the unlock.                    *)
CbLock(c) ==
  /\ cbPc = "idle" /\ inflight[c]
  /\ inflight' = [inflight EXCEPT ![c] = FALSE]
  /\ done' = [done EXCEPT ![c] = TRUE]
  /\ cbCtx' = c
  /\ \E freeHere \in FreeHere(c) : cbPc' = IF freeHere THEN "free" ELSE "give"
  /\ UNCHANGED <<heap, frees, kindOf, abandoned, sem, waiter>>

CbFree ==
  /\ cbPc = "free"
  /\ Free(cbCtx)
  /\ cbPc' = "idle" /\ cbCtx' = None
  /\ UNCHANGED <<kindOf, flags, inflight, waiter>>

CbGive ==
  /\ cbPc = "give"
  /\ sem' = [sem EXCEPT ![cbCtx] = 1]
  /\ cbPc' = "idle" /\ cbCtx' = None
  /\ UNCHANGED <<heap, frees, kindOf, done, abandoned, inflight, waiter>>

(* -------------------------- the specification --------------------------- *)

Init ==
  /\ heap = [c \in Contexts |-> "fresh"]
  /\ frees = [c \in Contexts |-> 0]
  /\ kindOf = [c \in Contexts |-> "hid"]
  /\ done = [c \in Contexts |-> FALSE]
  /\ abandoned = [c \in Contexts |-> FALSE]
  /\ sem = [c \in Contexts |-> 0]
  /\ inflight = [c \in Contexts |-> FALSE]
  /\ pc = "idle" /\ cur = None /\ step = 1
  /\ cbPc = "idle" /\ cbCtx = None

WaiterStep == Submit \/ TakeSem \/ Timeout \/ Decide \/ NextSubmission \/ Finish
CbStep     == (\E c \in Contexts : CbLock(c)) \/ CbFree \/ CbGive

Next == (\E c \in Contexts, k \in Kinds : Begin(c, k)) \/ WaiterStep \/ CbStep

Spec == Init /\ [][Next]_vars

(* ------------------------------ properties ------------------------------ *)

TypeOK ==
  /\ heap \in [Contexts -> {"fresh", "live", "freed"}]
  /\ frees \in [Contexts -> Nat]
  /\ kindOf \in [Contexts -> AllKinds]
  /\ done \in [Contexts -> BOOLEAN]
  /\ abandoned \in [Contexts -> BOOLEAN]
  /\ sem \in [Contexts -> {0, 1}]
  /\ inflight \in [Contexts -> BOOLEAN]
  /\ pc \in {"idle", "ready", "waiting", "timedout", "own"}
  /\ cur \in Contexts \cup {None}
  /\ step \in {1, 2}
  /\ cbPc \in {"idle", "give", "free"}
  /\ cbCtx \in Contexts \cup {None}

(* No context leaks: a live one is in the waiter's hands, or it was        *)
(* abandoned and the callback that will free it is still to come.          *)
ContextHasAnOwner ==
  \A c \in Contexts : heap[c] = "live" =>
    \/ cur = c
    \/ abandoned[c] /\ (inflight[c] \/ (cbCtx = c /\ cbPc = "free"))

(* A call that submits once (hidFeature) frees its context exactly once,   *)
(* whoever does it, and never under a transfer still in flight.            *)
HidFreedOnce ==
  \A c \in Contexts : kindOf[c] = "hid" =>
    /\ frees[c] <= 1
    /\ inflight[c] => heap[c] = "live"

(* After the first submission waitForCtrl() returns true only when the     *)
(* transfer is through: status and data may be read.                       *)
FirstWaitIsHonest ==
  (pc = "own" /\ step = 1) => (~inflight[cur] /\ heap[cur] = "live")

(* Every call comes back, even if no callback ever arrives in time. *)
EveryCallReturns == (pc # "idle") ~> (pc = "idle")

(* The comment on CtrlWait: who comes last cleans up.  A context that the  *)
(* callback is still going to signal has not been freed.                   *)
LastOneCleansUp == cbPc = "give" => heap[cbCtx] = "live"

(* The comment on waitForCtrl: true means the transfer is through, for     *)
(* every submission and not only the first.                                *)
TrueMeansThrough == pc = "own" => ~inflight[cur]
=============================================================================
