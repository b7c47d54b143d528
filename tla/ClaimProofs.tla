---------------------------- MODULE ClaimProofs ----------------------------
(***************************************************************************)
(* Who owns the context of a transfer, and who releases its interface, for *)
(* any number of calls and of targets.  First the calls by themselves      *)
(* (CtrlWait), then with their claims and a target that leaves (Claim).    *)
(***************************************************************************)
EXTENDS Claim, TLAPS

(* ----------------------- the context of a transfer --------------------- *)

(* A context nobody allocated yet is untouched. *)
FreshIsUntouched ==
  \A c \in Contexts : heap[c] = "fresh" =>
    /\ ~inflight[c] /\ ~abandoned[c] /\ ~done[c]
    /\ sem[c] = 0 /\ cur # c /\ cbCtx # c

(* The waiter's w is live and not given up; while it waits, the callback  *)
(* is still to come or has been there.                                     *)
WaiterHoldsLive ==
  /\ pc = "idle" <=> cur = None
  /\ cur # None => heap[cur] = "live" /\ ~abandoned[cur]
  /\ cur # None => (kindOf[cur] = "hid" => step = 1)
  /\ pc \in {"waiting", "timedout"} => done[cur] \/ inflight[cur]

(* In the first round every sign of completion is a true one. *)
FirstRound ==
  (cur # None /\ step = 1) =>
    /\ pc = "ready" => ~inflight[cur] /\ sem[cur] = 0 /\ cbCtx # cur
    /\ (pc \in {"waiting", "timedout"} /\ (sem[cur] = 1 \/ done[cur] \/ cbCtx = cur))
         => ~inflight[cur]
    /\ pc = "own" => ~inflight[cur]

(* The callback frees only what was abandoned, or touches freed memory. *)
CallbackFrees ==
  /\ cbPc = "idle" <=> cbCtx = None
  /\ cbPc = "free" => abandoned[cbCtx] \/ heap[cbCtx] = "freed"

(* The books on hidFeature's contexts. *)
FreeCount ==
  \A c \in Contexts :
    /\ heap[c] # "freed" => frees[c] = 0
    /\ kindOf[c] = "hid" =>
         /\ heap[c] = "freed" => frees[c] = 1
         /\ inflight[c] => heap[c] = "live"
         /\ (cbCtx = c /\ cbPc = "free") => heap[c] = "live" /\ ~inflight[c]

IInv ==
  /\ TypeOK
  /\ FreshIsUntouched
  /\ WaiterHoldsLive
  /\ FirstRound
  /\ CallbackFrees
  /\ FreeCount
  /\ ContextHasAnOwner

LEMMA InitIInv == Init => IInv
  BY ContextsAssumption
  DEF Init, IInv, TypeOK, FreshIsUntouched, WaiterHoldsLive, FirstRound,
      CallbackFrees, FreeCount, ContextHasAnOwner, AllKinds

LEMMA StepIInv == IInv /\ [Next]_vars => IInv'
<1> SUFFICES ASSUME IInv, [Next]_vars PROVE IInv'
  OBVIOUS
<1> USE ContextsAssumption, KindsAssumption
    DEF IInv, TypeOK, FreshIsUntouched, WaiterHoldsLive, FirstRound,
        CallbackFrees, FreeCount, ContextHasAnOwner, AllKinds
<1>1. ASSUME NEW c \in Contexts, NEW k \in Kinds, Begin(c, k) PROVE IInv'
  BY <1>1 DEF Begin, Free, flags, waiter, cb
<1>2. CASE Submit
  <2>1. TypeOK'
    <3>1. cur \in Contexts
      BY <1>2 DEF Submit
    <3>2. CASE heap' = heap
      BY <1>2, <3>1, <3>2 DEF Submit, Free, cb
    <3>3. CASE Free(cur)
      BY <1>2, <3>1, <3>3 DEF Submit, Free, cb
    <3> QED
      BY <1>2, <3>2, <3>3 DEF Submit
  <2>2. FreshIsUntouched'
    BY <1>2 DEF Submit, Free, cb
  <2>3. WaiterHoldsLive'
    BY <1>2 DEF Submit, Free, cb
  <2>4. FirstRound'
    BY <1>2 DEF Submit, Free, cb
  <2>5. CallbackFrees'
    BY <1>2 DEF Submit, Free, cb
  <2>6. FreeCount'
    BY <1>2 DEF Submit, Free, cb
  <2>7. ContextHasAnOwner'
    BY <1>2 DEF Submit, Free, cb
  <2> QED
    BY <2>1, <2>2, <2>3, <2>4, <2>5, <2>6, <2>7
<1>3. CASE TakeSem
  BY <1>3 DEF TakeSem, cb
<1>4. CASE Timeout
  BY <1>4 DEF Timeout, flags, cb
<1>5. CASE Decide
  <2>1. TypeOK'
    <3>1. TypeOK
      OBVIOUS
    <3> QED
      BY ONLY <1>5, <3>1 DEF Decide, TypeOK, cb
  <2>2. FreshIsUntouched'
    BY <1>5 DEF Decide, cb
  <2>3. WaiterHoldsLive'
    BY <1>5 DEF Decide, cb
  <2>4. FirstRound'
    BY <1>5 DEF Decide, cb
  <2>5. CallbackFrees'
    BY <1>5 DEF Decide, cb
  <2>6. FreeCount'
    BY <1>5 DEF Decide, cb
  <2>7. ContextHasAnOwner'
    BY <1>5 DEF Decide, cb
  <2> QED
    BY <2>1, <2>2, <2>3, <2>4, <2>5, <2>6, <2>7
<1>6. CASE NextSubmission
  BY <1>6 DEF NextSubmission, LastStep, flags, cb
<1>7. CASE Finish
  BY <1>7 DEF Finish, Free, LastStep, flags, cb
<1>8. ASSUME NEW c \in Contexts, CbLock(c) PROVE IInv'
  <2>1. TypeOK'
    BY <1>8 DEF CbLock, FreeHere, waiter
  <2>2. FreshIsUntouched'
    BY <1>8 DEF CbLock, FreeHere, waiter
  <2>3. WaiterHoldsLive'
    BY <1>8 DEF CbLock, FreeHere, waiter
  <2>4. FirstRound'
    BY <1>8 DEF CbLock, FreeHere, waiter
  <2>5. CallbackFrees'
    BY <1>8 DEF CbLock, FreeHere, waiter
  <2>6. FreeCount'
    BY <1>8 DEF CbLock, FreeHere, waiter
  <2>7. ContextHasAnOwner'
    <3>1. heap[c] = "live" /\ abandoned[c] => cbPc' = "free" /\ cbCtx' = c
      BY <1>8 DEF CbLock, FreeHere
    <3>2. UNCHANGED <<heap, abandoned, cur>> /\ inflight' = [inflight EXCEPT ![c] = FALSE]
      BY <1>8 DEF CbLock, waiter
    <3>3. \A d \in Contexts : ~(cbCtx = d /\ cbPc = "free")
      BY <1>8 DEF CbLock
    <3>4. ASSUME NEW d \in Contexts, heap'[d] = "live", cur' # d
          PROVE  abandoned'[d] /\ (inflight'[d] \/ (cbCtx' = d /\ cbPc' = "free"))
      <4>1. heap[d] = "live" /\ abandoned[d] /\ inflight[d]
        BY <3>2, <3>3, <3>4
      <4>2. CASE d = c
        BY <4>1, <4>2, <3>1, <3>2
      <4>3. CASE d # c
        BY <4>1, <4>3, <3>2
      <4> QED
        BY <4>2, <4>3
    <3> QED
      BY <3>4
  <2> QED
    BY <2>1, <2>2, <2>3, <2>4, <2>5, <2>6, <2>7
<1>9. CASE CbFree
  BY <1>9 DEF CbFree, Free, flags, waiter
<1>10. CASE CbGive
  BY <1>10 DEF CbGive, waiter
<1>11. CASE UNCHANGED vars
  BY <1>11 DEF vars, flags, waiter, cb
<1> QED
  BY <1>1, <1>2, <1>3, <1>4, <1>5, <1>6, <1>7, <1>8, <1>9, <1>10, <1>11
  DEF Next, WaiterStep, CbStep

LEMMA Invariance == Spec => []IInv
  BY InitIInv, StepIInv, PTL DEF Spec

(* Every variable keeps its type. *)
THEOREM TypeCorrect == Spec => []TypeOK
<1>1. IInv => TypeOK
  BY DEF IInv
<1> QED
  BY <1>1, Invariance, PTL

(* No context is ever lost: waiter or callback still has to free it. *)
THEOREM NoLeak == Spec => []ContextHasAnOwner
<1>1. IInv => ContextHasAnOwner
  BY DEF IInv
<1> QED
  BY <1>1, Invariance, PTL

(* A call with one submission frees its context at most once and never
   under its own transfer, whatever the timeouts do. *)
THEOREM HidFreesOnce == Spec => []HidFreedOnce
<1>1. IInv => HidFreedOnce
  BY DEF IInv, FreeCount, HidFreedOnce, TypeOK
<1> QED
  BY <1>1, Invariance, PTL

(* After the first submission a wait that succeeds is a completed transfer. *)
THEOREM FirstWait == Spec => []FirstWaitIsHonest
<1>1. IInv => FirstWaitIsHonest
  BY ContextsAssumption DEF IInv, WaiterHoldsLive, FirstRound, FirstWaitIsHonest, TypeOK
<1> QED
  BY <1>1, Invariance, PTL

(* ---------------------- the interface of a transfer -------------------- *)

(* What the two tasks know of each other's part in the note. *)
OneReleases ==
  /\ held \subseteq opened
  /\ noted => call.at \in {"allocate", "transfer", "exchange"}
  /\ (noted \/ call.at \in {"note", "release"}) => call.dev \in held
  /\ (gone.at # "idle" /\ device # None) => device # gone.dev
  /\ (gone.at = "release" /\ call.dev = gone.dev) =>
       ~noted /\ call.at \notin {"number", "claim", "note", "release"}

(* A call is of some kind, and has a target once it looked; onDeviceGone() *)
(* has one from the beginning.                                             *)
CallHasTarget ==
  /\ call.at # "idle" => call.kind \in Kinds
  /\ call.at \notin {"idle", "device"} => call.dev \in Targets
  /\ gone.at # "idle" => gone.dev \in Targets

CInv == ClaimTypeOK /\ CallHasTarget /\ OneReleases

(* ----------------------------- the types ------------------------------- *)

LEMMA ClaimStartsTyped == ClaimInit => ClaimTypeOK
<1> SUFFICES ASSUME ClaimInit PROVE ClaimTypeOK
  OBVIOUS
<1>1. MaxTargets \in Nat
  BY TargetsAssumption
<1>2. here \in Targets \cup {None} /\ came \in 0 .. MaxTargets
  BY <1>1 DEF ClaimInit
<1>3. events \in Seq(Events) /\ wire \in [Contexts -> Endpoints]
  BY DEF ClaimInit, Endpoints
<1>4. call \in Calls /\ gone \in Leavings
  BY DEF ClaimInit, Calls, Leavings
<1> QED
  BY <1>2, <1>3, <1>4 DEF ClaimInit, ClaimTypeOK

LEMMA TypesStep == ClaimTypeOK /\ CallHasTarget /\ [ClaimNext]_allVars => ClaimTypeOK' /\ CallHasTarget'
<1> SUFFICES ASSUME ClaimTypeOK, CallHasTarget, [ClaimNext]_allVars
             PROVE ClaimTypeOK' /\ CallHasTarget'
  OBVIOUS
<1> USE TargetsAssumption DEF ClaimTypeOK, CallHasTarget, Calls, Leavings
<1>0. \A d : Releases(d) => held' \in SUBSET Targets
  BY DEF Releases
<1>1. CASE Pull
  <2>1. events' \in Seq(Events)
    <3>1. here \in Targets /\ [what |-> "gone", dev |-> here] \in Events
      BY <1>1 DEF Pull, Events
    <3> QED
      BY <1>1, <3>1 DEF Pull
  <2> QED
    BY <1>1, <2>1 DEF Pull, library
<1>2. ASSUME NEW k \in Kinds, Plug(k) PROVE ClaimTypeOK' /\ CallHasTarget'
  <2>1. here' \in Targets /\ came' \in 0 .. MaxTargets
    BY <1>2 DEF Plug, Targets
  <2>2. events' \in Seq(Events)
    <3>1. [what |-> "new", dev |-> here'] \in Events
      BY <2>1 DEF Events
    <3> QED
      BY <1>2, <3>1 DEF Plug
  <2> QED
    BY <1>2, <2>1, <2>2 DEF Plug, library
<1>3. CASE Load
  <2>1. device \in Targets /\ device.kind \in Kinds
    BY <1>3 DEF Load, Targets
  <2> QED
    BY <1>3, <2>1 DEF Load, rest, target, library
<1>17. CASE LoadDevice
  BY <1>17 DEF LoadDevice, rest, target, library
<1>18. CASE LoadNumber
  BY <1>18 DEF LoadNumber, CallGoes, rest, target, library
<1>4. CASE ClaimInterface
  BY <1>4 DEF ClaimInterface, CallGoes, rest, target
<1>5. CASE Note
  BY <1>5 DEF Note, CallGoes, rest, target, library
<1>6. ASSUME NEW c \in Contexts, Allocate(c) PROVE ClaimTypeOK' /\ CallHasTarget'
  BY <1>6 DEF Allocate, CallGoes, rest, target, library
<1>7. CASE Transfer
  <2>1. wire' \in [Contexts -> Endpoints]
    BY <1>7 DEF Transfer, Endpoints
  <2> QED
    BY <1>7, <2>1 DEF Transfer, CallGoes, rest, target, library
<1>8. CASE Exchange
  BY <1>8 DEF Exchange, CallGoes, rest, target, library
<1>9. CASE Release
  BY <1>9 DEF Release, Releases, CallGoes, rest, target
<1>10. CASE OnNewDevice
  <2>1. Head(events) \in Events /\ events' \in Seq(Events)
    BY <1>10 DEF OnNewDevice
  <2>2. Head(events).dev \in Targets
    BY <2>1 DEF Events
  <2> QED
    BY <1>10, <2>1, <2>2 DEF OnNewDevice, ClientIdle, target
<1>11. CASE Forget
  <2>1. Head(events) \in Events /\ events' \in Seq(Events)
    BY <1>11 DEF Forget
  <2>2. Head(events).dev \in Targets
    BY <2>1 DEF Events
  <2> QED
    BY <1>11, <2>1, <2>2 DEF Forget, target, library
<1>12. CASE GoneExchange
  BY <1>12 DEF GoneExchange, GoneGoes, target, library
<1>13. CASE GoneRelease
  BY <1>13 DEF GoneRelease, Releases, GoneGoes, target
<1>14. CASE GoneClose
  BY <1>14 DEF GoneClose, target
<1>15. CASE Callback
  BY <1>15 DEF Callback, claimVars, target, library
<1>16. CASE UNCHANGED allVars
  BY <1>16 DEF allVars, claimVars, target, library
<1> QED
  BY <1>1, <1>2, <1>3, <1>4, <1>5, <1>6, <1>7, <1>8, <1>9, <1>10, <1>11, <1>12,
     <1>13, <1>14, <1>15, <1>16, <1>17, <1>18 DEF ClaimNext, World, Httpd, Client

(* --------------------------- the invariant ----------------------------- *)

LEMMA ClaimStarts == ClaimInit => CInv
  BY ClaimStartsTyped DEF ClaimInit, CInv, CallHasTarget, OneReleases

(* Every step of the two tasks and of the world keeps the invariant. *)
LEMMA ClaimStep == CInv /\ [ClaimNext]_allVars => CInv'
<1> SUFFICES ASSUME CInv, [ClaimNext]_allVars PROVE CInv'
  OBVIOUS
<1> ClaimTypeOK' /\ CallHasTarget'
  BY TypesStep DEF CInv
<1> USE DEF CInv, OneReleases, ClaimTypeOK, Calls, Leavings
<1>1. CASE World
  BY <1>1 DEF World, Pull, Plug, library
<1>2. CASE Load
  <2>1. call'.at = "device" /\ ~noted
    BY <1>2 DEF Load
  <2> QED
    BY <1>2, <2>1 DEF Load, rest, library
<1>16. CASE LoadDevice
  <2>1. call.at = "device" /\ ~noted /\ UNCHANGED <<noted, held, opened, gone, device>>
    BY <1>16 DEF LoadDevice, rest, library
  <2>2. \/ call'.at = "idle"
        \/ call'.at = "number" /\ call'.dev = device /\ device # None
    BY <1>16 DEF LoadDevice
  <2> QED
    BY <2>1, <2>2
<1>17. CASE LoadNumber
  BY <1>17 DEF LoadNumber, CallGoes, rest, library
<1>3. CASE ClaimInterface
  BY <1>3 DEF ClaimInterface, CallGoes, rest
<1>4. CASE Note
  BY <1>4 DEF Note, CallGoes, rest, library
<1>5. ASSUME NEW c \in Contexts, Allocate(c) PROVE CInv'
  BY <1>5 DEF Allocate, CallGoes, rest, library
<1>6. CASE Transfer
  BY <1>6 DEF Transfer, CallGoes, rest, library
<1>7. CASE Exchange
  BY <1>7 DEF Exchange, CallGoes, rest, library
<1>8. CASE Release
  BY <1>8 DEF Release, Releases, CallGoes, rest
<1>9. CASE OnNewDevice
  BY <1>9 DEF OnNewDevice, ClientIdle
<1>10. CASE Forget
  BY <1>10 DEF Forget, library
<1>11. CASE GoneExchange
  BY <1>11 DEF GoneExchange, GoneGoes, library
<1>12. CASE GoneRelease
  BY <1>12 DEF GoneRelease, Releases, GoneGoes
<1>13. CASE GoneClose
  BY <1>13 DEF GoneClose
<1>14. CASE Callback
  BY <1>14 DEF Callback, claimVars, library
<1>15. CASE UNCHANGED allVars
  BY <1>15 DEF allVars, claimVars, library
<1> QED
  BY <1>1, <1>2, <1>3, <1>4, <1>5, <1>6, <1>7, <1>8, <1>9, <1>10, <1>11, <1>12,
     <1>13, <1>14, <1>15, <1>16, <1>17 DEF ClaimNext, Httpd, Client

(* hidFeature() and picobootReboot() with their claim are calls of         *)
(* CtrlWait, so all that is proved of it holds of them as well.            *)
THEOREM CallsAreCtrlWait == ClaimSpec => Spec
<1>1. ClaimInit => Init
  BY DEF ClaimInit
<1>2. CInv /\ [ClaimNext]_allVars => [Next]_vars
  <2>1. World \/ Load => UNCHANGED vars
    BY DEF World, Pull, Plug, Load
  <2>2. Client => UNCHANGED vars
    BY DEF Client, OnNewDevice, Forget, GoneExchange, GoneRelease, GoneClose
  <2>3. LoadDevice \/ LoadNumber \/ ClaimInterface \/ Note \/ Exchange \/ Release => UNCHANGED vars
    BY DEF LoadDevice, LoadNumber, ClaimInterface, Note, Exchange, Release
  <2>4. ASSUME CInv, NEW c \in Contexts, Allocate(c) PROVE Next
    <3>1. call.kind \in Kinds
      BY <2>4 DEF CInv, CallHasTarget, Allocate
    <3> QED
      BY <2>4, <3>1 DEF Allocate, Next
  <2>5. Transfer \/ Callback => Next
    BY DEF Transfer, Callback, Next
  <2> QED
    BY <2>1, <2>2, <2>3, <2>4, <2>5 DEF ClaimNext, Httpd, allVars
<1> QED
  BY ClaimStarts, ClaimStep, <1>1, <1>2, PTL DEF ClaimSpec, Spec

(* ------------------- targets leave in the order they came --------------- *)

New(d)  == [what |-> "new", dev |-> d]
Gone(d) == [what |-> "gone", dev |-> d]

(* The one on the port is the newest there is. *)
HereIsNewest ==
  /\ here # None => here.id = came
  /\ \A d \in opened : d.id <= came /\ (here # None => d = here \/ d.id < here.id)
  /\ \A i \in DOMAIN events :
       /\ events[i].dev.id <= came
       /\ here # None => events[i] = New(here) \/ events[i].dev.id < here.id

(* What the client task is still to be told is in that order. *)
ToldInOrder ==
  /\ \A i, j \in DOMAIN events : i < j =>
       \/ events[i].dev.id < events[j].dev.id
       \/ events[i] = New(events[i].dev) /\ events[j] = Gone(events[i].dev)
  /\ \A d \in opened, i \in DOMAIN events :
       events[i] = Gone(d) \/ d.id < events[i].dev.id

(* A target that is leaving is the newest that was ever opened. *)
LeavesFirst ==
  /\ gone.at = "idle" <=> gone.dev = None
  /\ gone.at # "idle" =>
       /\ \A d \in opened : d = gone.dev \/ d.id < gone.dev.id
       /\ \A i \in DOMAIN events : gone.dev.id < events[i].dev.id
       /\ gone.dev.id <= came
       /\ here # None => gone.dev.id < here.id

InOrder == HereIsNewest /\ ToldInOrder /\ LeavesFirst

(* A handle whose target has left is about to be closed, or it was missed. *)
HandleHasAnEnd ==
  \A d \in opened \ missed :
    \/ d = here \/ d = gone.dev
    \/ \E i \in DOMAIN events : events[i] = Gone(d)

(* A claim is in the note, or in the hands of one of the two tasks. *)
ClaimHasAnEnd ==
  \A d \in held \ missed :
    \/ call.dev = d /\ (noted \/ call.at \in {"note", "release"})
    \/ gone.dev = d /\ gone.at = "release"

(* What onDeviceGone() is about to close is free, and stays it. *)
ClosesWhatIsFree ==
  (gone.at = "close" /\ gone.dev \notin missed) =>
    gone.dev \notin held /\ ~(call.at \in {"number", "claim"} /\ call.dev = gone.dev)

EInv == CInv /\ InOrder /\ HandleHasAnEnd /\ ClaimHasAnEnd /\ ClosesWhatIsFree


LEMMA EndsStart == ClaimInit => EInv
  BY ClaimStarts, TargetsAssumption
  DEF ClaimInit, EInv, InOrder, HereIsNewest, ToldInOrder, LeavesFirst,
      HandleHasAnEnd, ClaimHasAnEnd, ClosesWhatIsFree

(* The order is a matter of the world and the client task alone. *)
LEMMA OrderStep == CInv /\ InOrder /\ [ClaimNext]_allVars => InOrder'
<1> SUFFICES ASSUME CInv, InOrder, [ClaimNext]_allVars PROVE InOrder'
  OBVIOUS
<1> USE TargetsAssumption DEF InOrder, HereIsNewest, ToldInOrder, LeavesFirst
<1>0. /\ came \in Nat /\ here \in Targets \cup {None}
      /\ events \in Seq(Events) /\ opened \in SUBSET Targets
      /\ gone.dev \in Targets \cup {None}
      /\ \A d \in Targets : d.id \in Nat
      /\ \A i \in DOMAIN events :
           events[i] \in Events /\ events[i].dev \in Targets /\ events[i].dev.id \in Nat
  <2>1. /\ came \in Nat /\ here \in Targets \cup {None}
        /\ events \in Seq(Events) /\ opened \in SUBSET Targets
        /\ gone.dev \in Targets \cup {None}
    BY DEF CInv, ClaimTypeOK, Leavings
  <2>2. \A d \in Targets : d.id \in Nat
    BY DEF Targets
  <2>3. \A e \in Events : e.dev \in Targets
    BY DEF Events
  <2>4. \A i \in DOMAIN events : events[i] \in Events
    BY <2>1
  <2> QED
    BY <2>1, <2>2, <2>3, <2>4
<1>1. CASE Pull
  <2>1. here # None /\ here' = None /\ UNCHANGED <<came, opened, gone>>
    BY <1>1 DEF Pull, library
  <2>2. CASE here \notin opened
    BY <1>0, <1>1, <2>1, <2>2 DEF Pull
  <2>3. CASE here \in opened
    <3>1. /\ events' = Append(events, Gone(here))
          /\ Gone(here) \in Events
      BY <1>0, <1>1, <2>3 DEF Pull, Gone, Events
    <3>2. /\ DOMAIN events' = 1 .. Len(events) + 1
          /\ \A i \in DOMAIN events : events'[i] = events[i]
          /\ events'[Len(events) + 1] = Gone(here)
      BY <1>0, <3>1
    <3>3. HereIsNewest'
      BY <1>0, <2>1, <2>3, <3>2 DEF Gone
    <3>4. ToldInOrder'
      BY <1>0, <2>1, <2>3, <3>2 DEF Gone, New
    <3>5. LeavesFirst'
      BY <1>0, <2>1, <2>3, <3>2 DEF Gone
    <3> QED
      BY <3>3, <3>4, <3>5
  <2> QED
    BY <2>2, <2>3
<1>2. ASSUME NEW k \in Kinds, Plug(k) PROVE InOrder'
  <2>1. /\ here = None /\ here'.id = came + 1 /\ came' = came + 1
        /\ here' \in Targets
        /\ UNCHANGED <<opened, gone>>
    BY <1>0, <1>2 DEF Plug, library, Targets
  <2>2. events' = Append(events, New(here')) /\ New(here') \in Events
    BY <1>2, <2>1 DEF Plug, New, Events
  <2>3. /\ DOMAIN events' = 1 .. Len(events) + 1
        /\ \A i \in DOMAIN events : events'[i] = events[i]
        /\ events'[Len(events) + 1] = New(here')
    BY <1>0, <2>2
  <2>4. HereIsNewest'
    BY <1>0, <2>1, <2>3 DEF New
  <2>5. ToldInOrder'
    <3>1. \A i, j \in DOMAIN events' : i < j => i \in DOMAIN events
      BY <1>0, <2>3
    <3>2. \A i \in DOMAIN events : events'[i].dev.id < here'.id
      BY <1>0, <2>1, <2>3
    <3>3. \A i \in DOMAIN events' : i \in DOMAIN events \/ i = Len(events) + 1
      BY <1>0, <2>3
    <3>4. \A d \in opened : d.id < here'.id
      BY <1>0, <2>1
    <3>5. New(here').dev = here'
      BY DEF New
    <3>6. ASSUME NEW i \in DOMAIN events', NEW j \in DOMAIN events', i < j
          PROVE  \/ events'[i].dev.id < events'[j].dev.id
                 \/ events'[i] = New(events'[i].dev) /\ events'[j] = Gone(events'[i].dev)
      <4>1. CASE j \in DOMAIN events
        BY <2>3, <3>1, <3>6, <4>1
      <4>2. CASE j = Len(events) + 1
        BY <2>3, <3>1, <3>2, <3>5, <3>6, <4>2
      <4> QED
        BY <3>3, <3>6, <4>1, <4>2
    <3>7. \A d \in opened', i \in DOMAIN events' :
            events'[i] = Gone(d) \/ d.id < events'[i].dev.id
      BY <2>1, <2>3, <3>3, <3>4, <3>5
    <3> QED
      BY <3>6, <3>7
  <2>6. LeavesFirst'
    <3>1. \A i \in DOMAIN events' : i \in DOMAIN events \/ i = Len(events) + 1
      BY <1>0, <2>3
    <3>2. New(here').dev = here'
      BY DEF New
    <3>3. gone.at # "idle" => gone.dev.id < here'.id
      BY <1>0, <2>1
    <3>4. gone.at # "idle" => \A i \in DOMAIN events' : gone.dev.id < events'[i].dev.id
      BY <2>3, <3>1, <3>2, <3>3
    <3> QED
      BY <1>0, <2>1, <3>3, <3>4
  <2> QED
    BY <2>4, <2>5, <2>6
<1>3. CASE OnNewDevice
  <2>1. /\ events # <<>> /\ events[1].what = "new"
        /\ events' = Tail(events)
        /\ gone.at = "idle"
        /\ UNCHANGED <<here, came, gone>>
        /\ opened' = opened \/ (here = events[1].dev /\ opened' = opened \cup {here})
    BY <1>0, <1>3 DEF OnNewDevice, ClientIdle, target
  <2>2. /\ 1 \in DOMAIN events
        /\ \A i \in DOMAIN events' : i + 1 \in DOMAIN events /\ events'[i] = events[i + 1]
    BY <1>0, <2>1
  <2>3. HereIsNewest'
    <3>1. \A d \in opened' : d \in opened \/ (d = here /\ here \in Targets)
      BY <1>0, <2>1, <2>2
    <3>2. here # None => here.id = came
      OBVIOUS
    <3>3. \A d \in opened' : d.id <= came /\ (here # None => d = here \/ d.id < here.id)
      BY <1>0, <3>1, <3>2
    <3>4. \A i \in DOMAIN events' :
            /\ events'[i].dev.id <= came
            /\ here # None => events'[i] = New(here) \/ events'[i].dev.id < here.id
      BY <2>2
    <3> QED
      BY <2>1, <3>2, <3>3, <3>4
  <2>4. ToldInOrder'
    <3>1. \A i, j \in DOMAIN events' : i < j => i + 1 < j + 1
      BY <1>0, <2>1
    <3>2. ASSUME NEW d \in opened', NEW i \in DOMAIN events'
          PROVE  events'[i] = Gone(d) \/ d.id < events'[i].dev.id
      <4>1. CASE d \in opened
        BY <2>2, <4>1
      <4>2. CASE d = events[1].dev /\ d \notin opened
        <5>1. 1 < i + 1
          BY <1>0, <2>1
        <5> QED
          BY <2>2, <4>2, <5>1
      <4> QED
        BY <2>1, <4>1, <4>2
    <3> QED
      BY <2>2, <3>1, <3>2
  <2>5. LeavesFirst'
    BY <1>0, <2>1, <2>2
  <2> QED
    BY <2>3, <2>4, <2>5
<1>4. CASE Forget
  <2>1. /\ events # <<>> /\ events[1].what = "gone"
        /\ events' = Tail(events)
        /\ gone' = [at |-> "exchange", dev |-> events[1].dev]
        /\ UNCHANGED <<here, came, opened>>
    BY <1>0, <1>4 DEF Forget, target, library
  <2>2. /\ 1 \in DOMAIN events
        /\ \A i \in DOMAIN events' :
             i + 1 \in DOMAIN events /\ 1 < i + 1 /\ events'[i] = events[i + 1]
    BY <1>0, <2>1
  <2>0. events[1] = Gone(events[1].dev) /\ \A d : events[1] # New(d)
    <3>1. events[1] \in Events
      BY <1>0, <2>2
    <3> QED
      BY <2>1, <3>1 DEF New, Gone, Events
  <2>3. HereIsNewest'
    BY <1>0, <2>1, <2>2
  <2>4. ToldInOrder'
    <3>1. \A i, j \in DOMAIN events' : i < j => i + 1 < j + 1
      BY <1>0, <2>1
    <3> QED
      BY <2>1, <2>2, <3>1
  <2>5. LeavesFirst'
    <3>1. gone'.at # "idle" /\ gone'.dev = events[1].dev /\ gone'.dev # None
      BY <1>0, <2>1, <2>2
    <3>2. \A d \in opened : d = gone'.dev \/ d.id < gone'.dev.id
      BY <2>2, <2>0, <3>1 DEF Gone
    <3>3. \A i \in DOMAIN events' : gone'.dev.id < events'[i].dev.id
      BY <2>2, <2>0, <3>1
    <3>4. gone'.dev.id <= came /\ (here # None => gone'.dev.id < here.id)
      BY <2>2, <2>0, <3>1
    <3> QED
      BY <2>1, <3>1, <3>2, <3>3, <3>4
  <2> QED
    BY <2>3, <2>4, <2>5
<1>5. CASE GoneClose
  <2>1. UNCHANGED <<here, came, events>> /\ gone' = [at |-> "idle", dev |-> None] /\ opened' \subseteq opened
    BY <1>5 DEF GoneClose, target
  <2> QED
    BY <1>0, <2>1
<1>6. CASE GoneExchange \/ GoneRelease
  <2>1. /\ UNCHANGED <<here, came, events, opened>>
        /\ gone.at # "idle" /\ gone'.at # "idle" /\ gone'.dev = gone.dev
    BY <1>6 DEF GoneExchange, GoneRelease, GoneGoes, target, library, CInv, ClaimTypeOK, Leavings
  <2> QED
    BY <1>0, <2>1
<1>7. CASE Load \/ Httpd \/ Callback \/ UNCHANGED allVars
  <2>1. UNCHANGED <<here, came, events, opened, gone>>
    BY <1>7 DEF Load, Httpd, Callback, allVars, LoadDevice, LoadNumber, ClaimInterface, Note, Allocate, Transfer,
                Exchange, Release, rest, target, library, claimVars
  <2> QED
    BY <2>1
<1> QED
  BY <1>1, <1>2, <1>3, <1>4, <1>5, <1>6, <1>7 DEF ClaimNext, World, Client



(* The steps of the call. *)
LEMMA CallKeepsEnds ==
  EInv /\ (Load \/ Httpd) => HandleHasAnEnd' /\ ClaimHasAnEnd' /\ ClosesWhatIsFree'
<1> SUFFICES ASSUME EInv, Load \/ Httpd
             PROVE  HandleHasAnEnd' /\ ClaimHasAnEnd' /\ ClosesWhatIsFree'
  OBVIOUS
<1> USE DEF EInv, CInv, OneReleases, ClaimTypeOK, Calls, Leavings,
            HandleHasAnEnd, ClaimHasAnEnd, ClosesWhatIsFree
<1>0. UNCHANGED <<here, events, opened, gone>> /\ missed \subseteq missed'
  BY DEF Load, Httpd, LoadDevice, LoadNumber, ClaimInterface, Note, Allocate, Transfer,
         Exchange, Release, Releases, rest, target, library
<1>1. HandleHasAnEnd'
  BY <1>0
<1>2. CASE Load
  <2>1. /\ call.at = "idle" /\ call'.at = "device" /\ ~noted
        /\ UNCHANGED <<noted, held, missed>>
    BY <1>2 DEF Load, library
  <2> QED
    BY <1>0, <1>1, <2>1
<1>9. CASE LoadDevice
  <2>1. /\ call.at = "device" /\ ~noted /\ (gone.at # "idle" /\ device # None => device # gone.dev)
        /\ UNCHANGED <<noted, held, missed>>
    BY <1>9 DEF LoadDevice, library
  <2>2. \/ call'.at = "idle"
        \/ call'.at = "number" /\ call'.dev = device /\ device # None
    BY <1>9 DEF LoadDevice
  <2> QED
    BY <1>0, <1>1, <2>1, <2>2
<1>10. CASE LoadNumber
  BY <1>0, <1>1, <1>10 DEF LoadNumber, CallGoes, library
<1>3. CASE ClaimInterface
  BY <1>0, <1>1, <1>3 DEF ClaimInterface, CallGoes
<1>4. CASE Note
  BY <1>0, <1>1, <1>4 DEF Note, CallGoes, library
<1>5. ASSUME NEW c \in Contexts, Allocate(c) PROVE ClaimHasAnEnd' /\ ClosesWhatIsFree'
  BY <1>0, <1>5 DEF Allocate, CallGoes, library
<1>6. CASE Transfer
  BY <1>0, <1>1, <1>6 DEF Transfer, CallGoes, library
<1>7. CASE Exchange
  BY <1>0, <1>1, <1>7 DEF Exchange, CallGoes, library
<1>8. CASE Release
  BY <1>0, <1>1, <1>8 DEF Release, Releases, CallGoes
<1> QED
  BY <1>1, <1>2, <1>3, <1>4, <1>5, <1>6, <1>7, <1>8, <1>9, <1>10 DEF Httpd

(* A claim whose target is no longer the newest has been missed before. *)
LEMMA OlderIsMissed ==
  ASSUME EInv, gone.at # "idle", call.dev \in held, call.dev # gone.dev
  PROVE  call.dev \in missed
<1>1. call.dev \in opened /\ call.dev \in Targets /\ gone.dev \in Targets
  BY DEF EInv, CInv, CallHasTarget, OneReleases, ClaimTypeOK
<1>2. call.dev.id \in Nat /\ gone.dev.id \in Nat /\ call.dev.id < gone.dev.id
  BY <1>1 DEF EInv, InOrder, LeavesFirst, Targets
<1>3. call.dev # here
  <2>1. here \in Targets => here.id \in Nat
    BY DEF Targets
  <2> QED
    BY <1>1, <1>2, <2>1, TargetsAssumption DEF EInv, InOrder, LeavesFirst
<1>4. \A i \in DOMAIN events : events[i] # Gone(call.dev)
  BY <1>2 DEF EInv, InOrder, LeavesFirst, Gone
<1> QED
  BY <1>1, <1>3, <1>4 DEF EInv, HandleHasAnEnd

(* The steps of onDeviceGone(). *)
LEMMA GoneKeepsEnds ==
  EInv /\ (Forget \/ GoneExchange \/ GoneRelease \/ GoneClose)
    => HandleHasAnEnd' /\ ClaimHasAnEnd' /\ ClosesWhatIsFree'
<1> SUFFICES ASSUME EInv, Forget \/ GoneExchange \/ GoneRelease \/ GoneClose
             PROVE  HandleHasAnEnd' /\ ClaimHasAnEnd' /\ ClosesWhatIsFree'
  OBVIOUS
<1> USE DEF HandleHasAnEnd, ClaimHasAnEnd, ClosesWhatIsFree
<1>0. UNCHANGED <<here, call>> /\ missed \subseteq missed'
  BY DEF Forget, GoneExchange, GoneRelease, GoneClose, Releases, target
<1>1. gone \in Leavings /\ call \in Calls /\ held \subseteq opened /\ opened \subseteq Targets
  BY DEF EInv, CInv, ClaimTypeOK, OneReleases
<1>2. CASE Forget
  <2>1. /\ events \in Seq(Events) /\ events # <<>> /\ events[1].what = "gone"
        /\ events' = Tail(events)
        /\ gone.at = "idle" /\ gone.dev = None
        /\ gone'.at = "exchange" /\ gone'.dev = events[1].dev
        /\ UNCHANGED <<opened, held, missed, noted>>
    BY <1>2 DEF Forget, ClientIdle, library, EInv, CInv, ClaimTypeOK, InOrder, LeavesFirst
  <2>2. \A d : (\E i \in DOMAIN events : events[i] = Gone(d)) =>
                 events[1] = Gone(d) \/ \E i \in DOMAIN events' : events'[i] = Gone(d)
    <3>1. \A i \in DOMAIN events : i = 1 \/ (i - 1 \in DOMAIN events' /\ events'[i - 1] = events[i])
      BY <2>1
    <3> QED
      BY <3>1
  <2>3. HandleHasAnEnd'
    <3>1. \A d \in opened : d # gone.dev
      BY <1>1, <2>1, TargetsAssumption
    <3>2. \A d : events[1] = Gone(d) => d = gone'.dev
      BY <2>1 DEF Gone
    <3>3. \A d \in opened \ missed :
            d = here \/ \E i \in DOMAIN events : events[i] = Gone(d)
      BY <3>1 DEF EInv
    <3>4. \A d \in opened \ missed :
            \/ d = here \/ d = gone'.dev
            \/ \E i \in DOMAIN events' : events'[i] = Gone(d)
      BY <2>2, <3>2, <3>3
    <3> QED
      BY <1>0, <2>1, <3>4 DEF Gone
  <2> QED
    BY <1>0, <2>1, <2>3 DEF EInv
<1>3. CASE GoneExchange
  <2>1. /\ gone.at = "exchange" /\ gone'.dev = gone.dev
        /\ gone'.at = (IF noted THEN "release" ELSE "close")
        /\ noted' = FALSE
        /\ (Unnoted(gone.dev) => gone.dev \in missed')
        /\ UNCHANGED <<events, opened, held>>
    BY <1>1, <1>3 DEF GoneExchange, GoneGoes, library, Leavings
  <2>2. HandleHasAnEnd'
    BY <1>0, <2>1 DEF EInv
  <2>3. ASSUME NEW d \in held, d \notin missed'
        PROVE  \/ call.dev = d /\ call.at \in {"note", "release"}
               \/ noted /\ gone.dev = d
    BY <1>0, <2>1, <2>3, OlderIsMissed DEF EInv
  <2>4. ClaimHasAnEnd'
    BY <1>0, <2>1, <2>3
  <2>5. ClosesWhatIsFree'
    BY <1>0, <2>1, <2>3 DEF Unnoted
  <2> QED
    BY <2>2, <2>4, <2>5
<1>4. CASE GoneRelease
  <2>1. /\ gone.at = "release" /\ gone'.dev = gone.dev /\ gone'.at = "close"
        /\ held' \subseteq held /\ (gone.dev \in missed' \/ gone.dev \notin held')
        /\ UNCHANGED <<events, opened, noted>>
    BY <1>1, <1>4 DEF GoneRelease, Releases, GoneGoes, Leavings
  <2>2. HandleHasAnEnd'
    BY <1>0, <2>1 DEF EInv
  <2>3. ClaimHasAnEnd'
    BY <1>0, <2>1 DEF EInv
  <2>4. ClosesWhatIsFree'
    BY <1>0, <2>1 DEF EInv, CInv, OneReleases
  <2> QED
    BY <2>2, <2>3, <2>4
<1>5. CASE GoneClose
  <2>1. /\ gone.at = "close" /\ gone'.at = "idle"
        /\ opened' = IF gone.dev \in held THEN opened ELSE opened \ {gone.dev}
        /\ UNCHANGED <<events, held, missed, noted>>
    BY <1>5 DEF GoneClose
  <2> QED
    BY <1>0, <2>1 DEF EInv
<1> QED
  BY <1>2, <1>3, <1>4, <1>5

(* The world, the enumeration and the callbacks. *)
LEMMA OthersKeepEnds ==
  EInv /\ (World \/ OnNewDevice \/ Callback \/ UNCHANGED allVars)
    => HandleHasAnEnd' /\ ClaimHasAnEnd' /\ ClosesWhatIsFree'
<1> SUFFICES ASSUME EInv, World \/ OnNewDevice \/ Callback \/ UNCHANGED allVars
             PROVE  HandleHasAnEnd' /\ ClaimHasAnEnd' /\ ClosesWhatIsFree'
  OBVIOUS
<1>0. UNCHANGED <<call, gone, noted, held, missed>>
  BY DEF World, Pull, Plug, OnNewDevice, Callback, allVars, claimVars, library
<1>1. ClaimHasAnEnd' /\ ClosesWhatIsFree'
  BY <1>0 DEF EInv, ClaimHasAnEnd, ClosesWhatIsFree
<1>2. events \in Seq(Events)
  BY DEF EInv, CInv, ClaimTypeOK
<1> USE DEF HandleHasAnEnd, Gone
<1>3. CASE Pull
  <2>1. CASE here \notin opened
    BY <1>0, <1>1, <1>3, <2>1 DEF Pull, library, EInv
  <2>2. CASE here \in opened
    <3>1. events' = Append(events, Gone(here)) /\ opened' = opened
      BY <1>3, <2>2 DEF Pull, library, Gone
    <3>2. /\ \A i \in DOMAIN events : i \in DOMAIN events' /\ events'[i] = events[i]
          /\ Len(events) + 1 \in DOMAIN events' /\ events'[Len(events) + 1] = Gone(here)
      BY <1>2, <3>1
    <3> QED
      BY <1>0, <1>1, <3>1, <3>2 DEF EInv
  <2> QED
    BY <2>1, <2>2
<1>4. ASSUME NEW k \in Kinds, Plug(k) PROVE HandleHasAnEnd'
  <2>1. here = None /\ opened' = opened /\ \E e : events' = Append(events, e)
    BY <1>4 DEF Plug, library
  <2>2. \A i \in DOMAIN events : i \in DOMAIN events' /\ events'[i] = events[i]
    BY <1>2, <2>1
  <2>3. None \notin opened
    BY TargetsAssumption DEF EInv, CInv, ClaimTypeOK
  <2> QED
    BY <1>0, <1>1, <2>1, <2>2, <2>3 DEF EInv
<1>5. CASE OnNewDevice
  <2>1. /\ events # <<>> /\ events[1].what = "new" /\ events' = Tail(events)
        /\ here' = here /\ opened' \subseteq opened \cup {here}
    BY <1>2, <1>5 DEF OnNewDevice, target
  <2>2. \A i \in DOMAIN events : i = 1 \/ (i - 1 \in DOMAIN events' /\ events'[i - 1] = events[i])
    BY <1>2, <2>1
  <2>3. \A d : events[1] # Gone(d)
    BY <2>1 DEF Gone
  <2>4. \A d : (\E i \in DOMAIN events : events[i] = Gone(d)) =>
                 \E i \in DOMAIN events' : events'[i] = Gone(d)
    BY <2>2, <2>3
  <2>5. \A d \in opened' \ missed : d = here \/ d \in opened \ missed
    BY <2>1
  <2> QED
    BY <1>0, <1>1, <2>1, <2>4, <2>5 DEF EInv
<1>6. CASE Callback \/ UNCHANGED allVars
  BY <1>0, <1>1, <1>6 DEF Callback, allVars, claimVars, target, library, EInv
<1> QED
  BY <1>1, <1>3, <1>4, <1>5, <1>6 DEF World

LEMMA EndsStep == EInv /\ [ClaimNext]_allVars => EInv'
  BY ClaimStep, OrderStep, CallKeepsEnds, GoneKeepsEnds, OthersKeepEnds
  DEF EInv, ClaimNext, Client

LEMMA EndsInvariance == ClaimSpec => []EInv
  BY EndsStart, EndsStep, PTL DEF ClaimSpec

(* onDeviceGone(): however many calls and targets there are, a handle only *)
(* stays open when one of the two races was lost.                          *)
THEOREM OnlyRacesKeepHandles == ClaimSpec => []OnlyRacesStick
<1>1. EInv => OnlyRacesStick
  BY DEF EInv, HandleHasAnEnd, OnlyRacesStick, Stuck, Gone
<1> QED
  BY <1>1, EndsInvariance, PTL

(* hidFeature() and picobootReboot() take their claim with them, whichever *)
(* way they return, but for the same two races.                            *)
THEOREM CallsGiveBack == ClaimSpec => []ClaimEndsWithCall
<1>1. EInv => ClaimEndsWithCall
  BY DEF EInv, CInv, OneReleases, ClaimHasAnEnd, ClaimEndsWithCall
<1> QED
  BY <1>1, EndsInvariance, PTL

(* claimFeature(), releaseClaimed() and onDeviceGone(): every place of the *)
(* calls, the note and the library keeps its type (ClaimTypeOK).           *)
THEOREM ClaimTypes == ClaimSpec => []ClaimTypeOK
<1>1. CInv => ClaimTypeOK
  BY DEF CInv
<1> QED
  BY ClaimStarts, ClaimStep, <1>1, PTL DEF ClaimSpec

(* ---------------------- nobody releases twice -------------------------- *)

(* m_device is the newest of the open handles, and only an open one is     *)
(* told to be gone; so while onDeviceGone is at work there is no device.   *)
DeviceIsNewest ==
  /\ device # None =>
       device \in opened /\ \A d \in opened : d = device \/ d.id < device.id
  /\ \A i \in DOMAIN events : events[i].what = "gone" => events[i].dev \in opened
  /\ gone.at # "idle" => device = None /\ gone.dev \in opened

(* While onDeviceGone releases, no call gets at an interface. *)
GoneReleasesAlone ==
  gone.at = "release" =>
    /\ ~noted /\ call.at \in {"idle", "device", "number", "allocate", "transfer", "exchange"}
    /\ gone.dev \in held \/ held \cap missed # {}

RInv == EInv /\ DeviceIsNewest /\ GoneReleasesAlone

LEMMA ReleasesStart == ClaimInit => RInv
  BY EndsStart DEF ClaimInit, RInv, DeviceIsNewest, GoneReleasesAlone

LEMMA DeviceStep == RInv /\ [ClaimNext]_allVars => DeviceIsNewest'
<1> SUFFICES ASSUME RInv, [ClaimNext]_allVars PROVE DeviceIsNewest'
  OBVIOUS
<1> USE TargetsAssumption DEF DeviceIsNewest
<1>0. /\ events \in Seq(Events) /\ opened \subseteq Targets /\ gone \in Leavings
      /\ device \in Targets \cup {None} /\ here \in Targets \cup {None}
      /\ \A d \in Targets : d.id \in Nat
      /\ \A i \in DOMAIN events : events[i] \in Events
    BY DEF RInv, EInv, CInv, ClaimTypeOK, Targets
<1>1. CASE Pull
  <2>1. UNCHANGED <<device, gone, opened>>
    BY <1>1 DEF Pull, library
  <2>2. \A i \in DOMAIN events' :
          \/ i \in DOMAIN events /\ events'[i] = events[i]
          \/ events'[i] = [what |-> "gone", dev |-> here] /\ here \in opened
    BY <1>0, <1>1 DEF Pull
  <2> QED
    BY <2>1, <2>2 DEF RInv
<1>2. ASSUME NEW k \in Kinds, Plug(k) PROVE DeviceIsNewest'
  <2>1. UNCHANGED <<device, gone, opened>>
    BY <1>2 DEF Plug, library
  <2>2. \A i \in DOMAIN events' :
          \/ i \in DOMAIN events /\ events'[i] = events[i]
          \/ events'[i].what = "new"
    BY <1>0, <1>2 DEF Plug
  <2> QED
    BY <2>1, <2>2 DEF RInv
<1>3. CASE OnNewDevice
  <2>1. /\ events # <<>> /\ events' = Tail(events) /\ gone.at = "idle" /\ UNCHANGED <<here, gone>>
        /\ \/ opened' = opened /\ device' = device
           \/ here = Head(events).dev /\ opened' = opened \cup {here} /\ device' = here
    BY <1>3 DEF OnNewDevice, ClientIdle, target
  <2>2. \A i \in DOMAIN events' : i + 1 \in DOMAIN events /\ events'[i] = events[i + 1]
    BY <1>0, <2>1
  <2>3. here \in Targets => \A d \in opened : d = here \/ d.id < here.id
    BY DEF RInv, EInv, InOrder, HereIsNewest
  <2>4. Head(events).dev \in Targets
    BY <1>0, <2>1 DEF Events
  <2> QED
    BY <1>0, <2>1, <2>2, <2>3, <2>4 DEF RInv
<1>4. CASE Forget
  <2>1. /\ events # <<>> /\ Head(events).what = "gone" /\ events' = Tail(events)
        /\ gone' = [at |-> "exchange", dev |-> Head(events).dev]
        /\ device' = IF device = Head(events).dev THEN None ELSE device
        /\ opened' = opened
    BY <1>4 DEF Forget, library
  <2>2. 1 \in DOMAIN events /\ events[1] = Head(events)
    BY <1>0, <2>1
  <2>3. \A i \in DOMAIN events' : i + 1 \in DOMAIN events /\ events'[i] = events[i + 1]
    BY <1>0, <2>1
  <2>4. events[1].dev \in opened /\ events[1] = Gone(events[1].dev)
    BY <1>0, <2>1, <2>2 DEF RInv, Events, Gone
  <2>5. device # None => device = events[1].dev
    <3>1. SUFFICES ASSUME device # None, device # events[1].dev PROVE FALSE
      OBVIOUS
    <3>2. events[1].dev.id < device.id /\ device \in opened
      BY <2>4, <3>1 DEF RInv
    <3>3. events[1] = Gone(device) \/ device.id < events[1].dev.id
      BY <2>2, <3>2 DEF RInv, EInv, InOrder, ToldInOrder
    <3>4. events[1] # Gone(device)
      BY <2>4, <3>1 DEF Gone
    <3> QED
      BY <1>0, <2>4, <3>2, <3>3, <3>4
  <2> QED
    BY <2>1, <2>2, <2>3, <2>4, <2>5 DEF RInv
<1>5. CASE GoneClose
  <2>1. /\ gone.at = "close" /\ gone'.at = "idle" /\ UNCHANGED <<device, events>>
        /\ opened' = IF gone.dev \in held THEN opened ELSE opened \ {gone.dev}
    BY <1>5 DEF GoneClose
  <2>2. gone.dev \in Targets /\ \A i \in DOMAIN events : gone.dev.id < events[i].dev.id
    BY <2>1 DEF RInv, EInv, CInv, CallHasTarget, InOrder, LeavesFirst
  <2>3. \A i \in DOMAIN events : events[i].dev # gone.dev
    BY <1>0, <2>2
  <2> QED
    BY <2>1, <2>3 DEF RInv
<1>6. CASE GoneExchange \/ GoneRelease
  <2>1. UNCHANGED <<device, events, opened>> /\ gone.at # "idle" /\ gone'.dev = gone.dev
    BY <1>0, <1>6 DEF GoneExchange, GoneRelease, GoneGoes, library, Leavings
  <2> QED
    BY <2>1 DEF RInv
<1>7. CASE Load \/ Httpd \/ Callback \/ UNCHANGED allVars
  <2>1. UNCHANGED <<device, events, opened, gone>>
    BY <1>7 DEF Load, Httpd, Callback, allVars, LoadDevice, LoadNumber, ClaimInterface, Note,
                Allocate, Transfer, Exchange, Release, rest, library, claimVars
  <2> QED
    BY <2>1 DEF RInv
<1> QED
  BY <1>1, <1>2, <1>3, <1>4, <1>5, <1>6, <1>7 DEF ClaimNext, World, Client

LEMMA AloneStep == RInv /\ [ClaimNext]_allVars => GoneReleasesAlone'
<1> SUFFICES ASSUME RInv, [ClaimNext]_allVars, gone'.at = "release"
             PROVE  /\ ~noted' /\ call'.at \in {"idle", "device", "number", "allocate", "transfer", "exchange"}
                    /\ gone'.dev \in held' \/ held' \cap missed' # {}
  BY DEF GoneReleasesAlone
<1>0. gone \in Leavings /\ call \in Calls /\ noted \in BOOLEAN
  BY DEF RInv, EInv, CInv, ClaimTypeOK
<1>1. CASE GoneExchange
  <2>1. gone.at = "exchange" /\ noted /\ ~noted' /\ gone'.dev = gone.dev /\ missed \subseteq missed'
        /\ UNCHANGED <<call, held>>
    BY <1>0, <1>1 DEF GoneExchange, GoneGoes, library, Leavings
  <2>2. call.at \in {"allocate", "transfer", "exchange"} /\ call.dev \in held
    BY <2>1 DEF RInv, EInv, CInv, OneReleases
  <2>3. call.dev = gone.dev \/ call.dev \in missed
    BY <2>1, <2>2, OlderIsMissed DEF RInv
  <2> QED
    BY <2>1, <2>2, <2>3
<1>2. CASE ~GoneExchange
  <2>1. gone.at = "release" /\ gone' = gone
    <3>1. CASE World \/ Load \/ Httpd \/ Callback \/ UNCHANGED allVars
      BY <3>1 DEF World, Pull, Plug, Load, Httpd, LoadDevice, LoadNumber, ClaimInterface, Note,
         Allocate, Transfer, Exchange, Release, Callback, rest, claimVars, allVars
    <3>2. CASE Client
      BY <1>0, <1>2, <3>2 DEF Client, OnNewDevice, Forget, GoneRelease, GoneGoes, GoneClose, Leavings
    <3> QED
      BY <3>1, <3>2 DEF ClaimNext
  <2>2. /\ ~noted /\ device = None
        /\ call.at \in {"idle", "device", "number", "allocate", "transfer", "exchange"}
        /\ gone.dev \in held \/ held \cap missed # {}
    BY <2>1 DEF RInv, GoneReleasesAlone, DeviceIsNewest
  <2>3. UNCHANGED <<noted, held, missed>>
    <3>1. CASE World \/ Load \/ Callback \/ UNCHANGED allVars
      BY <3>1 DEF World, Pull, Plug, Load, Callback, library, claimVars, allVars
    <3>2. CASE Client
      BY <1>0, <1>2, <2>1, <3>2 DEF Leavings, Client, OnNewDevice, ClientIdle, Forget, GoneRelease, GoneGoes, GoneClose
    <3>3. CASE Httpd
      BY <1>0, <2>2, <3>3 DEF Httpd, LoadDevice, LoadNumber, ClaimInterface, Note, Allocate, Transfer,
         Exchange, Release, library
    <3> QED
      BY <3>1, <3>2, <3>3 DEF ClaimNext
  <2>4. call'.at \in {"idle", "device", "number", "allocate", "transfer", "exchange"}
    <3>1. CASE Load \/ LoadDevice \/ LoadNumber
      BY <1>0, <2>2, <3>1 DEF Load, LoadDevice, LoadNumber, CallGoes, Calls
    <3>2. CASE ClaimInterface \/ Note \/ Exchange \/ Release
      BY <1>0, <2>2, <3>2 DEF ClaimInterface, Note, Exchange, Release, CallGoes, Calls
    <3>3. CASE Transfer \/ \E c \in Contexts : Allocate(c)
      BY <1>0, <3>3 DEF Transfer, Allocate, CallGoes, Calls
    <3>4. CASE World \/ Client \/ Callback \/ UNCHANGED allVars
      <4>1. call' = call
        BY <3>4 DEF World, Pull, Plug, Client, OnNewDevice, Forget, GoneExchange, GoneRelease,
           GoneClose, Callback, claimVars, allVars
      <4> QED
        BY <2>2, <4>1
    <3> QED
      BY <3>1, <3>2, <3>3, <3>4 DEF ClaimNext, Httpd
  <2> QED
    BY <2>1, <2>2, <2>3, <2>4
<1> QED
  BY <1>1, <1>2

(* releaseClaimed(), in the call and in onDeviceGone: what is taken out of *)
(* the note is claimed and its handle open, and they never both release.   *)
THEOREM NobodyReleasesTwice == ClaimSpec => []ReleaseIsOfAClaim
<1>1. RInv /\ [ClaimNext]_allVars => RInv'
  BY EndsStep, DeviceStep, AloneStep DEF RInv
<1>2. RInv => ReleaseIsOfAClaim
  <2>1. RInv => (call.at = "release" => call.dev \in held \cap opened)
    BY DEF RInv, EInv, CInv, OneReleases
  <2> QED
    BY <2>1 DEF RInv, DeviceIsNewest, GoneReleasesAlone, ReleaseIsOfAClaim
<1> QED
  BY ReleasesStart, <1>1, <1>2, PTL DEF ClaimSpec

=============================================================================
