---------------------------- MODULE UploadsProofs ----------------------------
(***************************************************************************)
(* The update of the probe implements Trial, alone and together with the   *)
(* upload of the web interface.                                            *)
(***************************************************************************)
EXTENDS Uploads, TLAPS

IInv == TypeOK /\ SlotsSafe

\* One name for the two things the boot loader can do.
LEMMA BootKeepsSlot ==
  ASSUME IInv, OtaBoot
  PROVE  /\ Boots = Preferred /\ selected' = Preferred /\ running' = Preferred
         /\ state'[Other(selected)] = state[Other(selected)]
         /\ GivenUp => state'[selected] = "aborted"
         /\ state[selected] = "new" => state'[selected] = "pending"
         /\ ~GivenUp /\ state[selected] # "new" => state' = state
<1>1. Intact(Preferred)
  BY DEF IInv, TypeOK, SlotsSafe, Preferred, GivenUp, OnTrial
<1>2. Boots = Preferred
  BY <1>1 DEF Boots
<1>3. selected \in DOMAIN state /\ Other(selected) # selected
  BY DEF IInv, TypeOK, Slots, Other
<1> QED
  BY <1>2, <1>3 DEF IInv, TypeOK, OtaBoot, StateAfterBoot, GivenUp

LEMMA InitInv == ASSUME OtaInit PROVE IInv
<1> USE OtaAssumption DEF OtaInit, Slots, Erased, Idle
<1>1. slot \in [Slots -> [img : Files \cup {None}, have : 0..Chunks]]
  BY DEF Files
<1>2. job \in [at : {"idle", "receive", "restart"}, file : Files \cup {None},
               total : 0..Chunks, got : 0..Chunks, to : Slots]
  OBVIOUS
<1>3. TypeOK
  BY <1>1, <1>2 DEF TypeOK, ImageStates
<1>4. Intact(0) /\ state[0] = "undefined" /\ state[1] = "undefined"
  BY DEF Intact
<1>5. SlotsSafe
  BY <1>4 DEF SlotsSafe, OnTrial, Other
<1> QED
  BY <1>3, <1>5 DEF IInv

-----------------------------------------------------------------------------

LEMMA StepType == ASSUME IInv, [OtaNext]_otaVars PROVE TypeOK'
<1> USE DEF Slots, ImageStates, Idle, Erased, Other
<1> SUFFICES ASSUME OtaNext PROVE TypeOK'
  BY DEF otaVars, IInv, TypeOK
<1>1. CASE OtaBoot
  BY <1>1, BootKeepsSlot DEF OtaBoot, IInv, TypeOK, StateAfterBoot, Preferred
<1>2. CASE OtaOff
  <2>1. job' \in [at : {"idle", "receive", "restart"}, file : Files \cup {None},
                  total : 0..Chunks, got : 0..Chunks, to : Slots]
    BY <1>2, OtaAssumption DEF OtaOff
  <2> QED
    BY <1>2, <2>1 DEF OtaOff, IInv, TypeOK
<1>3. CASE AppMain
  BY <1>3 DEF AppMain, ReachNetwork, StartUsb, GateOpens, Reconnected, ConfirmRunningImage,
              IInv, TypeOK
<1>4. ASSUME NEW f \in Files, NEW n \in 1..Chunks, Begin(f, n) PROVE TypeOK'
  <2>1. running \in Slots
    BY <1>4 DEF Begin, Listening, IInv, SlotsSafe, TypeOK
  <2>2. slot' \in [Slots -> [img : Files \cup {None}, have : 0..Chunks]]
    BY <1>4, <2>1, OtaAssumption DEF Begin, IInv, TypeOK
  <2>3. job' \in [at : {"idle", "receive", "restart"}, file : Files \cup {None},
                  total : 0..Chunks, got : 0..Chunks, to : Slots]
    BY <1>4, <2>1, OtaAssumption DEF Begin
  <2> QED
    BY <1>4, <2>2, <2>3 DEF Begin, IInv, TypeOK
<1>5. ASSUME NEW short \in BOOLEAN, Receive(short) PROVE TypeOK'
  <2>1. job.got + 1 \in 0..Chunks /\ job.file \in Files \cup {None} /\ job.to \in Slots
    BY <1>5, OtaAssumption DEF Receive, IInv, TypeOK
  <2> QED
    BY <1>5, <2>1 DEF Receive, IInv, TypeOK
<1>6. CASE Refuse \/ Reject
  BY <1>6, OtaAssumption DEF Refuse, Reject, GiveUp, IInv, TypeOK
<1>7. CASE Activate
  BY <1>7 DEF Activate, IInv, TypeOK
<1> QED
  BY <1>1, <1>2, <1>3, <1>4, <1>5, <1>6, <1>7 DEF OtaNext, OtaUpload

LEMMA StepSafe == ASSUME IInv, [OtaNext]_otaVars PROVE SlotsSafe'
<1> USE DEF Slots, Idle, Other, Intact, OnTrial
<1>0. /\ selected \in {0, 1} /\ running \in {0, 1, None} /\ job.to \in {0, 1}
      /\ DOMAIN state = {0, 1} /\ DOMAIN slot = {0, 1}
  BY DEF IInv, TypeOK
<1>n. None \notin {0, 1}
  BY OtaAssumption
<1>1. CASE OtaBoot
  <2>1. /\ slot' = slot /\ job' = job /\ job.at = "idle" /\ running' # None /\ phase' # "off"
        /\ phase = "off"
    BY <1>1, BootKeepsSlot, <1>n, <1>0 DEF OtaBoot, IInv, SlotsSafe, Preferred
  <2>2. CASE GivenUp
    <3>1. /\ selected' = 1 - selected /\ running' = 1 - selected /\ 1 - (1 - selected) = selected
          /\ state'[1 - selected] = state[1 - selected] /\ state'[selected] = "aborted"
      BY <1>1, <2>2, BootKeepsSlot, <1>0 DEF Preferred
    <3>2. /\ Intact(1 - selected) /\ state[1 - selected] \notin {"new", "pending"}
      BY <2>2, <1>0 DEF IInv, SlotsSafe, GivenUp
    <3>3. state[1 - selected] # "aborted"
      BY <2>2, <1>0 DEF IInv, SlotsSafe, GivenUp
    <3> QED
      BY <2>1, <3>1, <3>2, <3>3, <1>0 DEF SlotsSafe
  <2>3. CASE ~GivenUp
    BY <1>1, <2>1, <2>3, BootKeepsSlot, <1>0 DEF IInv, SlotsSafe, Preferred, GivenUp
  <2> QED
    BY <2>2, <2>3
<1>2. CASE OtaOff
  BY <1>0, <1>n, <1>2 DEF OtaOff, IInv, SlotsSafe
<1>3. CASE ReachNetwork \/ StartUsb \/ GateOpens \/ Reconnected
  BY <1>0, <1>3 DEF ReachNetwork, StartUsb, GateOpens, Reconnected, IInv, SlotsSafe
<1>4. CASE ConfirmRunningImage
  BY <1>0, <1>n, <1>4 DEF ConfirmRunningImage, IInv, SlotsSafe
<1>5. ASSUME NEW f \in Files, NEW n \in 1..Chunks, Begin(f, n) PROVE SlotsSafe'
  <2>1. running = selected /\ ~OnTrial
    BY <1>0, <1>n, <1>5 DEF Begin, Listening, IInv, SlotsSafe
  <2>2. slot'[selected] = slot[selected]
    BY <1>0, <1>5, <2>1 DEF Begin
  <2> QED
    BY <1>0, <1>n, <1>5, <2>1, <2>2 DEF Begin, Listening, IInv, SlotsSafe
<1>6. ASSUME NEW short \in BOOLEAN, Receive(short) PROVE SlotsSafe'
  <2>1. slot'[selected] = slot[selected]
    BY <1>0, <1>6 DEF Receive, IInv, SlotsSafe
  <2> QED
    BY <1>0, <1>n, <1>6, <2>1 DEF Receive, IInv, SlotsSafe
<1>7. CASE Refuse \/ Reject
  BY <1>0, <1>n, <1>7 DEF Refuse, Reject, GiveUp, IInv, SlotsSafe
<1>8. CASE Activate
  <2>1. /\ running = selected /\ job.to = Other(selected) /\ Intact(selected)
        /\ state[selected] \notin {"new", "pending", "aborted"} /\ phase # "off"
    BY <1>0, <1>n, <1>8 DEF Activate, IInv, SlotsSafe
  <2> QED
    BY <1>0, <1>n, <1>8, <2>1 DEF Activate, Verified, IInv, SlotsSafe
<1>9. CASE UNCHANGED otaVars
  BY <1>9 DEF otaVars, IInv, SlotsSafe
<1> QED
  BY <1>1, <1>2, <1>3, <1>4, <1>5, <1>6, <1>7, <1>8, <1>9 DEF OtaNext, AppMain, OtaUpload
-----------------------------------------------------------------------------
(* Every step of the update is a step of the trial, or none. *)

\* What of the slots the trial sees: a whole slot shows its firmware.
LEMMA WholeContent ==
  ASSUME NEW s \in Slots, Intact(s)
  PROVE Content(s) = slot[s].img /\ Content(s) \in Firmware /\ Content(s) # None
  BY OtaAssumption DEF Content, Intact

LEMMA InitTrial == ASSUME OtaInit PROVE UpdateIsATrial!TrialInit
<1>1. IInv
  BY InitInv
<1>2. ~OnTrial /\ state[selected] # "pending" /\ running = None /\ selected \in Slots
  BY DEF OtaInit, OnTrial, Slots
<1>3. Content(selected) \in Firmware
  BY <1>1, <1>2, WholeContent DEF IInv, SlotsSafe
<1> QED
  BY <1>2, <1>3 DEF UpdateIsATrial!TrialInit

LEMMA StepTrial ==
  ASSUME IInv, IInv', [OtaNext]_otaVars
  PROVE [UpdateIsATrial!TrialNext]_UpdateIsATrial!trialVars
<1> DEFINE Same == UNCHANGED UpdateIsATrial!trialVars
<1> USE DEF Slots, Idle, Other
<1>0. /\ selected \in {0, 1} /\ running \in {0, 1, None} /\ job.to \in {0, 1}
      /\ DOMAIN state = {0, 1} /\ DOMAIN slot = {0, 1} /\ None \notin {0, 1}
      /\ 1 - selected \in {0, 1}
  BY OtaAssumption DEF IInv, TypeOK
<1>1. Content(selected) \in Firmware /\ Content(selected) # None
  BY <1>0, WholeContent DEF IInv, SlotsSafe
<1>2. CASE OtaBoot
  <2>0. /\ slot' = slot /\ running = None /\ running' = Preferred /\ selected' = Preferred
        /\ Preferred \in {0, 1} /\ running' # None
    BY <1>2, <1>0, BootKeepsSlot DEF OtaBoot, IInv, SlotsSafe, Preferred
  <2>1. \A s \in Slots : Content(s)' = Content(s)
    BY <2>0 DEF Content, Intact
  <2>2. CASE GivenUp
    <3>1. /\ selected' = 1 - selected /\ OnTrial /\ state[selected] = "pending"
          /\ state'[1 - selected] \notin {"new", "pending"}
      BY <1>2, <1>0, <2>2, BootKeepsSlot DEF Preferred, IInv, SlotsSafe, OnTrial, GivenUp
    <3>2. ~OnTrial' /\ state'[selected'] # "pending"
      BY <3>1 DEF OnTrial
    <3>3. Content(selected)' = Content(1 - selected) /\ Content(running)' = Content(1 - selected)
      BY <2>0, <3>1 DEF Content, Intact
    <3>4. UpdateIsATrial!StartKnown
      BY <1>1, <2>0, <3>1, <3>2, <3>3 DEF UpdateIsATrial!StartKnown
    <3> QED
      BY <3>4 DEF UpdateIsATrial!TrialNext
  <2>3. CASE state[selected] = "new"
    <3>1. /\ selected' = selected /\ OnTrial /\ state[selected] # "pending"
          /\ state'[selected] = "pending"
      BY <1>2, <2>3, BootKeepsSlot DEF Preferred, OnTrial, GivenUp
    <3>2. OnTrial' /\ state'[selected'] = "pending"
      BY <3>1 DEF OnTrial
    <3>3. /\ Content(selected)' = Content(selected) /\ Content(running)' = Content(selected)
          /\ Content(1 - selected)' = Content(1 - selected)
      BY <2>0, <3>1 DEF Content, Intact, Preferred
    <3>4. UpdateIsATrial!StartNew
      BY <1>1, <2>0, <3>1, <3>2, <3>3 DEF UpdateIsATrial!StartNew
    <3> QED
      BY <3>4 DEF UpdateIsATrial!TrialNext
  <2>4. CASE ~GivenUp /\ state[selected] # "new"
    <3>1. /\ selected' = selected /\ ~OnTrial /\ state' = state /\ state[selected] # "pending"
      BY <1>2, <2>4, BootKeepsSlot DEF Preferred, OnTrial, GivenUp
    <3>2. ~OnTrial' /\ state'[selected'] # "pending"
      BY <3>1 DEF OnTrial
    <3>3. Content(selected)' = Content(selected) /\ Content(running)' = Content(selected)
      BY <2>0, <3>1 DEF Content, Intact, Preferred
    <3>4. UpdateIsATrial!StartKnown
      BY <2>0, <3>1, <3>2, <3>3 DEF UpdateIsATrial!StartKnown
    <3> QED
      BY <3>4 DEF UpdateIsATrial!TrialNext
  <2> QED
    BY <2>2, <2>3, <2>4
<1>3. CASE OtaOff
  <2>1. running \in {0, 1} /\ Intact(running)
    BY <1>0, <1>3 DEF OtaOff, IInv, SlotsSafe, OnTrial
  <2>2. Content(running) # None
    BY <2>1, WholeContent
  <2>3. /\ UNCHANGED <<slot, selected, state>> /\ running' = None
    BY <1>3 DEF OtaOff
  <2>4. UpdateIsATrial!Stop
    BY <2>1, <2>2, <2>3, <1>0 DEF UpdateIsATrial!Stop, Content, Intact, OnTrial
  <2> QED
    BY <2>4 DEF UpdateIsATrial!TrialNext
<1>4. CASE UNCHANGED <<slot, selected, state, running>>
  BY <1>4 DEF UpdateIsATrial!trialVars, Content, Intact, OnTrial
<1>5. CASE ReachNetwork \/ StartUsb \/ GateOpens \/ Reconnected \/ Refuse \/ Reject
           \/ UNCHANGED otaVars
  BY <1>4, <1>5 DEF ReachNetwork, StartUsb, GateOpens, Reconnected, Refuse, Reject, GiveUp, otaVars
<1>6. CASE ConfirmRunningImage
  <2>1. CASE state' = state
    BY <1>4, <1>6, <2>1 DEF ConfirmRunningImage
  <2>2. CASE state[running] = "pending" /\ state' = [state EXCEPT ![running] = "valid"]
    <3>1. running = selected /\ running # None
      BY <1>0, <1>6, <2>2 DEF ConfirmRunningImage, IInv, SlotsSafe
    <3>2. /\ OnTrial /\ state[selected] = "pending" /\ state'[selected] = "valid"
          /\ UNCHANGED <<slot, selected, running>>
      BY <1>0, <1>6, <2>2, <3>1 DEF ConfirmRunningImage, OnTrial
    <3>3. ~OnTrial' /\ state'[selected'] # "pending"
      BY <3>2 DEF OnTrial
    <3>4. Content(selected)' = Content(selected) /\ Content(running)' = Content(running)
      BY <3>2 DEF Content, Intact
    <3>5. UpdateIsATrial!Confirm
      BY <1>1, <3>1, <3>2, <3>3, <3>4 DEF UpdateIsATrial!Confirm
    <3> QED
      BY <3>5 DEF UpdateIsATrial!TrialNext
  <2> QED
    BY <1>6, <2>1, <2>2 DEF ConfirmRunningImage
<1>7. ASSUME NEW f \in Files, NEW n \in 1..Chunks, Begin(f, n) PROVE Same
  <2>1. running = selected /\ ~OnTrial /\ UNCHANGED <<selected, state, running>>
    BY <1>0, <1>7 DEF Begin, Listening, IInv, SlotsSafe, OnTrial
  <2>2. slot'[selected] = slot[selected]
    BY <1>0, <1>7, <2>1 DEF Begin
  <2> QED
    BY <2>1, <2>2 DEF UpdateIsATrial!trialVars, Content, Intact, OnTrial
<1>8. ASSUME NEW short \in BOOLEAN, Receive(short) PROVE Same
  <2>1. running = selected /\ ~OnTrial /\ UNCHANGED <<selected, state, running>>
    BY <1>0, <1>8 DEF Receive, IInv, SlotsSafe
  <2>2. slot'[selected] = slot[selected]
    BY <1>0, <1>8, <2>1 DEF Receive, IInv, SlotsSafe
  <2> QED
    BY <2>1, <2>2 DEF UpdateIsATrial!trialVars, Content, Intact, OnTrial
<1>9. CASE Activate
  <2>1. /\ running = selected /\ ~OnTrial /\ job.to = 1 - selected /\ state[selected] # "pending"
        /\ UNCHANGED <<slot, running>> /\ selected' = 1 - selected /\ running # None
        /\ state'[selected'] = "new" /\ Intact(1 - selected)
    BY <1>0, <1>9 DEF Activate, Verified, IInv, SlotsSafe, OnTrial
  <2>2. OnTrial' /\ 1 - selected' = selected
    BY <1>0, <2>1 DEF OnTrial
  <2>3. /\ Content(1 - selected)' = Content(selected) /\ Content(running)' = Content(running)
        /\ Content(selected)' = Content(1 - selected) /\ Content(1 - selected) \in Firmware
    BY <1>0, <2>1, <2>2, WholeContent DEF Content, Intact
  <2>4. UpdateIsATrial!Install(Content(1 - selected))
    BY <2>1, <2>2, <2>3 DEF UpdateIsATrial!Install
  <2> QED
    BY <2>3, <2>4 DEF UpdateIsATrial!TrialNext
<1> QED
  BY <1>2, <1>3, <1>5, <1>6, <1>7, <1>8, <1>9 DEF OtaNext, AppMain, OtaUpload

-----------------------------------------------------------------------------

\* POST /api/update, confirmation, rollback: only complete, verified firmware
\* runs, a new one once before it is confirmed or given up.
THEOREM UpdateImplementsTrial == OtaSpec => Trials
<1>1. OtaInit => IInv
  BY InitInv
<1>2. IInv /\ [OtaNext]_otaVars => IInv'
  BY StepType, StepSafe DEF IInv
<1>3. OtaInit => UpdateIsATrial!TrialInit
  BY InitTrial
<1>4. IInv /\ IInv' /\ [OtaNext]_otaVars => [UpdateIsATrial!TrialNext]_UpdateIsATrial!trialVars
  BY StepTrial
<1> QED
  BY <1>1, <1>2, <1>3, <1>4, PTL DEF OtaSpec, Trials, UpdateIsATrial!TrialSpec

\* The same holds in a probe that takes uploads of its web interface, too.
THEOREM TrialsInProbe == Spec => Trials
<1>1. Init => OtaInit
  BY DEF Init
<1>2. [Next]_vars => [OtaNext]_otaVars
  BY DEF Next, vars, Boot, Crash, Restart, PowerCut, Down, UpdateHandler, UiHandler, Main, OtaNext
<1>3. Spec => OtaSpec
  BY <1>1, <1>2, PTL DEF Spec, OtaSpec
<1> QED
  BY <1>3, UpdateImplementsTrial

-----------------------------------------------------------------------------
(* The upload of the web interface. *)

\* What the task that uploads has done so far: every byte it took is in the
\* partition or in its buffer, and what it writes has passed the check.
UploadCounts ==
  /\ upload.at # "idle" =>
       /\ upload.file \in Bodies /\ upload.total \in Head..Size
       /\ upload.received = upload.written + upload.pending
       /\ upload.received <= upload.total
  /\ upload.at = "head" => upload.written = 0
  /\ upload.at = "body" => upload.file \in Sites \cup Torn

PartitionHolds ==
  upload.at = "body" => IF upload.written = 0 THEN part = Wiped
                        ELSE part = Holds(upload.file, upload.written)

\* The answer is about an upload that is over.
AnswerIsLast == reply.status = "ok" => upload.at = "idle"

UiInv ==
  /\ UiTypeOK
  /\ UploadCounts
  /\ PartitionHolds
  /\ AnswerIsLast
  /\ UploadAnswer

Partitions == [img : Sites \cup Torn \cup {Formatted, Blank}, have : 0..Size]
Jobs == [at : {"idle", "head", "body", "mount"}, file : Bodies \cup {Blank},
         total : 0..Size, received : 0..Size, pending : 0..Buffer,
         written : 0..Size, was : BOOLEAN]
Replies == [status : {"none", "ok", "error"}, file : Bodies \cup {Blank}, total : 0..Size]

LEMMA UiTypes ==
  UiTypeOK <=> part \in Partitions /\ mounted \in BOOLEAN /\ upload \in Jobs /\ reply \in Replies
BY DEF UiTypeOK, Partitions, Jobs, Replies

LEMMA UiConstants ==
  /\ Wiped \in Partitions /\ Empty \in Partitions /\ NoUpload \in Jobs /\ NoReply \in Replies
  /\ Wiped.have = 0 /\ Empty.have = 0 /\ NoUpload.at = "idle" /\ NoReply.status = "none"
BY AssetAssumption DEF Wiped, Empty, Holds, Partitions, NoUpload, Jobs, NoReply, Replies

LEMMA MinOfTwo ==
  ASSUME NEW a \in Int, NEW b \in Int
  PROVE  Min({a, b}) <= a /\ Min({a, b}) <= b /\ Min({a, b}) \in Int
<1>1. \E x \in {a, b} : \A y \in {a, b} : x <= y
  <2>1. CASE a <= b
    BY <2>1
  <2>2. CASE ~(a <= b)
    BY <2>2
  <2> QED
    BY <2>1, <2>2
<1>2. Min({a, b}) \in {a, b} /\ \A y \in {a, b} : Min({a, b}) <= y
  BY <1>1 DEF Min
<1> QED
  BY <1>2

LEMMA UiInitInv == UiInit => UiInv
<1> SUFFICES ASSUME UiInit PROVE UiInv
  OBVIOUS
<1>1. UiTypeOK
  BY UiConstants, UiTypes DEF UiInit
<1> QED
  BY <1>1, UiConstants DEF UiInit, UiInv, UploadCounts, PartitionHolds, AnswerIsLast,
    UploadAnswer

\* Mounting leaves a partition's image alone or formats it; a whole interface
\* stays, and is mounted.
LEMMA MountLeaves ==
  ASSUME NEW p \in Partitions, Mount(p)
  PROVE  /\ part' \in Partitions /\ mounted' \in BOOLEAN
         /\ Whole(p) => part' = p /\ mounted' = TRUE
<1>1. part' \in {p, Empty, Wiped} /\ mounted' \in BOOLEAN
  BY DEF Mount
<1>2. ASSUME Whole(p) PROVE part' = p /\ mounted' = TRUE
  <2>1. Mountable(p) = {TRUE}
    BY <1>2 DEF Mountable
  <2> QED
    BY <2>1 DEF Mount
<1> QED
  BY <1>1, <1>2, UiConstants

LEMMA RestoreLeaves ==
  ASSUME NEW p \in Partitions, NEW was \in BOOLEAN, Restore(was, p)
  PROVE  /\ part' \in Partitions /\ mounted' \in BOOLEAN
         /\ Whole(p) => part' = p
BY MountLeaves DEF Restore

LEMMA AnswerLeaves ==
  ASSUME UiInv, NEW st \in {"ok", "error"}, Answer(st)
  PROVE  /\ upload' \in Jobs /\ upload'.at = "idle"
         /\ reply' \in Replies /\ reply'.status = st
         /\ reply'.file = upload.file /\ reply'.total = upload.total
<1>1. upload \in Jobs
  BY UiTypes DEF UiInv
<1>2. upload' = NoUpload /\ reply' = [status |-> st, file |-> upload.file, total |-> upload.total]
  BY DEF Answer
<1>3. upload.file \in Bodies \cup {Blank} /\ upload.total \in 0..Size
  BY <1>1 DEF Jobs
<1> QED
  BY <1>2, <1>3, UiConstants DEF Replies

\* An upload that ends with an error leaves every part of the invariant true.
LEMMA ErrorKeeps ==
  ASSUME UiInv, Answer("error"), part' \in Partitions, mounted' \in BOOLEAN
  PROVE  UiInv'
<1>1. /\ upload' \in Jobs /\ upload'.at = "idle"
      /\ reply' \in Replies /\ reply'.status = "error"
  BY AnswerLeaves
<1>2. UiTypeOK'
  BY <1>1 DEF UiTypeOK, Jobs, Partitions, Replies
<1> QED
  BY <1>1, <1>2 DEF UiInv, UploadCounts, PartitionHolds, AnswerIsLast, UploadAnswer

LEMMA TakeKeeps ==
  ASSUME UiInv, NEW n \in 1..Buffer, n \in 1..Room, Take(n),
         upload.at \in {"head", "body"}, UNCHANGED <<part, mounted, reply>>
  PROVE  UiInv'
<1>1. upload \in Jobs /\ part \in Partitions /\ reply \in Replies /\ mounted \in BOOLEAN
  BY UiTypes DEF UiInv
<1>2. /\ upload.total \in 0..Size /\ upload.received \in 0..Size /\ upload.pending \in 0..Buffer
      /\ upload.written \in 0..Size /\ Size \in Nat /\ Buffer \in Nat
  BY <1>1, AssetAssumption DEF Jobs
<1>3. /\ upload.total - upload.received \in Int /\ Buffer - upload.pending \in Int
  BY <1>2
<1>4. Room <= upload.total - upload.received /\ Room <= Buffer - upload.pending /\ Room \in Int
  BY <1>3, MinOfTwo DEF Room
<1>5. n \in Nat /\ n <= upload.total - upload.received /\ n <= Buffer - upload.pending
  BY <1>3, <1>4
<1>6. upload' = [upload EXCEPT !.received = @ + n, !.pending = @ + n]
  BY DEF Take
<1>7. /\ upload'.received = upload.received + n /\ upload'.pending = upload.pending + n
      /\ upload'.at = upload.at /\ upload'.file = upload.file
      /\ upload'.total = upload.total /\ upload'.written = upload.written
  BY <1>1, <1>6 DEF Jobs
<1>8. upload.received + n \in 0..Size /\ upload.pending + n \in 0..Buffer
  BY <1>2, <1>5
<1>9. upload' \in Jobs
  BY <1>1, <1>6, <1>8 DEF Jobs
<1>10. UiTypeOK'
  BY <1>1, <1>9 DEF UiTypeOK, Jobs, Partitions, Replies
<1>11. UploadCounts'
  <2>1. upload.received = upload.written + upload.pending /\ upload.received <= upload.total
    BY DEF UiInv, UploadCounts
  <2>2. /\ upload.received + n = upload.written + (upload.pending + n)
        /\ upload.received + n <= upload.total
    BY <1>2, <1>5, <2>1
  <2> QED
    BY <1>7, <2>2 DEF UiInv, UploadCounts
<1>12. reply.status # "ok"
  BY DEF UiInv, AnswerIsLast
<1> QED
  BY <1>7, <1>10, <1>11, <1>12 DEF UiInv, PartitionHolds, AnswerIsLast, UploadAnswer

LEMMA OfferKeeps ==
  ASSUME UiInv, NEW f \in Bodies, NEW n \in Head..Size, Offer(f, n)
  PROVE  UiInv'
<1>1. upload \in Jobs /\ part \in Partitions /\ mounted \in BOOLEAN
  BY UiTypes DEF UiInv
<1>2. /\ upload' = [NoUpload EXCEPT !.at = "head", !.file = f, !.total = n]
      /\ reply' = NoReply /\ UNCHANGED <<part, mounted>>
  BY DEF Offer
<1>3. n \in 0..Size /\ 0 \in 0..Size /\ 0 \in 0..Buffer
  BY AssetAssumption
<1>4. /\ upload' \in Jobs
      /\ upload'.at = "head" /\ upload'.file = f /\ upload'.total = n
      /\ upload'.received = 0 /\ upload'.pending = 0 /\ upload'.written = 0
  BY <1>2, <1>3 DEF NoUpload, Jobs
<1>5. UiTypeOK'
  BY <1>1, <1>2, <1>4, UiConstants DEF UiTypeOK, Jobs, Partitions, Replies
<1>6. UploadCounts'
  BY <1>3, <1>4 DEF UploadCounts
<1>7. reply'.status = "none" /\ upload'.at = "head"
  BY <1>2, <1>4, UiConstants
<1> QED
  BY <1>5, <1>6, <1>7 DEF UiInv, PartitionHolds, AnswerIsLast, UploadAnswer

LEMMA EraseKeeps ==
  ASSUME UiInv, Erase
  PROVE  UiInv'
<1>1. upload \in Jobs /\ mounted \in BOOLEAN /\ reply \in Replies
  BY UiTypes DEF UiInv
<1>2. /\ upload.at = "head" /\ upload.file \notin Others
      /\ part' = Wiped /\ mounted' = FALSE /\ reply' = reply
      /\ upload' = [upload EXCEPT !.at = "body", !.was = mounted]
  BY DEF Erase, LooksLikeLittleFs
<1>3. /\ upload' \in Jobs
      /\ upload'.at = "body" /\ upload'.file = upload.file /\ upload'.total = upload.total
      /\ upload'.received = upload.received /\ upload'.pending = upload.pending
      /\ upload'.written = upload.written
  BY <1>1, <1>2 DEF Jobs
<1>4. UiTypeOK'
  BY <1>1, <1>2, <1>3, UiConstants DEF UiTypeOK, Jobs, Partitions, Replies
<1>5. UploadCounts'
  BY <1>2, <1>3 DEF UiInv, UploadCounts, Bodies
<1>6. upload'.written = 0 /\ reply'.status # "ok"
  BY <1>2, <1>3 DEF UiInv, UploadCounts, AnswerIsLast
<1> QED
  BY <1>2, <1>3, <1>4, <1>5, <1>6 DEF UiInv, PartitionHolds, AnswerIsLast, UploadAnswer

\* A chunk is written behind what is there already, and fits the partition.
LEMMA ChunkFits ==
  ASSUME UiInv, WriteChunk
  PROVE  /\ upload.written + upload.pending \in 1..Size
         /\ upload.written < Size
         /\ upload.file \in Sites \cup Torn
<1>1. upload \in Jobs
  BY UiTypes DEF UiInv
<1>2. /\ upload.received \in 0..Size /\ upload.pending \in Nat /\ upload.written \in Nat
      /\ Size \in Nat
  BY <1>1, AssetAssumption DEF Jobs
<1>3. upload.at = "body" /\ upload.pending > 0
  BY DEF WriteChunk
<1>4. upload.received = upload.written + upload.pending /\ upload.file \in Sites \cup Torn
  BY <1>3 DEF UiInv, UploadCounts
<1> QED
  BY <1>2, <1>3, <1>4

LEMMA WriteKeeps ==
  ASSUME UiInv, WriteChunk
  PROVE  UiInv'
<1>1. upload \in Jobs /\ mounted \in BOOLEAN /\ reply \in Replies
  BY UiTypes DEF UiInv
<1>2. /\ upload.at = "body" /\ UNCHANGED <<mounted, reply>>
      /\ part' = Holds(upload.file, upload.written + upload.pending)
      /\ upload' = [upload EXCEPT !.written = @ + upload.pending, !.pending = 0]
  BY DEF WriteChunk
<1>3. /\ upload.written + upload.pending \in 1..Size
      /\ upload.file \in Sites \cup Torn
  BY ChunkFits
<1>4. /\ upload.written + upload.pending \in 0..Size /\ 0 \in 0..Buffer
      /\ upload.written + upload.pending # 0
  BY <1>3, AssetAssumption
<1>5. part' \in Partitions
  BY <1>2, <1>3, <1>4 DEF Holds, Partitions
<1>6. /\ upload' \in Jobs
      /\ upload'.at = "body" /\ upload'.file = upload.file /\ upload'.total = upload.total
      /\ upload'.received = upload.received /\ upload'.pending = 0
      /\ upload'.written = upload.written + upload.pending
  BY <1>1, <1>2, <1>4 DEF Jobs
<1>7. UiTypeOK'
  BY <1>1, <1>2, <1>5, <1>6 DEF UiTypeOK, Jobs, Partitions, Replies
<1>8. UploadCounts'
  <2>1. /\ upload.received = upload.written + upload.pending /\ upload.received <= upload.total
        /\ upload.file \in Bodies /\ upload.total \in Head..Size
    BY <1>2 DEF UiInv, UploadCounts
  <2>2. upload.received = (upload.written + upload.pending) + 0
    BY <1>4, <2>1
  <2> QED
    BY <1>3, <1>6, <2>1, <2>2 DEF UploadCounts
<1>9. PartitionHolds'
  BY <1>2, <1>4, <1>6 DEF PartitionHolds, Holds
<1>10. reply.status # "ok"
  BY <1>2 DEF UiInv, AnswerIsLast
<1> QED
  BY <1>2, <1>7, <1>8, <1>9, <1>10 DEF UiInv, AnswerIsLast, UploadAnswer

\* After the last chunk the partition holds the file, all of it.
LEMMA RemountKeeps ==
  ASSUME UiInv, Remount
  PROVE  UiInv'
<1>1. upload \in Jobs /\ part \in Partitions
  BY UiTypes DEF UiInv
<1>2. /\ upload.at = "body" /\ upload.received = upload.total /\ upload.pending = 0
      /\ Mount(part) /\ Answer(IF mounted' THEN "ok" ELSE "error")
  BY DEF Remount, Complete
<1>3. part' \in Partitions /\ mounted' \in BOOLEAN /\ (Whole(part) => part' = part /\ mounted')
  BY <1>1, <1>2, MountLeaves
<1>4. /\ upload' \in Jobs /\ upload'.at = "idle" /\ reply' \in Replies
      /\ reply'.status = (IF mounted' THEN "ok" ELSE "error")
      /\ reply'.file = upload.file /\ reply'.total = upload.total
  <2>1. CASE mounted'
    BY <1>2, <2>1, AnswerLeaves
  <2>2. CASE ~mounted'
    BY <1>2, <2>2, AnswerLeaves
  <2> QED
    BY <2>1, <2>2
<1>5. UiTypeOK'
  BY <1>3, <1>4 DEF UiTypeOK, Jobs, Partitions, Replies
<1>6. ASSUME reply'.file \in Sites, reply'.total = Size PROVE Page' = reply'.file
  <2>1. /\ upload.received = upload.written + upload.pending /\ upload.total >= Head
    BY <1>2 DEF UiInv, UploadCounts
  <2>2. upload.written = Size /\ Size # 0
    BY <1>1, <1>2, <1>4, <1>6, <2>1, AssetAssumption DEF Jobs
  <2>3. part = Holds(upload.file, Size)
    BY <1>2, <2>2 DEF UiInv, PartitionHolds
  <2>4. Whole(part) /\ part.img = upload.file /\ part # Empty
    BY <1>4, <1>6, <2>2, <2>3, UiConstants DEF Holds, Whole
  <2>5. part' = part /\ mounted'
    BY <1>3, <2>4
  <2> QED
    BY <1>4, <2>4, <2>5 DEF Page, Whole
<1>7. UploadAnswer'
  BY <1>3, <1>4, <1>6 DEF UploadAnswer
<1> QED
  BY <1>4, <1>5, <1>7 DEF UiInv, UploadCounts, PartitionHolds, AnswerIsLast

LEMMA UiUploadStep == UiInv /\ UiUpload => UiInv'
<1> SUFFICES ASSUME UiInv, UiUpload PROVE UiInv'
  OBVIOUS
<1>0. upload \in Jobs /\ part \in Partitions /\ mounted \in BOOLEAN /\ upload.was \in BOOLEAN
  BY UiTypes DEF UiInv, Jobs
<1>1. ASSUME NEW f \in Bodies, NEW n \in Head..Size, Offer(f, n) PROVE UiInv'
  BY <1>1, OfferKeeps
<1>2. ASSUME NEW n \in 1..Buffer, FetchHead(n) PROVE UiInv'
  BY <1>2, TakeKeeps DEF FetchHead
<1>3. ASSUME NEW n \in 1..Buffer, FetchBody(n) PROVE UiInv'
  BY <1>3, TakeKeeps DEF FetchBody
<1>4. CASE Refused
  BY <1>0, <1>4, ErrorKeeps DEF Refused
<1>5. CASE Erase
  BY <1>5, EraseKeeps
<1>6. CASE EraseFails
  <2>1. PICK p \in {part, Wiped} : Restore(mounted, p)
    BY <1>6 DEF EraseFails
  <2>2. part' \in Partitions /\ mounted' \in BOOLEAN
    BY <1>0, <2>1, RestoreLeaves, UiConstants
  <2> QED
    BY <1>6, <2>2, ErrorKeeps DEF EraseFails
<1>7. CASE WriteChunk
  BY <1>7, WriteKeeps
<1>8. CASE WriteFails \/ Aborted
  <2>1. Answer("error") /\ Restore(upload.was, part)
    BY <1>8 DEF WriteFails, Aborted, Fail
  <2> QED
    BY <1>0, <2>1, RestoreLeaves, ErrorKeeps
<1>9. CASE Remount
  BY <1>9, RemountKeeps
<1> QED
  BY <1>1, <1>2, <1>3, <1>4, <1>5, <1>6, <1>7, <1>8, <1>9 DEF UiUpload

LEMMA UiInvStep == UiInv /\ [Next]_vars => UiInv'
<1> SUFFICES ASSUME UiInv, [Next]_vars PROVE UiInv'
  OBVIOUS
<1>0. part \in Partitions
  BY UiTypes DEF UiInv
<1>1. ASSUME part' \in Partitions, mounted' \in BOOLEAN, upload' = NoUpload, reply' = NoReply
      PROVE UiInv'
  <2>1. UiTypeOK'
    BY <1>1, UiConstants DEF UiTypeOK, Partitions, Jobs, Replies
  <2> QED
    BY <1>1, <2>1, UiConstants DEF UiInv, UploadCounts, PartitionHolds, AnswerIsLast,
      UploadAnswer
<1>2. CASE UiBoot
  BY <1>0, <1>1, <1>2, MountLeaves DEF UiBoot
<1>3. CASE UiOff
  BY <1>0, <1>1, <1>3 DEF UiOff
<1>4. CASE UiUpload
  BY <1>4, UiUploadStep
<1>5. CASE UNCHANGED uiVars
  BY <1>5 DEF uiVars, UiInv, UiTypeOK, UploadCounts, PartitionHolds, AnswerIsLast,
    UploadAnswer, Page, Whole
<1> QED
  BY <1>2, <1>3, <1>4, <1>5 DEF Next, vars, Boot, Crash, Restart, PowerCut, Down,
    UpdateHandler, UiHandler, Main

LEMMA UiInvAlways == Spec => []UiInv
<1>1. Init => UiInv
  BY UiInitInv DEF Init
<1> QED
  BY <1>1, UiInvStep, PTL DEF Spec

\* An upload of the interface answered "ok" is mounted, and a sound image
\* is then what the probe delivers, whenever the power failed and whatever was
\* uploaded before.
THEOREM UploadsKeepTheirWord == Spec => []UploadAnswer
<1>1. UiInv => UploadAnswer
  BY DEF UiInv
<1> QED
  BY <1>1, UiInvAlways, PTL

LEMMA HarmlessStep ==
  ASSUME UiInv, [Next]_vars, Whole(part), part' # part
  PROVE  upload.pending >= Head /\ upload.file \in Sites \cup Torn
<1>0. upload \in Jobs /\ part \in Partitions /\ upload.was \in BOOLEAN /\ mounted \in BOOLEAN
  BY UiTypes DEF UiInv, Jobs
<1>1. ~UiBoot /\ ~UiOff /\ ~(UNCHANGED uiVars) /\ ~Remount
  BY <1>0, MountLeaves DEF UiBoot, UiOff, uiVars, Remount
<1>2. ~WriteFails /\ ~Aborted
  BY <1>0, RestoreLeaves DEF WriteFails, Aborted, Fail
<1>3. ~WriteChunk
  <2> SUFFICES ASSUME WriteChunk PROVE FALSE
    OBVIOUS
  <2>1. upload.written < Size /\ upload.at = "body" /\ part.have = Size
    BY ChunkFits DEF WriteChunk, Whole
  <2>2. part.have = 0 \/ part.have = upload.written
    BY <2>1, UiConstants DEF UiInv, PartitionHolds, Holds
  <2>3. upload.written \in Nat /\ Size \in Nat
    BY <1>0, AssetAssumption DEF Jobs
  <2> QED
    BY <2>1, <2>2, <2>3, AssetAssumption
<1>4. UiUpload
  BY <1>1 DEF Next, vars, Boot, Crash, Restart, PowerCut, Down, UpdateHandler, UiHandler, Main
<1>5. Erase \/ EraseFails
  BY <1>1, <1>2, <1>3, <1>4 DEF UiUpload, Offer, FetchHead, FetchBody, Refused
<1>6. upload.at = "head" /\ upload.pending >= Head /\ upload.file \notin Others
  BY <1>5 DEF Erase, EraseFails, LooksLikeLittleFs
<1> QED
  BY <1>6 DEF UiInv, UploadCounts, Bodies

\* A whole interface is lost only to an upload whose beginning has passed the
\* check: no other file, no transfer that ends earlier, no start and no power
\* cut changes the partition.
THEOREM WholePageIsSafe == Spec => WrongFileHarmless
<1>1. UiInv /\ [Next]_vars =>
        [ Whole(part) /\ part' # part
            => upload.pending >= Head /\ upload.file \in Sites \cup Torn ]_uiVars
  BY HarmlessStep
<1> QED
  BY <1>1, UiInvAlways, PTL DEF Spec, WrongFileHarmless

\* handleUpload of the firmware and of the interface, the bootloader and the
\* power: no slot, partition or upload ever holds more than fits into it, and
\* every state of a slot is one the bootloader knows (TypeOK, UiTypeOK).
THEOREM UploadTypes == Spec => [](TypeOK /\ UiTypeOK)
<1>1. Init => IInv
  BY InitInv DEF Init
<1>2. IInv /\ [Next]_vars => IInv'
  <2> SUFFICES ASSUME IInv, [Next]_vars PROVE IInv'
    OBVIOUS
  <2>1. [OtaNext]_otaVars
    BY DEF Next, vars, Boot, Crash, Restart, PowerCut, Down, UpdateHandler, UiHandler, Main, OtaNext
  <2> QED
    BY <2>1, StepType, StepSafe DEF IInv
<1>3. IInv /\ UiInv => TypeOK /\ UiTypeOK
  BY DEF IInv, UiInv
<1> QED
  BY <1>1, <1>2, <1>3, UiInvAlways, PTL DEF Spec

=============================================================================
