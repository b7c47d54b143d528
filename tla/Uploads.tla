------------------------------ MODULE Uploads ------------------------------
(***************************************************************************)
(* The two uploads to the probe itself in one probe: OtaUpdater and        *)
(* AssetStore share the httpd task, which runs one handler at a time, and   *)
(* the power, which can fail between any two steps.                        *)
(***************************************************************************)
EXTENDS OtaUpdater, AssetStore

vars == <<otaVars, uiVars>>

Init == OtaInit /\ UiInit

\* assets.mount() runs before anything can be uploaded.
Boot == OtaBoot /\ UiBoot

Down == OtaOff /\ UiOff

Crash == Crashes /\ Down

Restart == job.at = "restart" /\ Down

PowerCut == Down

UpdateHandler == upload.at = "idle" /\ OtaUpload /\ UNCHANGED uiVars

\* The portal has no route for the interface.
UiHandler == /\ job.at = "idle" /\ Listening
             /\ upload.at = "idle" => net # "portal"
             /\ UiUpload
             /\ UNCHANGED otaVars

Main == AppMain /\ UNCHANGED uiVars

Next == Boot \/ Crash \/ Restart \/ PowerCut \/ UpdateHandler \/ UiHandler \/ Main

\* The boot loader runs, a broken image does crash, a taken update does
\* restart the probe, app_main goes on; and infinitely often the power stays
\* up long enough to come to the network.
Fairness == /\ WF_vars(Boot)
            /\ WF_vars(Crash)
            /\ WF_vars(Restart)
            /\ SF_vars(ReachNetwork /\ UNCHANGED uiVars)

Spec == Init /\ [][Next]_vars /\ Fairness

\* Whatever has been uploaded and whenever the power failed: the probe comes
\* back to where the next update can be sent to it.
Reachable == []<>Listening

-----------------------------------------------------------------------------
\* main.cpp:9 "deshalb wird das Image erst NACH dem USB-Start bestaetigt" --
\* violated: without the network the USB host starts after the confirmation.
ConfirmedAfterUsb ==
    [][ \A s \in Slots : state[s] = "pending" /\ state'[s] = "valid" => usb ]_vars

\* docs/protocol.md:107: on a 400 "nothing was written" -- violated: the slot
\* is erased before the header is looked at.
NothingWritten ==
    [][ job.at = "receive" /\ job.got = 0 /\ job' = Idle /\ phase' # "off"
          => slot[job.to] # Erased ]_vars
=============================================================================
