------------------------------- MODULE Flash -------------------------------
(***************************************************************************)
(* Flashing a target and what the lamp says of it: the handlers of          *)
(* /api/flash, /api/ch32 and what lies under it, /api/reset of a CH32V003,    *)
(* /api/led and /api/battery/calibrate share                                 *)
(* the httpd task, while the lamp's supervisor, its render task and the      *)
(* gauge run on their own and only meet it in m_mode, m_level and m_reopen.  *)
(***************************************************************************)
EXTENDS Uf2Flasher, B003Link, StatusLed, BatteryMonitor

CONSTANTS Calls  \* the mixes of requests and readings: [uf2, ch32, led, trim, cell]

VARIABLES left   \* bound: the requests and readings that are still to come

vars == <<uf2Vars, chipVars, ledVars, batVars, left>>

Init == /\ Uf2Init /\ ChipInit /\ LedInit /\ BatInit
        /\ left \in Calls

TypeOK == Uf2TypeOK /\ ChipTypeOK /\ LedTypeOK /\ BatTypeOK

\* A target of either kind comes only where a request to it is in the mix.
Wanted(r) == left[r] > 0 \/ (r = "uf2" /\ job.at # "idle")

HttpdIdle == job.at = "idle" /\ link.at = "idle" /\ ledReq.at = "idle"
Takes(r) == HttpdIdle /\ left[r] > 0 /\ left' = [left EXCEPT ![r] = @ - 1]

EmptyCell == level \in {"Low", "Critical"}

-----------------------------------------------------------------------------
(* The httpd task. *)

Uf2Arrives == Takes("uf2") /\ Request /\ UNCHANGED <<chipVars, ledVars, batVars>>

Ch32Arrives == Takes("ch32") /\ Ch32Request /\ UNCHANGED <<uf2Vars, ledVars, batVars>>

LedArrives == Takes("led") /\ SetPin /\ UNCHANGED <<uf2Vars, chipVars, batVars>>

TrimArrives == Takes("trim") /\ Calibrate /\ UNCHANGED <<uf2Vars, chipVars, ledVars>>

Uf2Goes == HandleFlash /\ UNCHANGED <<chipVars, ledVars, batVars, left>>

\* FlashingIndicator lives from here to the handler's return, whichever.
Indicate   == Warn /\ SetMode("Flashing") /\ UNCHANGED <<chipVars, batVars, left>>

\* A handler that forgets the lamp on its way out.
NotIndicated == Unwarn /\ UNCHANGED <<ledVars, chipVars, batVars, left>>

Indicated  == Unwarn /\ SetMode("Idle") /\ UNCHANGED <<chipVars, batVars, left>>

Ch32Goes == HandleCh32 /\ UNCHANGED <<uf2Vars, ledVars, batVars, left>>

LedGoes == (AskReopen \/ Answered) /\ UNCHANGED <<uf2Vars, chipVars, batVars, left>>

Httpd == Uf2Goes \/ Indicate \/ Indicated \/ Ch32Goes \/ LedGoes

(* The other tasks and the world. *)

Supervisor == /\ Look(EmptyCell) \/ Show
              /\ UNCHANGED <<uf2Vars, chipVars, batVars, left>>

Renderer == Render /\ UNCHANGED <<uf2Vars, chipVars, batVars, left>>

Gauge == /\ Measure
         /\ left.cell > 0 /\ left' = [left EXCEPT !.cell = @ - 1]
         /\ UNCHANGED <<uf2Vars, chipVars, ledVars>>

Targets == \/ /\ Pull \/ Session \/ Jumps \/ (Wanted("uf2") /\ Plug)
              /\ UNCHANGED <<chipVars, ledVars, batVars, left>>
           \/ /\ Leave \/ (Wanted("ch32") /\ Arrive)
              /\ UNCHANGED <<uf2Vars, ledVars, batVars, left>>

Next == \/ Uf2Arrives \/ Ch32Arrives \/ LedArrives \/ TrimArrives
        \/ Httpd \/ Supervisor \/ Renderer \/ Gauge \/ Targets

\* Every task goes on; a client that has begun sends or breaks off, and the
\* waits of the flashing handlers all end.
Fairness == /\ WF_vars(Httpd)
            /\ WF_vars(Supervisor)
            /\ WF_vars(Renderer)

Spec == Init /\ [][Next]_vars /\ Fairness

-----------------------------------------------------------------------------
\* main.cpp:853-859, README.md:119-124: a cell that stays empty is shown, and stays
\* shown, once no target is being flashed any more -- whatever mode the
\* supervisor was about to show when the cell ran down, and on whichever way
\* out the handler left.
LowBatteryShows ==
  <>[](EmptyCell /\ job.at = "idle") => <>[](mode = "BatteryLow")

\* main.cpp:837-838, README.md:119 "flashing beats everything" -- violated: the
\* supervisor looks, the flash begins, and the supervisor shows what it saw.
FlashingWins == job.at = "write" => mode = "Flashing"
=============================================================================
