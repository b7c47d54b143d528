------------------------------- MODULE Trial -------------------------------
(***************************************************************************)
(* What the A/B update promises, without slots, uploads or boot loader: a  *)
(* known good firmware, at most one new firmware that gets a single run to *)
(* prove itself, and nothing else that ever runs.                          *)
(***************************************************************************)
CONSTANTS Firmware, None

VARIABLES known,   \* the firmware the probe falls back to
          trying,  \* the firmware on trial, or None
          tried,   \* has it had its one run
          up       \* the firmware that runs, None while the probe is down

trialVars == <<known, trying, tried, up>>

TrialInit == /\ known \in Firmware
             /\ trying = None
             /\ tried = FALSE
             /\ up = None

\* A complete image has been taken; the probe still runs the known one.
Install(f) == /\ up = known /\ trying = None
              /\ trying' = f
              /\ tried' = FALSE
              /\ UNCHANGED <<known, up>>

\* The only run a firmware gets before it is confirmed.
StartNew == /\ up = None /\ trying # None /\ ~tried
            /\ up' = trying
            /\ tried' = TRUE
            /\ UNCHANGED <<known, trying>>

\* Every other start runs the known firmware and ends a trial that failed.
StartKnown == /\ up = None /\ (trying # None => tried)
              /\ up' = known
              /\ trying' = None
              /\ tried' = FALSE
              /\ UNCHANGED known

Confirm == /\ trying # None /\ tried /\ up = trying
           /\ known' = trying
           /\ trying' = None
           /\ tried' = FALSE
           /\ UNCHANGED up

Stop == /\ up # None
        /\ up' = None
        /\ UNCHANGED <<known, trying, tried>>

TrialNext == \/ \E f \in Firmware : Install(f)
             \/ StartNew \/ StartKnown \/ Confirm \/ Stop

TrialSpec == TrialInit /\ [][TrialNext]_trialVars
=============================================================================
