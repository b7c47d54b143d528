------------------------------ MODULE MCClaim ------------------------------
(* Instance of Claim, and with it of CtrlWait, for TLC. *)
EXTENDS Claim
CONSTANTS c1, c2
TwoCalls   == {c1, c2}
BothKinds  == AllKinds
=============================================================================
