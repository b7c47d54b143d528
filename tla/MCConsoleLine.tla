--------------------------- MODULE MCConsoleLine ---------------------------
(* Instances of ConsoleLine for TLC: with and without an RFC2217 client.   *)
(* The client's rate is the one foreign rate that makes the target jump    *)
(* to BOOTSEL, too; LineProofs is about every rate.                        *)
EXTENDS ConsoleLine
NoBauds     == {}
TouchBauds  == {1200}
OnlyDefault == {"8N1"}
TwoFramings == {"8N1", "8E1"}
=============================================================================
