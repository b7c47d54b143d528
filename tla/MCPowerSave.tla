---------------------------- MODULE MCPowerSave ----------------------------
(* Instance of PowerSave for TLC: the two servers of the firmware and a third. *)
EXTENDS PowerSave
CONSTANTS console, rfc2217, extra
ThreeServers == {console, rfc2217, extra}
OnlyConsole  == {console}
=============================================================================
