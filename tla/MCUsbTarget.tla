---------------------------- MODULE MCUsbTarget ----------------------------
(* Instance of UsbTarget for TLC: a target that changes between its modes. *)
EXTENDS UsbTarget
PicoKinds  == {"Cdc", "Bootsel"}
ManyKinds  == {"SerialBridge", "Bootsel", "Msc", "Unsupported"}
OneAddress == {1}
TwoAddresses == {1, 2}
=============================================================================
