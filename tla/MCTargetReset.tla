--------------------------- MODULE MCTargetReset ---------------------------
(* Instance of TargetReset, and with it of UsbTarget, for TLC: targets that *)
(* change between their modes, or are exchanged for another.                *)
EXTENDS TargetReset
FourMixes    == {{"Cdc", "Bootsel"}, {"SerialBridge", "EspCdc"},
                 {"OtherCdc", "Msc"}, {"Hid", "HidBootloader"}}
ManyKinds    == UNION FourMixes
TwoAddresses  == {1, 2}
=============================================================================
