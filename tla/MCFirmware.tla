----------------------------- MODULE MCFirmware -----------------------------
(* The firmware for TLC: the whole command list, small sets of keys.       *)
EXTENDS Firmware

MCIds  == {"self"}
MCData == {"d1"}

MCMessages == [to : Subsystems, op : Switches \cup Gets]
MCRequests == {ResponseFilter}
MCCmdIds   == 1 .. 8

NoFrames == {}

=============================================================================
