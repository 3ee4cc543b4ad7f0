----------------------------- MODULE MCNetwork ------------------------------
(* The firmware and subsystem 2 for TLC.                                   *)
EXTENDS Network, MCFirmware
=============================================================================
