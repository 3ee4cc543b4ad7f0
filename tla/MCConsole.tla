----------------------------- MODULE MCConsole ------------------------------
(* The console for TLC: both handlers, texts of three characters.          *)
EXTENDS Console

BothHandlers == {"tc", "can"}

=============================================================================
