------------------------------ MODULE MCTicker ------------------------------
(* The ticker for TLC: a counter of three bits, and the board's real one.  *)
EXTENDS Ticker

\* 2 counts per millisecond and a counter to 7: 1, 2 and 3 ms are valid, 0 and 5
\* are not.
MCPeriods == {0, 1, 2, 3, 5}
AllCalls  == {"stop", "start", "kick", "update", "disable", "enable"}

=============================================================================
