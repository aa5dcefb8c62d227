---------------------------- MODULE MCLedBlinker ----------------------------
(* A small instance of LedBlinker for TLC: the period 5 ms at the start is  *)
(* off the grid of steps, as 250 ms is; 0 and -1 ms are given too.          *)
EXTENDS LedBlinker

MCPeriods == {-1, 0, 1, 12}
MCDuties == {-1, 0, 1, 2, 3, 4, 5}
=============================================================================
