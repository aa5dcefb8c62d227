----------------------------- MODULE MCFanDriver -----------------------------
(* Small instances of FanDriver for TLC.                                   *)
EXTENDS FanDriver

CONSTANTS r1

\* One temperature on each side of a threshold of the regulation.
MCTemps == {34999, 35000}

\* Zero, and a long whose low bits are the int -3.
MCFreqWrites == {0, 4093}

MCOneWrite == {7}
MCModeWrites == {0, 4}
=============================================================================
