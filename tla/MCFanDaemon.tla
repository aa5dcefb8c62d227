----------------------------- MODULE MCFanDaemon -----------------------------
(* Small instances of FanDaemon for TLC.                                   *)
EXTENDS FanDaemon

C(name, value) == [name |-> name, value |-> value]

\* A process that stops goes down with what a killed one leaves, and the mode
\* also starts at 1: "stop" and "setmode 0" are left to the other instances.
MCCommands == {C("setmode", 1), C("setfreq", 15)}
MCNoSetMode == {C("setfreq", 12), C("setfreq", -3), C("getfreq", 0),
                C("stop", 0)}
MCSetModeOnly == {C("setmode", 0), C("setmode", 1)}
MCAutoFreqs == {2}
=============================================================================
