---------------------------- MODULE MCFanMailbox ----------------------------
(* Small instances of FanMailbox for TLC.                                  *)
EXTENDS FanMailbox, TLC

CONSTANTS c1, c2

Symmetry == Permutations(Clients)
=============================================================================
