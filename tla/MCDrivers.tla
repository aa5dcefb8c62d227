------------------------------ MODULE MCDrivers ------------------------------
(* A small instance of Drivers for TLC: a buffer of three bytes, a message  *)
(* that fills it, and the children of ex6_dtb/mydtb.dts.                    *)
EXTENDS Drivers, TLC

CONSTANTS u1, u2

MCLength == [m \in {"a", "bb", "ccc"} |->
               CASE m = "a" -> 1 [] m = "bb" -> 2 [] m = "ccc" -> 3]
MCChildren == <<"on", "on", "off">>
Symmetry == Permutations(Users)
=============================================================================
