--------------------------- MODULE FrequencyLadder ---------------------------
(***************************************************************************)
(* The steps the keys K1 and K2 take in manual mode: increment_freq and    *)
(* decrement_freq of Projet/daemon/daemon.c.                               *)
(***************************************************************************)
EXTENDS Integers

Increment(f) ==
    f + (IF f < 10 THEN 1
         ELSE IF f < 30 THEN 5
         ELSE IF f < 100 THEN 10
         ELSE 50)

\* Variant of Decrement: the steps of one are forgotten.
DecrementByFive(f) ==
    f - (IF f > 100 THEN 50
         ELSE IF f > 30 THEN 10
         ELSE IF f > 0 THEN 5
         ELSE 0)

Decrement(f) ==
    f - (IF f > 100 THEN 50
         ELSE IF f > 30 THEN 10
         ELSE IF f > 10 THEN 5
         ELSE IF f > 0 THEN 1
         ELSE 0)

\* The frequencies the keys reach from 0.
Rungs == (0..10) \cup {15, 20, 25} \cup {10 * n : n \in 3..10}
         \cup {f \in Nat : f >= 100 /\ f % 50 = 0}
=============================================================================
