------------------------ MODULE FrequencyLadderProofs ------------------------
(* What the keys can and cannot do to the frequency, for every value.      *)
EXTENDS FrequencyLadder, TLAPS

\* K2 never takes a non-negative frequency below zero, and a rung stays a
\* rung: the keys alone never ask the driver for a negative frequency.
THEOREM NeverNegative == \A f \in Nat : Decrement(f) \in Nat /\ Increment(f) \in Nat
BY DEF Decrement, Increment

\* On the ladder K2 undoes K1, and K1 undoes K2 above zero.
THEOREM Inverse ==
  \A f \in Rungs : /\ Decrement(Increment(f)) = f
                   /\ f > 0 => Increment(Decrement(f)) = f
BY DEF Decrement, Increment, Rungs

\* The keys stay on the ladder.
THEOREM RungsClosed ==
  \A f \in Rungs : Increment(f) \in Rungs /\ Decrement(f) \in Rungs
  <1> TAKE f \in Rungs
  <1>1. CASE f \in (0..10) \cup {15, 20, 25} \cup {10 * n : n \in 3..9}
    BY <1>1 DEF Decrement, Increment, Rungs
  <1>2. CASE f \in Nat /\ f >= 100 /\ f % 50 = 0
    <2>1. Increment(f) = f + 50 /\ (f + 50) % 50 = 0
      BY <1>2 DEF Increment
    <2>2. Increment(f) \in Rungs
      BY <1>2, <2>1 DEF Rungs
    <2>3. CASE f = 100
      BY <2>2, <2>3 DEF Decrement, Rungs
    <2>4. CASE f > 100
      <3>1. f - 50 >= 100 /\ (f - 50) % 50 = 0
        BY <1>2, <2>4
      <3>2. Decrement(f) = f - 50
        BY <2>4 DEF Decrement
      <3> QED BY <1>2, <2>2, <3>1, <3>2 DEF Rungs
    <2> QED BY <1>2, <2>3, <2>4
  <1> QED BY <1>1, <1>2 DEF Rungs
=============================================================================
