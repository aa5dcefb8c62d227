------------------------------ MODULE DutyCycle ------------------------------
(***************************************************************************)
(* What environment/Ex5_1_sysfs_gpio promises of its LED: once started, it *)
(* goes through cycles of Cycle ticks and is lit in the first `duty' of    *)
(* them.  Nothing is promised of a duty outside 1 .. Cycle - 1.            *)
(***************************************************************************)
EXTENDS Naturals

CONSTANT Cycle   \* ticks in a cycle

VARIABLES duty, started, phase, lit
vars == <<duty, started, phase, lit>>

Meaningful == duty \in 1..(Cycle - 1)

Init == Meaningful => ~started /\ phase = 0

Start == /\ ~started /\ started'
         /\ lit'
         /\ UNCHANGED <<duty, phase>>

Tick == /\ started /\ started'
        /\ phase' = (phase + 1) % Cycle
        /\ lit' = (phase' < duty)
        /\ UNCHANGED duty

Next == \/ Start
        \/ Tick
        \/ ~Meaningful /\ UNCHANGED duty

Spec == Init /\ [][Next]_vars
=============================================================================
