---------------------------- MODULE FanAttributes ----------------------------
(***************************************************************************)
(* What the kernel module fan_pwm_driver.c promises to whoever uses its    *)
(* attributes mode and freq.  The timer's callback regulates the frequency *)
(* in automatic mode; it tests the mode first and writes the frequency     *)
(* later, so that one regulation, and no more, may still come after manual *)
(* mode and a frequency of the user's have been written.                   *)
(***************************************************************************)
EXTENDS Integers

CONSTANTS
    Table,      \* the frequencies of the regulation
    Numbers     \* the numbers, as int, users write to freq

VARIABLES
    mode,       \* 0 automatic, 1 manual
    freq,
    deciding    \* a regulation has found automatic mode and not yet ended

vars == <<mode, freq, deciding>>

Fresh == mode = 0 /\ freq = 2
Init == Fresh /\ ~deciding

\* insmod
Reload == ~deciding /\ Fresh' /\ UNCHANGED deciding

StoreMode(m) == mode' = m /\ UNCHANGED <<freq, deciding>>
StoreFreq(f) == freq' = f /\ UNCHANGED <<mode, deciding>>

Decide == mode = 0 /\ ~deciding /\ deciding' = TRUE /\ UNCHANGED <<mode, freq>>

Regulate == deciding /\ deciding' = FALSE /\ freq' \in Table /\ UNCHANGED mode

\* The sensor failed, or the module went away first.
GiveUp == deciding /\ deciding' = FALSE /\ UNCHANGED <<mode, freq>>

\* What the driver does by itself while it stays loaded.
Regulation == Decide \/ Regulate \/ GiveUp

Next == \/ Reload \/ Regulation
        \/ \E m \in {0, 1} : StoreMode(m)
        \/ \E f \in Numbers : StoreFreq(f)

Spec == Init /\ [][Next]_vars
=============================================================================
