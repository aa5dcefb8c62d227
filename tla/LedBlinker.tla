----------------------------- MODULE LedBlinker -----------------------------
(***************************************************************************)
(* environment/Ex5_1_sysfs_gpio/main.c: a LED that is blinked in software  *)
(* by a periodic timer, with Cycle ticks to a period; K1 and K3 make the   *)
(* period longer and shorter, K2 sets it back.                             *)
(*                                                                         *)
(* One thread: it opens the LED and the keys, arms the timer, and handles  *)
(* what epoll reports.  setupTimeTimer arms the timer at the time it is    *)
(* now, so an armed timer has expired at once; expirations that were not   *)
(* read in time count for one.                                             *)
(***************************************************************************)
EXTENDS Integers, FiniteSets

CONSTANTS
    Cycle,       \* ticks in a period (100)
    StepMs,      \* what K1 adds and K3 takes away (100)
    MinMs,       \* K3 takes away above it (100)
    MaxMs,       \* K1 adds below it (60000, "max 1 min")
    DefaultMs,   \* the period at the start and after K2 (250)
    Periods,     \* the periods given as first argument
    Duties,      \* the duty cycles given as second argument
    MaxPresses   \* bound: key presses

ASSUME CycleAssumption == Cycle \in Nat /\ Cycle > 1
ASSUME PeriodAssumption ==
    /\ StepMs \in Nat \ {0} /\ MinMs \in Nat /\ MinMs >= StepMs
    /\ MaxMs \in Nat /\ DefaultMs \in 1..MaxMs
ASSUME ArgumentAssumption == Periods \subseteq Int /\ Duties \subseteq Int
ASSUME BoundAssumption == MaxPresses \in Nat

Keys == {"k1", "k2", "k3"}

VARIABLES
    pc,        \* where main is
    ms,        \* periodTimerMs
    duty,      \* my_data.duty
    count,     \* ticks of this period (static in handleTimer_1)
    k,         \* the static variable of toggleLed
    led,       \* the value of the GPIO
    timer,     \* the timer's descriptor
    edge,      \* per key, whether epoll reports it
    batch,     \* events[] not handled yet
    presses

vars == <<pc, ms, duty, count, k, led, timer, edge, batch, presses>>

Loop == {"wait", "batch", "tick"}

\* One argument, two, or none.
Init ==
    /\ pc = "led"
    /\ ms \in Periods \cup {DefaultMs} /\ duty \in Duties \cup {Cycle \div 2}
    /\ count = 0 /\ k = 0 /\ led \in 0..1 /\ timer = "off"
    /\ edge = [key \in Keys |-> FALSE] /\ batch = {} /\ presses = 0

\* toggleLed
Toggled == /\ k' = (k + 1) % 2
           /\ led' = IF k' = 0 THEN 1 ELSE 0

\* Variant of Arm: the first expiration is left at 0, which disarms the timer.
ArmNever(p) == timer' = IF p < 0 THEN "closed" ELSE "off"

\* setupTimeTimer with the period p: expired at once, and after that never
\* again if p is 0; a negative period is refused and the timer closed.
Arm(p) == timer' = IF p < 0 THEN "closed" ELSE "expired"

OpenLed ==
    /\ pc = "led"
    /\ led' = 1 /\ pc' = "keys"
    /\ UNCHANGED <<ms, duty, count, k, timer, edge, batch, presses>>

\* open_gpio ends with a read from the start, which clears earlier edges.
OpenKeys ==
    /\ pc = "keys"
    /\ edge' = [key \in Keys |-> FALSE] /\ pc' = "timer"
    /\ UNCHANGED <<ms, duty, count, k, led, timer, batch, presses>>

SetupTimer ==
    /\ pc = "timer"
    /\ Arm(ms)
    /\ pc' = IF timer' = "closed" THEN "exited" ELSE "epoll"
    /\ UNCHANGED <<ms, duty, count, k, led, edge, batch, presses>>

\* epoll_create1 and epoll_ctl; if one fails, main closes the timer and returns.
AddEvents ==
    /\ pc = "epoll"
    /\ \/ pc' = "wait" /\ UNCHANGED timer
       \/ pc' = "exited" /\ timer' = "closed"
    /\ UNCHANGED <<ms, duty, count, k, led, edge, batch, presses>>

-----------------------------------------------------------------------------
Ready == {key \in Keys : edge[key]}
         \cup IF timer = "expired" THEN {"timer"} ELSE {}

\* events[] has room for all four descriptors.
EpollWait ==
    /\ pc = "wait" /\ Ready # {}
    /\ batch' = Ready /\ pc' = "batch"
    /\ UNCHANGED <<ms, duty, count, k, led, timer, edge, presses>>

BatchDone ==
    /\ pc = "batch" /\ batch = {}
    /\ pc' = "wait"
    /\ UNCHANGED <<ms, duty, count, k, led, timer, edge, batch, presses>>

\* Variant of Tick: the LED is toggled from duty on.
TickFromDuty ==
    /\ pc = "batch" /\ "timer" \in batch /\ timer = "expired"
    /\ timer' = IF ms = 0 THEN "spent" ELSE "armed"
    /\ count' = count + 1
    /\ IF count' >= duty THEN Toggled ELSE UNCHANGED <<k, led>>
    /\ batch' = batch \ {"timer"} /\ pc' = "tick"
    /\ UNCHANGED <<ms, duty, edge, presses>>

\* handleTimer_1, first half.  read returns the number of expirations, which
\* is not used.
Tick ==
    /\ pc = "batch" /\ "timer" \in batch /\ timer = "expired"
    /\ timer' = IF ms = 0 THEN "spent" ELSE "armed"
    /\ count' = count + 1
    /\ IF count' = duty THEN Toggled ELSE UNCHANGED <<k, led>>
    /\ batch' = batch \ {"timer"} /\ pc' = "tick"
    /\ UNCHANGED <<ms, duty, edge, presses>>

\* Variants of TickEnd: the period has one tick more; a tick toggles once
\* at most.
TickEndLate ==
    /\ pc = "tick" /\ pc' = "batch"
    /\ IF count > Cycle
       THEN Toggled /\ count' = 0
       ELSE UNCHANGED <<k, led, count>>
    /\ UNCHANGED <<ms, duty, timer, edge, batch, presses>>

TickEndElse ==
    /\ pc = "tick" /\ pc' = "batch"
    /\ IF count >= Cycle
       THEN /\ count' = 0
            /\ IF count = duty THEN UNCHANGED <<k, led>> ELSE Toggled
       ELSE UNCHANGED <<k, led, count>>
    /\ UNCHANGED <<ms, duty, timer, edge, batch, presses>>

\* handleTimer_1, second half: the end of a period toggles whatever duty is.
TickEnd ==
    /\ pc = "tick" /\ pc' = "batch"
    /\ IF count >= Cycle
       THEN Toggled /\ count' = 0
       ELSE UNCHANGED <<k, led, count>>
    /\ UNCHANGED <<ms, duty, timer, edge, batch, presses>>

\* The beginning of each key's handler.  It reads on from where the last read
\* ended; whether a read at the end of the attribute takes the edge back is
\* left to the kernel.
Handle(key) ==
    /\ pc = "batch" /\ key \in batch
    /\ batch' = batch \ {key}
    /\ edge' \in {edge, [edge EXCEPT ![key] = FALSE]}
    /\ UNCHANGED <<pc, duty, count, k, led, presses>>

HandleK1 == /\ Handle("k1")
            /\ ms' = IF ms < MaxMs THEN ms + StepMs ELSE ms
            /\ Arm(ms')

HandleK2 == Handle("k2") /\ ms' = DefaultMs /\ Arm(ms')

\* Variant of HandleK3: no lower limit.
HandleK3Unlimited == Handle("k3") /\ ms' = ms - StepMs /\ Arm(ms')

HandleK3 == /\ Handle("k3")
            /\ ms' = IF ms > MinMs THEN ms - StepMs ELSE ms
            /\ Arm(ms')

-----------------------------------------------------------------------------
Expire == /\ timer = "armed" /\ timer' = "expired"
          /\ UNCHANGED <<pc, ms, duty, count, k, led, edge, batch, presses>>

Press(key) ==
    /\ presses < MaxPresses
    /\ presses' = presses + 1 /\ edge' = [edge EXCEPT ![key] = TRUE]
    /\ UNCHANGED <<pc, ms, duty, count, k, led, timer, batch>>

Main == \/ OpenLed \/ OpenKeys \/ SetupTimer \/ AddEvents
        \/ EpollWait \/ Tick \/ TickEnd \/ HandleK1 \/ HandleK2 \/ HandleK3
        \/ BatchDone

Next == Main \/ Expire \/ \E key \in Keys : Press(key)

\* The program goes on unless epoll_wait has nothing for it, and a periodic
\* timer expires; nobody has to press a key.
Spec == Init /\ [][Next]_vars /\ WF_vars(Main) /\ WF_vars(Expire)

-----------------------------------------------------------------------------
\* Every variable keeps to its values; in particular the ticks to the period.
TypeOK ==
    /\ pc \in {"led", "keys", "timer", "epoll", "exited"} \cup Loop
    /\ ms \in Int /\ duty \in Int
    /\ count \in 0..Cycle
    /\ k \in 0..1 /\ led \in 0..1
    /\ timer \in {"off", "armed", "expired", "spent", "closed"}
    /\ edge \in [Keys -> BOOLEAN] /\ batch \subseteq Keys \cup {"timer"}
    /\ presses \in 0..MaxPresses

\* No key makes the period zero or negative, which would stop the LED or close
\* the timer, whatever period the program was given; and none makes it longer
\* than the maximum by a whole step.
PeriodKept ==
    [][ms' # ms => ms' >= 1 /\ (ms' > ms => ms' < MaxMs + StepMs)]_vars

\* With a duty cycle of 100 % the two toggles of a tick cancel out: the LED is
\* lit whenever the handler has ended.
FullDutyLit == duty = Cycle /\ pc \in {"wait", "batch"} => led = 1

\* A LED that is to blink does: with a meaningful duty cycle and a period it
\* neither stays lit nor dark, however often keys rearm the timer.
Blinking == pc \in Loop /\ duty \in 1..(Cycle - 1) /\ ms > 0
Blinks == \A v \in 0..1 : Blinking /\ led = v ~> led # v

\* The LED follows the duty cycle it was given: lit in the first duty ticks of
\* each cycle, dark in the others, changing once in a tick.
Promise == INSTANCE DutyCycle WITH
               started <- pc # "led",
               phase   <- IF count = Cycle THEN Cycle - 1 ELSE count,
               lit     <- led = 1
KeepsPromise == Promise!Spec
=============================================================================
