-------------------------- MODULE LedBlinkerProofs --------------------------
(***************************************************************************)
(* The blinker implements the abstract duty cycle, for every number of     *)
(* ticks, every period and every duty cycle it may be given.               *)
(*                                                                         *)
(* PhaseInv carries it: the parity k of toggleLed says whether count has   *)
(* reached duty, and the LED shows that parity.  KeepsPromise alone says   *)
(* nothing of k, and between the two halves of handleTimer_1 not even of   *)
(* the LED.                                                                *)
(***************************************************************************)
EXTENDS LedBlinker, TLAPS

\* How far the counter is, and the period an armed timer has.
CountInv == IF pc = "tick" THEN count \in 1..Cycle ELSE count \in 0..(Cycle - 1)
PeriodInv == pc \in {"epoll"} \cup Loop => ms >= 0

PhaseInv ==
    /\ pc = "led" => count = 0 /\ k = 0
    /\ pc # "led" => (led = 1 <=> k = 0)
    /\ duty \in 1..Cycle => (k = 0 <=> count < duty)

BlinkInv == TypeOK /\ CountInv /\ PeriodInv /\ PhaseInv

-----------------------------------------------------------------------------
(* Lemmas: the initial state, a toggle, and the two halves of the timer's  *)
(* handler, which count and toggle.                                        *)

LEMMA InitInv == Init => BlinkInv
  BY CycleAssumption, PeriodAssumption, ArgumentAssumption, BoundAssumption
     DEF Init, BlinkInv, TypeOK, CountInv, PeriodInv, PhaseInv, Keys, Loop

\* What the steps that neither count nor toggle keep.
LEMMA Quiet ==
    ASSUME CountInv, PhaseInv, UNCHANGED <<duty, count, k>>,
           pc # "tick", pc' # "tick", pc' # "led",
           pc # "led" => led' = led, pc = "led" => led' = 1
    PROVE  CountInv' /\ PhaseInv'
  BY DEF CountInv, PhaseInv

\* Toggling once changes the parity, and the LED shows it.
LEMMA ToggleOnce ==
    ASSUME k \in 0..1, Toggled
    PROVE  /\ k' \in 0..1 /\ led' \in 0..1
           /\ k' = 0 <=> k # 0
           /\ led' = 1 <=> k' = 0
  BY DEF Toggled

\* The first half counts one tick, and toggles when duty is reached.
LEMMA TickCounts ==
    ASSUME TypeOK, CountInv, PhaseInv, Tick
    PROVE  /\ CountInv' /\ PhaseInv' /\ k' \in 0..1 /\ led' \in 0..1
           /\ count' = count + 1 /\ count' \in 1..Cycle /\ duty' = duty
           /\ pc = "batch" /\ pc' = "tick"
           /\ count' # duty => led' = led
           /\ count' = duty => (led' = 1 <=> k # 0)
  <1>1. /\ pc = "batch" /\ pc' = "tick" /\ count' = count + 1 /\ duty' = duty
    BY DEF Tick
  <1>2. count \in 0..(Cycle - 1) /\ k \in 0..1 /\ duty \in Int
    BY <1>1 DEF CountInv, TypeOK
  <1>3. CountInv' /\ count' \in 1..Cycle
    BY <1>1, <1>2, CycleAssumption DEF CountInv
  <1>4. (led = 1 <=> k = 0) /\ (duty \in 1..Cycle => (k = 0 <=> count < duty))
    BY <1>1 DEF PhaseInv
  <1>5. CASE count' = duty
    <2>1. Toggled
      BY <1>5 DEF Tick
    <2>2. /\ k' \in 0..1 /\ led' \in 0..1
          /\ (k' = 0 <=> k # 0) /\ (led' = 1 <=> k' = 0)
      BY <2>1, <1>2, ToggleOnce
    <2>3. k' # 0 /\ ~(count' < duty)
      BY <2>2, <1>1, <1>2, <1>3, <1>4, <1>5
    <2>4. PhaseInv'
      BY <2>2, <2>3, <1>1 DEF PhaseInv
    <2> QED BY <2>2, <2>4, <1>1, <1>3, <1>5
  <1>6. CASE count' # duty
    <2>1. k' = k /\ led' = led
      BY <1>6 DEF Tick
    <2>2. duty \in 1..Cycle => (k = 0 <=> count' < duty)
      BY <1>1, <1>2, <1>4, <1>6
    <2>3. PhaseInv'
      BY <2>1, <2>2, <1>1, <1>4 DEF PhaseInv
    <2> QED BY <2>1, <2>3, <1>1, <1>3, <1>6 DEF TypeOK
  <1> QED BY <1>5, <1>6

\* The second half toggles at the end of a cycle.
LEMMA TickEndCounts ==
    ASSUME TypeOK, CountInv, PhaseInv, TickEnd
    PROVE  /\ CountInv' /\ PhaseInv' /\ k' \in 0..1 /\ led' \in 0..1
           /\ duty' = duty /\ pc = "tick" /\ pc' = "batch"
           /\ count # Cycle => count' = count /\ led' = led
           /\ count = Cycle => count' = 0 /\ (led' = 1 <=> k # 0)
  <1>1. pc = "tick" /\ pc' = "batch" /\ duty' = duty
    BY DEF TickEnd
  <1>2. count \in 1..Cycle /\ k \in 0..1 /\ duty \in Int
    BY <1>1 DEF CountInv, TypeOK
  <1>3. (led = 1 <=> k = 0) /\ (duty \in 1..Cycle => (k = 0 <=> count < duty))
    BY <1>1 DEF PhaseInv
  <1>4. CASE count = Cycle
    <2>1. Toggled /\ count' = 0
      BY <1>2, <1>4, CycleAssumption DEF TickEnd
    <2>2. /\ k' \in 0..1 /\ led' \in 0..1
          /\ (k' = 0 <=> k # 0) /\ (led' = 1 <=> k' = 0)
      BY <2>1, <1>2, ToggleOnce
    <2>3. duty \in 1..Cycle => k' = 0 /\ count' < duty
      BY <2>1, <2>2, <1>2, <1>3, <1>4, CycleAssumption
    <2>4. CountInv'
      BY <2>1, <1>1, CycleAssumption DEF CountInv
    <2>5. PhaseInv'
      BY <2>2, <2>3, <1>1 DEF PhaseInv
    <2> QED BY <2>1, <2>2, <2>4, <2>5, <1>1, <1>4
  <1>5. CASE count # Cycle
    <2>1. k' = k /\ led' = led /\ count' = count
      BY <1>2, <1>5, CycleAssumption DEF TickEnd
    <2>2. CountInv'
      BY <2>1, <1>1, <1>2, <1>5, CycleAssumption DEF CountInv
    <2>3. PhaseInv'
      BY <2>1, <1>1, <1>3 DEF PhaseInv
    <2> QED BY <2>1, <2>2, <2>3, <1>1, <1>5 DEF TypeOK
  <1> QED BY <1>4, <1>5

-----------------------------------------------------------------------------
\* The steps that neither count nor toggle.
Silent == \/ OpenKeys \/ SetupTimer \/ AddEvents \/ EpollWait \/ BatchDone
          \/ HandleK1 \/ HandleK2 \/ HandleK3 \/ Expire
          \/ (\E key \in Keys : Press(key)) \/ UNCHANGED vars

LEMMA SilentIsQuiet ==
    ASSUME TypeOK, Silent
    PROVE  /\ UNCHANGED <<duty, count, k, led>>
           /\ pc = "led" <=> pc' = "led"
           /\ pc = "tick" <=> pc' = "tick"
  <1> USE DEF OpenKeys, SetupTimer, AddEvents, EpollWait, BatchDone,
              HandleK1, HandleK2, HandleK3, Handle, Expire, Press, vars
  <1> QED BY DEF Silent

LEMMA NextSplit == [Next]_vars <=> OpenLed \/ Tick \/ TickEnd \/ Silent
  BY DEF Next, Main, Silent

\* The types of what is neither counted nor toggled.
RestOK ==
    /\ pc \in {"led", "keys", "timer", "epoll", "exited"} \cup Loop
    /\ ms \in Int /\ duty \in Int
    /\ timer \in {"off", "armed", "expired", "spent", "closed"}
    /\ edge \in [Keys -> BOOLEAN] /\ batch \subseteq Keys \cup {"timer"}
    /\ presses \in 0..MaxPresses

LEMMA ArmType == ASSUME NEW p \in Int, Arm(p)
                 PROVE  timer' \in {"closed", "expired"}
  BY DEF Arm

LEMMA KeyType ==
    ASSUME TypeOK, NEW key \in Keys, Handle(key)
    PROVE  /\ edge' \in [Keys -> BOOLEAN] /\ batch' \subseteq Keys \cup {"timer"}
           /\ pc = "batch" /\ UNCHANGED <<pc, duty, presses>>
  BY DEF Handle, TypeOK

LEMMA RestStep ==
    ASSUME TypeOK, [Next]_vars
    PROVE  RestOK'
  <1> USE DEF Loop
  <1>1. CASE OpenLed \/ OpenKeys \/ AddEvents \/ BatchDone \/ Expire
    BY <1>1 DEF OpenLed, OpenKeys, AddEvents, BatchDone, Expire, TypeOK, RestOK
  <1>2. CASE SetupTimer
    BY <1>2, ArmType DEF SetupTimer, TypeOK, RestOK
  <1>3. CASE EpollWait
    BY <1>3 DEF EpollWait, Ready, TypeOK, RestOK
  <1>4. CASE Tick
    <2>1. UNCHANGED <<ms, duty, edge, presses>> /\ pc' = "tick"
          /\ timer' \in {"spent", "armed"} /\ batch' \subseteq batch
      BY <1>4 DEF Tick
    <2> QED BY <2>1 DEF TypeOK, RestOK
  <1>5. CASE TickEnd
    BY <1>5 DEF TickEnd, TypeOK, RestOK
  <1>6. CASE HandleK1
    <2>1. ms' \in Int
      BY <1>6, PeriodAssumption DEF HandleK1, TypeOK
    <2> QED BY <1>6, <2>1, ArmType, KeyType DEF HandleK1, Keys, TypeOK, RestOK
  <1>7. CASE HandleK2
    <2>1. ms' \in Int
      BY <1>7, PeriodAssumption DEF HandleK2, TypeOK
    <2> QED BY <1>7, <2>1, ArmType, KeyType DEF HandleK2, Keys, TypeOK, RestOK
  <1>8. CASE HandleK3
    <2>1. ms' \in Int
      BY <1>8, PeriodAssumption DEF HandleK3, TypeOK
    <2> QED BY <1>8, <2>1, ArmType, KeyType DEF HandleK3, Keys, TypeOK, RestOK
  <1>9. ASSUME NEW key \in Keys, Press(key) PROVE RestOK'
    BY <1>9, BoundAssumption DEF Press, TypeOK, RestOK
  <1>10. CASE UNCHANGED vars
    BY <1>10 DEF vars, TypeOK, RestOK
  <1> QED BY <1>1, <1>2, <1>3, <1>4, <1>5, <1>6, <1>7, <1>8, <1>9, <1>10
          DEF Next, Main

\* A period above zero stays above zero, and no key lengthens it beyond the
\* maximum by a step.
PeriodStep == ms' # ms => ms' >= 1 /\ (ms' > ms => ms' < MaxMs + StepMs)

LEMMA PeriodMoves ==
    ASSUME TypeOK, PeriodInv, [Next]_vars
    PROVE  PeriodInv' /\ PeriodStep
  <1>1. CASE OpenLed \/ OpenKeys \/ AddEvents \/ BatchDone \/ Expire
             \/ EpollWait \/ Tick \/ TickEnd
    BY <1>1 DEF OpenLed, OpenKeys, AddEvents, BatchDone, Expire, EpollWait, Tick,
                TickEnd, PeriodInv, PeriodStep, Loop
  <1>2. CASE SetupTimer
    <2>1. ms' = ms /\ pc' \in {"exited", "epoll"}
          /\ (pc' = "epoll" => timer' # "closed")
      BY <1>2 DEF SetupTimer
    <2>2. timer' # "closed" => ms >= 0
      BY <1>2 DEF SetupTimer, Arm, TypeOK
    <2> QED BY <2>1, <2>2 DEF PeriodInv, PeriodStep, Loop
  <1>3. CASE HandleK1 \/ HandleK2 \/ HandleK3
    <2>1. ms \in Int /\ ms >= 0 /\ pc = "batch" /\ pc' = pc
      BY <1>3 DEF HandleK1, HandleK2, HandleK3, Handle, TypeOK, PeriodInv, Loop
    <2>2. \/ ms < MaxMs /\ ms' = ms + StepMs
          \/ ms' = DefaultMs
          \/ ms > MinMs /\ ms' = ms - StepMs
          \/ ms' = ms
      BY <1>3 DEF HandleK1, HandleK2, HandleK3
    <2> QED BY <2>1, <2>2, PeriodAssumption DEF PeriodInv, PeriodStep
  <1>4. ASSUME NEW key \in Keys, Press(key) PROVE PeriodInv' /\ PeriodStep
    BY <1>4 DEF Press, PeriodInv, PeriodStep
  <1>5. CASE UNCHANGED vars
    BY <1>5 DEF vars, PeriodInv, PeriodStep
  <1> QED BY <1>1, <1>2, <1>3, <1>4, <1>5 DEF Next, Main

LEMMA BlinkStep == BlinkInv /\ [Next]_vars => BlinkInv'
  <1> SUFFICES ASSUME TypeOK, CountInv, PeriodInv, PhaseInv, [Next]_vars
               PROVE  TypeOK' /\ CountInv' /\ PeriodInv' /\ PhaseInv'
    BY DEF BlinkInv
  <1>1. RestOK' /\ PeriodInv'
    BY RestStep, PeriodMoves
  <1>2. /\ CountInv' /\ PhaseInv'
        /\ count' \in 0..Cycle /\ k' \in 0..1 /\ led' \in 0..1
    <2>1. CASE Tick
      BY <2>1, TickCounts, CycleAssumption
    <2>2. CASE TickEnd
      BY <2>2, TickEndCounts, CycleAssumption DEF TypeOK
    <2>3. CASE OpenLed
      <3>1. pc = "led" /\ pc' = "keys" /\ led' = 1 /\ UNCHANGED <<duty, count, k>>
        BY <2>3 DEF OpenLed
      <3> QED BY <3>1, Quiet DEF TypeOK
    <2>4. CASE Silent
      <3>1. /\ UNCHANGED <<duty, count, k, led>>
            /\ pc = "led" <=> pc' = "led"
            /\ pc = "tick" <=> pc' = "tick"
        BY <2>4, SilentIsQuiet
      <3>2. CountInv'
        BY <3>1 DEF CountInv
      <3>3. PhaseInv'
        BY <3>1 DEF PhaseInv
      <3> QED BY <3>1, <3>2, <3>3 DEF TypeOK
    <2> QED BY <2>1, <2>2, <2>3, <2>4, NextSplit
  <1>3. TypeOK'
    BY <1>1, <1>2 DEF RestOK, TypeOK
  <1> QED BY <1>1, <1>2, <1>3

LEMMA BlinkInvariant == Spec => []BlinkInv
  BY InitInv, BlinkStep, PTL DEF Spec

-----------------------------------------------------------------------------
\* Every variable keeps to its values; no tick comes after the last of a cycle.
THEOREM TypeCorrect == Spec => []TypeOK
  BY BlinkInvariant, PTL DEF BlinkInv

\* With a duty cycle of 100 % the LED is lit whenever the timer's handler has
\* ended, although it is put out and lit again in every last tick.
THEOREM FullDutyAlways == Spec => []FullDutyLit
  <1>1. BlinkInv => FullDutyLit
    BY CycleAssumption
       DEF BlinkInv, TypeOK, CountInv, PhaseInv, FullDutyLit
  <1> QED BY <1>1, BlinkInvariant, PTL

\* No key makes the period zero or negative, or a step longer than the maximum.
THEOREM PeriodAlways == Spec => PeriodKept
  <1>1. BlinkInv /\ [Next]_vars => [PeriodStep]_vars
    BY PeriodMoves DEF BlinkInv
  <1> QED BY <1>1, BlinkInvariant, PTL DEF Spec, PeriodKept, PeriodStep

-----------------------------------------------------------------------------
(* The refinement.  Remainders of what is below the divisor, and of the    *)
(* divisor itself:                                                         *)

LEMMA NextPhase == \A a \in 0..(Cycle - 2) : (a + 1) % Cycle = a + 1
  BY CycleAssumption

LEMMA LastPhase == (Cycle - 1 + 1) % Cycle = 0
  BY CycleAssumption

LEMMA PromiseInit == Init => Promise!Init
  BY CycleAssumption DEF Init, Promise!Init, Promise!Meaningful

\* Every step of the blinker is one of the abstract blinking, or leaves it.
LEMMA PromiseStep == BlinkInv /\ [Next]_vars => [Promise!Next]_(Promise!vars)
  <1> SUFFICES ASSUME TypeOK, CountInv, PhaseInv, [Next]_vars
               PROVE  [Promise!Next]_(Promise!vars)
    BY DEF BlinkInv
  <1>1. CASE OpenLed
    <2>1. Promise!Start
      BY <1>1, CycleAssumption DEF OpenLed, Promise!Start
    <2> QED BY <2>1 DEF Promise!Next
  <1>2. CASE Tick
    <2>1. /\ count' = count + 1 /\ count' \in 1..Cycle /\ duty' = duty
          /\ pc = "batch" /\ pc' = "tick"
          /\ count' # duty => led' = led
          /\ count' = duty => (led' = 1 <=> k # 0)
      BY <1>2, TickCounts
    <2>2. count \in 0..(Cycle - 1) /\ duty \in Int
      BY <2>1 DEF CountInv, TypeOK
    <2>3. CASE ~Promise!Meaningful
      BY <2>3, <2>1 DEF Promise!Next
    <2>4. CASE Promise!Meaningful
      <3>1. duty \in 1..(Cycle - 1)
        BY <2>4 DEF Promise!Meaningful
      <3>2. (led = 1 <=> k = 0) /\ (k = 0 <=> count < duty)
        BY <2>1, <2>2, <3>1, CycleAssumption DEF PhaseInv
      <3>3. CASE count' = Cycle
        <4>1. count = Cycle - 1 /\ led' = led
          BY <3>3, <3>1, <2>1, <2>2, CycleAssumption
        <4> QED BY <4>1, <3>3, <2>1, CycleAssumption DEF Promise!vars
      <3>4. CASE count' # Cycle
        <4>1. count \in 0..(Cycle - 2) /\ count # Cycle
          BY <3>4, <2>1, <2>2, CycleAssumption
        <4>2. count' = (count + 1) % Cycle
          BY <4>1, <2>1, NextPhase
        <4>3. led' = 1 <=> count' < duty
          <5>1. CASE count' = duty
            BY <5>1, <3>1, <3>2, <2>1, <2>2
          <5>2. CASE count' # duty
            BY <5>2, <3>1, <3>2, <2>1, <2>2
          <5> QED BY <5>1, <5>2
        <4>4. Promise!Tick
          BY <4>1, <4>2, <4>3, <3>4, <2>1 DEF Promise!Tick
        <4> QED BY <4>4 DEF Promise!Next
      <3> QED BY <3>3, <3>4
    <2> QED BY <2>3, <2>4
  <1>3. CASE TickEnd
    <2>1. /\ duty' = duty /\ pc = "tick" /\ pc' = "batch"
          /\ count # Cycle => count' = count /\ led' = led
          /\ count = Cycle => count' = 0 /\ (led' = 1 <=> k # 0)
      BY <1>3, TickEndCounts
    <2>2. CASE ~Promise!Meaningful
      BY <2>2, <2>1 DEF Promise!Next
    <2>3. CASE Promise!Meaningful /\ count # Cycle
      BY <2>3, <2>1 DEF Promise!vars
    <2>4. CASE Promise!Meaningful /\ count = Cycle
      <3>1. duty \in 1..(Cycle - 1)
        BY <2>4 DEF Promise!Meaningful
      <3>2. k # 0
        BY <2>1, <2>4, <3>1, CycleAssumption DEF PhaseInv
      <3>3. count' = 0 /\ count' # Cycle /\ led' = 1
        BY <2>1, <2>4, <3>2, CycleAssumption
      <3>4. count' < duty
        BY <3>1, <3>3
      <3>5. Promise!Tick
        BY <2>1, <2>4, <3>3, <3>4, LastPhase DEF Promise!Tick
      <3> QED BY <3>5 DEF Promise!Next
    <2> QED BY <2>2, <2>3, <2>4
  <1>4. CASE Silent
    <2>1. /\ UNCHANGED <<duty, count, k, led>>
          /\ pc = "led" <=> pc' = "led"
      BY <1>4, SilentIsQuiet
    <2> QED BY <2>1 DEF Promise!vars
  <1> QED BY <1>1, <1>2, <1>3, <1>4, NextSplit

\* The blinker keeps the promise of DutyCycle: with a duty cycle between 1 and
\* Cycle - 1 the LED is lit in the first `duty' ticks of every cycle and dark
\* in the others, whatever keys are pressed.
THEOREM Refinement == Spec => KeepsPromise
  BY PromiseInit, PromiseStep, BlinkInvariant, PTL
     DEF Spec, KeepsPromise, Promise!Spec
=============================================================================
