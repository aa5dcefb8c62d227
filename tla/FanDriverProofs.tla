--------------------------- MODULE FanDriverProofs ---------------------------
(* Theorems about FanDriver, for every value of its constants.             *)
EXTENDS FanDriver, TLAPS

USE ReadersAssumption, TempsAssumption, WritesAssumption, WidthAssumption,
    BoundsAssumption

-----------------------------------------------------------------------------
(* The arithmetic.                                                         *)

\* The cut of a long to an int is an int.
LEMMA ToIntRange == \A x \in Int : ToInt(x) \in -IntHalf..(IntHalf - 1)
  <1> TAKE x \in Int
  <1> DEFINE n == 2 * IntHalf
             y == x + IntHalf
  <1>1. n \in Nat /\ n > 0 /\ y \in Int
    OBVIOUS
  <1>2. y % n \in 0..(n - 1)
    <2> HIDE DEF n, y
    <2> QED BY <1>1
  <1> QED BY <1>2 DEF ToInt

\* A period is "never" or at most a second; only a negative frequency stops
\* the timer.
LEMMA PeriodRange ==
  \A f \in Int : /\ Period(f) \in Never..1000
                 /\ f >= 0 => Period(f) # Never
  <1> TAKE f \in Int
  <1>1. CASE f > 0
    <2>1. 1000 \div f \in 0..1000
      BY <1>1
    <2> QED BY <1>1, <2>1, SMTT(20) DEF Period, Never
  <1>2. CASE ~(f > 0)
    BY <1>2 DEF Period, Never
  <1> QED BY <1>1, <1>2

\* The timer is armed with what a timer may hold.
LEMMA PeriodTyped == \A f \in Int : Period(f) \in Off..1000
  <1> TAKE f \in Int
  <1> DEFINE p == Period(f)
  <1>1. p \in Never..1000
    BY PeriodRange
  <1> HIDE DEF p
  <1>2. p \in Off..1000
    BY <1>1 DEF Off, Never
  <1> QED BY <1>2 DEF p

\* The regulation table: a hotter CPU never slows the fan, and the four
\* frequencies blink at 500, 200, 100 and 50 milliseconds.
THEOREM RegulationTable ==
  /\ \A s, t \in Int : s <= t => AutoFreq(s) <= AutoFreq(t)
  /\ \A t \in Int : /\ AutoFreq(t) \in {2, 5, 10, 20}
                    /\ Period(AutoFreq(t)) \in {500, 200, 100, 50}
BY DEF AutoFreq, Period

-----------------------------------------------------------------------------
(* Types.                                                                  *)

\* A toggle disturbs no type, whichever thread runs it.
LEMMA ToggleTypes ==
  ASSUME TypeOK, NEW th \in Threads, ToggleLed(th)
  PROVE  TypeOK'
  <1> USE DEF TypeOK, Threads, Timer, Steps, TimerSteps, module, params, zone
  <1>1. CASE Load(th)
    BY <1>1 DEF Load, Goto
  <1>2. CASE Drive(th)
    BY <1>2 DEF Drive, Goto
  <1>3. CASE Reload(th)
    BY <1>3 DEF Reload, Goto
  <1>4. CASE Flip(th)
    <2>1. reg[th] \in {0, 1}
      OBVIOUS
    <2> QED BY <1>4, <2>1, ReadersAssumption DEF Flip, Goto
  <1> QED BY <1>1, <1>2, <1>3, <1>4 DEF ToggleLed

\* Every variable keeps to the values its C counterpart can hold.
THEOREM TypeCorrect == Spec => []TypeOK
  <1> USE DEF TypeOK, Threads, Timer, Steps, TimerSteps, Never, Off,
              module, params, toggle, zone
  <1>1. Init => TypeOK
    BY DEF Init, States
  <1>2. TypeOK /\ [Next]_vars => TypeOK'
    <2> SUFFICES ASSUME TypeOK, [Next]_vars PROVE TypeOK'
      OBVIOUS
    <2>1. CASE Insmod
      <3> USE DEF States, InitStates
      <3>1. ASSUME NEW found \in BOOLEAN, InitZones(found) PROVE TypeOK'
        BY <3>1 DEF InitZones
      <3>2. CASE InitGpio
        <4>1. CASE "gpio" \in held
          BY <3>2, <4>1 DEF InitGpio
        <4>2. CASE "gpio" \notin held
          <5>1. state' = "timer" /\ held' = held \cup {"gpio"} /\ led' = 0
            BY <3>2, <4>2 DEF InitGpio
          <5> QED BY <3>2, <5>1 DEF InitGpio
        <4> QED BY <4>1, <4>2
      <3>3. CASE InitTimer
        <4>0. freq \in Int
          OBVIOUS
        <4>1. Period(freq) \in Off..1000
          BY <4>0, PeriodTyped, SMTT(20)
        <4> QED BY <3>3, <4>1 DEF InitTimer
      <3>4. CASE InitDevice
        BY <3>4 DEF InitDevice
      <3>5. ASSUME NEW created \in BOOLEAN, InitGroup(created) PROVE TypeOK'
        <4>1. CASE created
          <5>1. /\ state' = "live" /\ held' = held \cup {"attrs"}
                /\ UNCHANGED <<pc, marks, timer>>
            BY <3>5, <4>1 DEF InitGroup
          <5> QED BY <3>5, <5>1 DEF InitGroup
        <4>2. CASE ~created
          <5>1. /\ state' = "unloaded" /\ held' = held \ {"class", "device"}
                /\ Abandon({"raced"})
            BY <3>5, <4>2 DEF InitGroup
          <5> QED BY <3>5, <5>1 DEF InitGroup, Abandon
        <4> QED BY <4>1, <4>2
      <3> QED BY <2>1, <3>1, <3>2, <3>3, <3>4, <3>5 DEF Insmod
    <2>2. CASE Rmmod
      <3> USE DEF States, ExitStates
      <3>1. CASE ExitGroup
        BY <3>1 DEF ExitGroup
      <3>2. CASE ExitDevice
        BY <3>2 DEF ExitDevice
      <3>3. CASE ExitTimer
        BY <3>3 DEF ExitTimer
      <3>4. CASE ExitGpio
        BY <3>4 DEF ExitGpio, Abandon
      <3> QED BY <2>2, <3>1, <3>2, <3>3, <3>4 DEF Rmmod
    <2>3. CASE Oops
      BY <2>3 DEF Oops, States
    <2>4. CASE TimerCallback
      <3>1. CASE ToggleLed(Timer)
        BY <3>1, ToggleTypes DEF ToggleLed
      <3>2. CASE Fire
        BY <3>2 DEF Fire, Goto
      <3>6. CASE CheckMode
        BY <3>6, ReadersAssumption DEF CheckMode, Goto
      <3>5. CASE Sense
        <4>1. sensed' \in Temps
          BY <3>5 DEF Sense
        <4>2. \E step \in {"regulate", "idle"} :
                pc' = [pc EXCEPT ![Timer] = step]
          BY <3>5 DEF Sense, Goto
        <4> QED BY <3>5, <4>1, <4>2, ReadersAssumption DEF Sense
      <3>3. CASE Rearm
        <4>0. freq \in Int
          OBVIOUS
        <4>1. Period(freq) \in Off..1000
          BY <4>0, PeriodTyped, SMTT(20)
        <4> QED BY <3>3, <4>1, ReadersAssumption DEF Rearm, Goto
      <3>4. CASE Regulate
        <4>1. AutoFreq(sensed) \in -IntHalf..(IntHalf - 1)
          BY RegulationTable
        <4> QED BY <3>4, <4>1, ReadersAssumption DEF Regulate, Goto
      <3> QED BY <2>4, <3>1, <3>2, <3>3, <3>4, <3>5, <3>6 DEF TimerCallback
    <2>5. CASE Store
      <3>1. ASSUME NEW v \in ModeWrites, ModeStore(v) PROVE TypeOK'
        BY <3>1 DEF ModeStore, ToBool
      <3>2. ASSUME NEW v \in FreqWrites, FreqStore(v) PROVE TypeOK'
        <4>1. ToInt(v) \in -IntHalf..(IntHalf - 1)
          BY ToIntRange
        <4> QED BY <3>2, <4>1 DEF FreqStore
      <3> QED BY <2>5, <3>1, <3>2 DEF Store
    <2>6. ASSUME NEW r \in Readers, Show(r) PROVE TypeOK'
      <3>1. CASE GpuShow(r)
        BY <2>6, <3>1 DEF GpuShow, Goto
      <3>2. CASE ToggleLed(r)
        BY <2>6, <3>2, ToggleTypes DEF ToggleLed
      <3> QED BY <2>6, <3>1, <3>2 DEF Show
    <2>7. CASE Board
      <3>1. ASSUME NEW t \in Temps, Warm(t) PROVE TypeOK'
        BY <3>1 DEF Warm
      <3>2. CASE SensorFlap
        BY <3>2 DEF SensorFlap
      <3> QED BY <2>7, <3>1, <3>2 DEF Board
    <2>8. CASE UNCHANGED vars
      BY <2>8 DEF vars
    <2> QED BY <2>1, <2>2, <2>3, <2>4, <2>5, <2>6, <2>7, <2>8 DEF Next
  <1> QED BY <1>1, <1>2, PTL DEF Spec

-----------------------------------------------------------------------------
(* Loading and unloading.  What is registered is a function of how far     *)
(* insmod or rmmod has come, and the timer is off wherever its code is not *)
(* there, unless del_timer has missed a callback.                          *)

Busy == timer # Off \/ pc[Timer] # "idle"

RegisteredByState ==
    /\ state \in {"unloaded", "gpio"} =>
         held \subseteq {"gpio"} /\ (Raced \/ held = {})
    /\ state \in {"timer", "device", "deltimer", "freegpio"} => held = {"gpio"}
    /\ state \in {"group", "rmdevice"} => held = {"gpio", "class", "device"}
    /\ state = "live" => held = {"gpio", "class", "device", "attrs"}
    /\ state = "wedged" => "gpio" \in held

TimerByState ==
    /\ Busy => \/ state \in {"device", "group", "live", "wedged", "rmdevice", "deltimer"}
               \/ Raced
    /\ state \in {"unloaded", "gpio", "timer"} => ~Busy

ShowByState ==
    \A r \in Readers : pc[r] # "idle" =>
        state \in {"live", "oops"} /\ held = {"gpio", "class", "device", "attrs"}

OrphanRaced == "orphan" \in marks \/ state = "oops" => Raced

LifeInv == RegisteredByState /\ TimerByState /\ ShowByState /\ OrphanRaced

LEMMA LifeInit == Init => LifeInv
BY ReadersAssumption
DEF Init, LifeInv, RegisteredByState, TimerByState, ShowByState, OrphanRaced,
    Busy, Threads, Timer

\* Steps that neither load nor unload and move no handler keep it.
LEMMA LifeFrame ==
  ASSUME LifeInv, UNCHANGED <<state, held, timer, pc, marks>>
  PROVE  LifeInv'
BY DEF LifeInv, RegisteredByState, TimerByState, ShowByState, OrphanRaced,
       Busy, Raced

\* A toggle step needs its thread to be in the handler already.
LEMMA LifeToggle ==
  ASSUME TypeOK, LifeInv, NEW th \in Threads, ToggleLed(th)
  PROVE  LifeInv'
  <1>1. /\ UNCHANGED <<state, held, timer>>
        /\ marks' \in {marks, marks \cup {"toggled"}, marks \cup {"overlap"}}
        /\ pc[th] # "idle"
        /\ \A u \in Threads : u # th => pc'[u] = pc[u]
    <2>1. /\ UNCHANGED <<state, held, timer>> /\ pc[th] # "idle"
          /\ marks' \in {marks, marks \cup {"toggled"}, marks \cup {"overlap"}}
      BY DEF ToggleLed, Load, Drive, Reload, Flip, module
    <2>2. PICK step : pc' = [pc EXCEPT ![th] = step]
      BY DEF ToggleLed, Load, Drive, Reload, Flip, Goto
    <2>3. \A u \in Threads : u # th => pc'[u] = pc[u]
      BY <2>2 DEF TypeOK
    <2> QED BY <2>1, <2>3
  <1>2. Raced' = Raced /\ ("orphan" \in marks' <=> "orphan" \in marks)
    BY <1>1 DEF Raced
  <1>3. RegisteredByState' /\ OrphanRaced'
    BY <1>1, <1>2 DEF LifeInv, RegisteredByState, OrphanRaced
  <1>4. TimerByState'
    <2>1. Busy' => Busy
      BY <1>1 DEF Busy, Threads
    <2> QED BY <1>1, <1>2, <2>1 DEF LifeInv, TimerByState
  <1>5. ShowByState'
    BY <1>1 DEF LifeInv, ShowByState, Threads
  <1> QED BY <1>3, <1>4, <1>5 DEF LifeInv

\* Nor does a step of the timer callback, the firing of the timer included.
LEMMA LifeCallback ==
  ASSUME TypeOK, LifeInv, Fire \/ Rearm \/ CheckMode \/ Sense \/ Regulate
  PROVE  LifeInv'
  <1>1. /\ UNCHANGED <<state, held, marks>>
        /\ Busy
        /\ \A r \in Readers : pc'[r] = pc[r]
    <2>1. UNCHANGED <<state, held, marks>> /\ Busy
      BY DEF Fire, Rearm, CheckMode, Sense, Regulate, module, Busy, Off, Never
    <2>2. PICK step : pc' = [pc EXCEPT ![Timer] = step]
      BY DEF Fire, Rearm, CheckMode, Sense, Regulate, Goto
    <2> QED BY <2>1, <2>2, ReadersAssumption DEF TypeOK, Threads, Timer
  <1>2. RegisteredByState' /\ OrphanRaced'
    BY <1>1 DEF LifeInv, RegisteredByState, OrphanRaced, Raced
  <1>3. TimerByState'
    BY <1>1 DEF LifeInv, TimerByState, Raced
  <1>4. ShowByState'
    BY <1>1 DEF LifeInv, ShowByState
  <1> QED BY <1>2, <1>3, <1>4 DEF LifeInv

LEMMA LifeInsmod ==
  ASSUME TypeOK, LifeInv, Insmod
  PROVE  LifeInv'
  <1> USE DEF LifeInv, RegisteredByState, TimerByState, ShowByState,
              OrphanRaced, Busy, Raced
  <1>1. ASSUME NEW found \in BOOLEAN, InitZones(found) PROVE LifeInv'
    BY <1>1 DEF InitZones
  <1>2. CASE InitGpio
    BY <1>2 DEF InitGpio
  <1>3. CASE InitTimer
    BY <1>3 DEF InitTimer
  <1>4. CASE InitDevice
    BY <1>4 DEF InitDevice
  <1>5. ASSUME NEW created \in BOOLEAN, InitGroup(created) PROVE LifeInv'
    <2>1. CASE created
      BY <1>5, <2>1 DEF InitGroup
    <2>2. CASE ~created
      <3>1. /\ state' = "unloaded" /\ held' = held \ {"class", "device"}
            /\ Abandon({"raced"})
        BY <1>5, <2>2 DEF InitGroup
      <3>2. pc'[Timer] = "idle" /\ \A r \in Readers : pc'[r] = pc[r]
        BY <3>1, ReadersAssumption DEF Abandon, TypeOK, Threads, Timer
      <3> QED BY <1>5, <3>1, <3>2 DEF InitGroup, Abandon
    <2> QED BY <2>1, <2>2
  <1> QED BY <1>1, <1>2, <1>3, <1>4, <1>5 DEF Insmod

LEMMA LifeRmmod ==
  ASSUME TypeOK, LifeInv, Rmmod
  PROVE  LifeInv'
  <1> USE DEF LifeInv, RegisteredByState, TimerByState, ShowByState,
              OrphanRaced, Busy, Raced
  <1>1. CASE ExitGroup
    BY <1>1 DEF ExitGroup
  <1>2. CASE ExitDevice
    BY <1>2 DEF ExitDevice
  <1>3. CASE ExitTimer
    BY <1>3 DEF ExitTimer
  <1>4. CASE ExitGpio
    <2>1. pc'[Timer] = "idle" /\ \A r \in Readers : pc'[r] = pc[r]
      BY <1>4, ReadersAssumption DEF ExitGpio, Abandon, TypeOK, Threads, Timer
    <2> QED BY <1>4, <2>1 DEF ExitGpio, Abandon
  <1> QED BY <1>1, <1>2, <1>3, <1>4 DEF Rmmod

LEMMA LifeNext == TypeOK /\ LifeInv /\ [Next]_vars => LifeInv'
  <1> SUFFICES ASSUME TypeOK, LifeInv, [Next]_vars PROVE LifeInv'
    OBVIOUS
  <1>1. CASE Oops
    BY <1>1 DEF Oops, LifeInv, RegisteredByState, TimerByState, ShowByState,
                OrphanRaced, Busy, Raced
  <1>2. CASE TimerCallback
    BY <1>2, LifeToggle, LifeCallback DEF TimerCallback, Threads
  <1>3. CASE Store
    <2>1. /\ UNCHANGED <<state, held, timer, pc>>
          /\ marks' \in {marks, marks \cup {"negative"}}
      BY <1>3 DEF Store, ModeStore, FreqStore, module
    <2> QED BY <2>1 DEF LifeInv, RegisteredByState, TimerByState, ShowByState,
                        OrphanRaced, Busy, Raced
  <1>4. ASSUME NEW r \in Readers, Show(r) PROVE LifeInv'
    <2>1. CASE GpuShow(r)
      <3>1. /\ UNCHANGED <<state, held, timer, marks>> /\ state = "live"
            /\ pc'[Timer] = pc[Timer]
        BY <1>4, <2>1, ReadersAssumption
        DEF GpuShow, Goto, module, TypeOK, Threads, Timer
      <3> QED BY <3>1 DEF LifeInv, RegisteredByState, TimerByState,
                          ShowByState, OrphanRaced, Busy, Raced
    <2>2. CASE ToggleLed(r)
      BY <1>4, <2>2, LifeToggle DEF Threads
    <2> QED BY <1>4, <2>1, <2>2 DEF Show
  <1>5. CASE Board
    BY <1>5, LifeFrame DEF Board, Warm, SensorFlap, module
  <1>6. CASE UNCHANGED vars
    BY <1>6, LifeFrame DEF vars, module
  <1> QED BY <1>1, <1>2, <1>3, <1>4, <1>5, <1>6, LifeInsmod, LifeRmmod DEF Next

THEOREM LifeCorrect == Spec => []LifeInv
BY LifeInit, LifeNext, TypeCorrect, PTL DEF Spec

\* Freed code can run only after del_timer overlapped a callback or
\* skeleton_init gave up late; otherwise unloading leaves nothing behind.
THEOREM ContainedAlways == Spec => []Contained
  <1>1. LifeInv => Contained
    BY DEF LifeInv, RegisteredByState, OrphanRaced, Contained
  <1> QED BY <1>1, LifeCorrect, PTL

\* toggleLed never runs without its LED, whoever calls it and however loading
\* and unloading interleave with it, unless del_timer missed a callback.
THEOREM LedClaimedAlways == Spec => []LedClaimed
  <1>1. LifeInv => LedClaimed
    BY DEF LifeInv, RegisteredByState, TimerByState, ShowByState, Busy,
           LedClaimed
  <1> QED BY <1>1, LifeCorrect, PTL

-----------------------------------------------------------------------------
(* The beat.                                                               *)

Unstopped == "negative" \notin marks => freq >= 0 /\ timer # Never

Beating ==
    /\ "negative" \notin marks
    /\ state \in {"device", "group", "live", "wedged", "rmdevice", "deltimer"}
    => Armed

LEMMA UnstoppedNext == TypeOK /\ LifeInv /\ Unstopped /\ [Next]_vars => Unstopped'
  <1> SUFFICES ASSUME TypeOK, LifeInv, Unstopped, [Next]_vars PROVE Unstopped'
    OBVIOUS
  <1> USE DEF Unstopped, Never, Off
  <1>1. "negative" \notin marks => Period(freq) # Never
    BY PeriodRange DEF TypeOK
  <1>3. CASE Insmod
    <2>1. \A found \in BOOLEAN : InitZones(found) => Unstopped'
      BY DEF InitZones, LifeInv, TimerByState, Busy
    <2>2. InitGpio \/ InitTimer \/ InitDevice => Unstopped'
      BY <1>1 DEF InitGpio, InitTimer, InitDevice, params
    <2>3. \A created \in BOOLEAN : InitGroup(created) => Unstopped'
      <3> TAKE created \in BOOLEAN
      <3> HAVE InitGroup(created)
      <3>1. /\ freq' = freq /\ timer' \in {timer, Off}
            /\ "negative" \in marks' <=> "negative" \in marks
        BY DEF InitGroup, Abandon, params
      <3> QED BY <3>1
    <2> QED BY <1>3, <2>1, <2>2, <2>3 DEF Insmod
  <1>4. CASE Rmmod
    BY <1>4 DEF Rmmod, ExitGroup, ExitDevice, ExitTimer, ExitGpio, Abandon,
       params
  <1>5. CASE TimerCallback
    <2>1. AutoFreq(sensed) >= 0
      BY DEF AutoFreq
    <2>2. "negative" \in marks' <=> "negative" \in marks
      BY <1>5 DEF TimerCallback, Fire, ToggleLed, Load, Drive, Reload, Flip,
         Rearm, CheckMode, Sense, Regulate
    <2> QED BY <1>1, <1>5, <2>1, <2>2 DEF TimerCallback, Fire, ToggleLed, Load,
               Drive, Reload, Flip, Rearm, CheckMode, Sense, Regulate, params
  <1>6. CASE Store
    <2>1. \A v \in ModeWrites : ModeStore(v) => Unstopped'
      BY DEF ModeStore
    <2>2. \A v \in FreqWrites : FreqStore(v) => Unstopped'
      <3> TAKE v \in FreqWrites
      <3> HAVE FreqStore(v)
      <3>1. freq' \in Int
        BY ToIntRange DEF FreqStore
      <3> QED BY <3>1 DEF FreqStore
    <2> QED BY <1>6, <2>1, <2>2 DEF Store
  <1>7. CASE Oops \/ (\E r \in Readers : Show(r)) \/ Board
    BY <1>7 DEF Oops, Show, GpuShow, ToggleLed, Load, Drive, Reload, Flip,
       Board, Warm, SensorFlap, params
  <1>8. CASE UNCHANGED vars
    BY <1>8 DEF vars, params
  <1> QED BY <1>3, <1>4, <1>5, <1>6, <1>7, <1>8 DEF Next

\* A timer that is armed with a frequency that is not negative is pending.
LEMMA ArmedBy ==
  ASSUME TypeOK, Unstopped, "negative" \notin marks, timer' = Period(freq)
  PROVE  Armed'
  <1>1. Period(freq) \in Never..1000 /\ Period(freq) # Never
    BY PeriodRange DEF TypeOK, Unstopped
  <1> QED BY <1>1 DEF Armed, Never, Off

LEMMA BeatingNext ==
  ASSUME TypeOK, Unstopped, Beating, [Next]_vars
  PROVE  Beating'
  <1> SUFFICES ASSUME "negative" \notin marks',
                      state' \in {"device", "group", "live", "wedged", "rmdevice",
                                 "deltimer"}
               PROVE  Armed'
    BY DEF Beating
  <1>1. CASE Insmod
    <2>1. \A found \in BOOLEAN : ~InitZones(found)
      BY DEF InitZones
    <2>2. CASE InitTimer
      BY <2>2, ArmedBy DEF InitTimer
    <2>3. CASE InitGpio \/ InitDevice
      BY <2>3 DEF InitGpio, InitDevice, Beating, Armed
    <2>4. \A created \in BOOLEAN : InitGroup(created) => Armed'
      BY DEF InitGroup, Beating, Armed
    <2> QED BY <1>1, <2>1, <2>2, <2>3, <2>4 DEF Insmod
  <1>2. CASE Rmmod
    BY <1>2 DEF Rmmod, ExitGroup, ExitDevice, ExitTimer, ExitGpio, Beating, Armed
  <1>3. CASE TimerCallback
    <2>1. UNCHANGED state /\ "negative" \notin marks
      BY <1>3 DEF TimerCallback, Fire, ToggleLed, Load, Drive, Reload, Flip,
         Rearm, CheckMode, Sense, Regulate, module
    <2>2. CASE Fire \/ ToggleLed(Timer)
      BY <2>2 DEF Fire, ToggleLed, Load, Drive, Reload, Flip, Goto, Armed,
         TypeOK, Threads
    <2>3. CASE Rearm
      BY <2>1, <2>3, ArmedBy DEF Rearm
    <2>4. CASE CheckMode \/ Sense \/ Regulate
      BY <2>1, <2>4 DEF CheckMode, Sense, Regulate, Beating, Armed
    <2> QED BY <1>3, <2>2, <2>3, <2>4 DEF TimerCallback
  <1>4. CASE Store
    BY <1>4 DEF Store, ModeStore, FreqStore, module, Beating, Armed
  <1>5. ASSUME NEW r \in Readers, Show(r) PROVE Armed'
    <2>1. /\ UNCHANGED <<state, timer>> /\ "negative" \notin marks
          /\ \E step : pc' = [pc EXCEPT ![r] = step]
      BY <1>5 DEF Show, GpuShow, ToggleLed, Load, Drive, Reload, Flip, Goto, module
    <2>2. pc'[Timer] = pc[Timer]
      BY <2>1, ReadersAssumption DEF TypeOK, Threads, Timer
    <2> QED BY <2>1, <2>2 DEF Beating, Armed
  <1>6. CASE Oops \/ Board
    BY <1>6 DEF Oops, Board, Warm, SensorFlap, module, Beating, Armed
  <1>7. CASE UNCHANGED vars
    BY <1>7 DEF vars, module, Beating, Armed
  <1> QED BY <1>1, <1>2, <1>3, <1>4, <1>5, <1>6, <1>7 DEF Next

\* Only a number that is negative as an int can stop the timer for good: until one
\* is written the timer of a loaded driver is armed or about to be armed again.
THEOREM NoStallAlways == Spec => []NoStall
  <1>1. Init => Unstopped /\ Beating
    BY DEF Init, Unstopped, Beating, Off, Never
  <1>2. TypeOK /\ LifeInv /\ Unstopped /\ Beating /\ [Next]_vars => (Unstopped /\ Beating)'
    BY UnstoppedNext, BeatingNext
  <1>3. Unstopped /\ Beating => NoStall
    BY DEF Unstopped, Beating, NoStall
  <1> QED BY <1>1, <1>2, <1>3, TypeCorrect, LifeCorrect, PTL DEF Spec

\* Where a toggle stands between the LED and led_trigger: until two toggles
\* have overlapped, one thread at most is between its load and its flip, and
\* what it has loaded is what is there.
Apart == "overlap" \notin marks

OneToggler ==
    \A t, u \in Threads : Toggling(t) /\ Toggling(u) => t = u

PhaseOf(th) ==
    /\ pc[th] \in {"drive", "flip"} => reg[th] = trigger
    /\ pc[th] \in {"reload", "flip"} => led = trigger

Settling == \E th \in Threads : pc[th] \in {"reload", "flip"}

PhaseInv ==
    /\ state \in {"gpio", "timer"} => "toggled" \notin marks
    /\ state \notin {"unloaded", "gpio", "timer", "oops"} /\ Apart =>
         /\ OneToggler
         /\ \A th \in Threads : PhaseOf(th)
         /\ "toggled" \in marks /\ ~Settling => led = 1 - trigger

Middle == {"drive", "reload", "flip"}

\* Steps outside the toggles, while the module stays loaded.
LEMMA PhaseFrame ==
  ASSUME PhaseInv, UNCHANGED <<trigger, led, reg>>,
         state \notin {"unloaded", "gpio", "timer", "oops"},
         \A th \in Threads : pc'[th] = pc[th] \/ {pc[th], pc'[th]} \cap Middle = {},
         "overlap" \in marks' <=> "overlap" \in marks,
         "toggled" \in marks' <=> "toggled" \in marks,
         state' \notin {"gpio", "timer"}
  PROVE  PhaseInv'
  <1>1. CASE Apart
    <2>1. Apart' /\ OneToggler /\ (\A th \in Threads : PhaseOf(th))
      BY <1>1 DEF PhaseInv, Apart
    <2>2. OneToggler'
      BY <2>1 DEF OneToggler, Toggling, Middle
    <2>3. \A th \in Threads : PhaseOf(th)'
      BY <2>1 DEF PhaseOf, Middle
    <2>4. Settling' <=> Settling
      BY DEF Settling, Middle
    <2> QED BY <1>1, <2>1, <2>2, <2>3, <2>4 DEF PhaseInv, Apart
  <1>2. CASE ~Apart
    BY <1>2 DEF PhaseInv, Apart
  <1> QED BY <1>1, <1>2

LEMMA PhaseToggle ==
  ASSUME TypeOK, PhaseInv, NEW th \in Threads, ToggleLed(th),
         state \notin {"unloaded", "gpio", "timer", "oops"}
  PROVE  PhaseInv'
  <1> SUFFICES ASSUME Apart'
               PROVE  /\ OneToggler'
                      /\ \A u \in Threads : PhaseOf(u)'
                      /\ "toggled" \in marks' /\ ~Settling' => led' = 1 - trigger'
    BY DEF PhaseInv, ToggleLed, Load, Drive, Reload, Flip, module
  <1> USE DEF TypeOK, Apart, OneToggler, PhaseOf, Settling, Toggling
  <1>1. Apart
    BY DEF ToggleLed, Load, Drive, Reload, Flip
  <1>2. /\ OneToggler /\ \A u \in Threads : PhaseOf(u)
        /\ "toggled" \in marks /\ ~Settling => led = 1 - trigger
    BY <1>1 DEF PhaseInv
  <1>3. CASE Load(th)
    <2>1. /\ \A u \in Threads : ~Toggling(u)
          /\ UNCHANGED <<trigger, led>> /\ marks' = marks
          /\ pc' = [pc EXCEPT ![th] = "drive"]
          /\ reg' = [reg EXCEPT ![th] = trigger]
      BY <1>3 DEF Load, Goto
    <2> QED BY <1>2, <2>1
  <1>4. CASE Drive(th)
    BY <1>2, <1>4 DEF Drive, Goto
  <1>5. CASE Reload(th)
    BY <1>2, <1>5 DEF Reload, Goto
  <1>6. CASE Flip(th)
    <2>1. /\ trigger' = 1 - reg[th] /\ UNCHANGED <<led, marks>>
          /\ reg' = [reg EXCEPT ![th] = 0]
          /\ \E step \in {"rearm", "idle"} : pc' = [pc EXCEPT ![th] = step]
          /\ reg[th] = trigger /\ led = trigger
      BY <1>2, <1>6 DEF Flip, Goto
    <2>2. \A u \in Threads : ~Toggling(u)'
      BY <1>2, <1>6, <2>1 DEF Flip
    <2> QED BY <2>1, <2>2
  <1> QED BY <1>3, <1>4, <1>5, <1>6 DEF ToggleLed

LEMMA PhaseNext ==
  ASSUME TypeOK, LifeInv, PhaseInv, [Next]_vars
  PROVE  PhaseInv'
  <1> DEFINE Loaded == state \notin {"unloaded", "gpio", "timer", "oops"}
  <1> USE DEF toggle
  <1>1. CASE Insmod
    <2>1. \A found \in BOOLEAN : InitZones(found) => PhaseInv'
      BY DEF InitZones, PhaseInv
    <2>2. InitGpio => PhaseInv'
      BY DEF InitGpio, PhaseInv
    <2>3. InitTimer => PhaseInv'
      <3> SUFFICES ASSUME InitTimer PROVE PhaseInv'
        OBVIOUS
      <3>1. \A th \in Threads : pc[th] = "idle" /\ pc'[th] = "idle"
        BY DEF InitTimer, LifeInv, TimerByState, ShowByState, Busy, Threads
      <3> QED BY <3>1 DEF InitTimer, PhaseInv, PhaseOf, OneToggler, Toggling
    <2>4. InitDevice => PhaseInv'
      BY PhaseFrame DEF InitDevice
    <2>5. \A created \in BOOLEAN : InitGroup(created) => PhaseInv'
      <3> TAKE created \in BOOLEAN
      <3> HAVE InitGroup(created)
      <3>1. CASE created
        BY <3>1, PhaseFrame DEF InitGroup
      <3>2. CASE ~created
        BY <3>2 DEF InitGroup, PhaseInv
      <3> QED BY <3>1, <3>2
    <2> QED BY <1>1, <2>1, <2>2, <2>3, <2>4, <2>5 DEF Insmod
  <1>2. CASE Rmmod
    <2>1. ExitGroup \/ ExitDevice => PhaseInv'
      BY PhaseFrame DEF ExitGroup, ExitDevice
    <2>2. ExitTimer => PhaseInv'
      BY DEF ExitTimer, PhaseInv, Apart, OneToggler, PhaseOf, Settling,
             Toggling
    <2>3. ExitGpio => PhaseInv'
      BY DEF ExitGpio, PhaseInv
    <2> QED BY <1>2, <2>1, <2>2, <2>3 DEF Rmmod
  <1>3. CASE Oops
    BY <1>3 DEF Oops, PhaseInv
  <1>4. CASE TimerCallback
    <2>1. Loaded
      BY <1>4 DEF TimerCallback, Fire, ToggleLed, Load, Drive, Reload, Flip,
         Rearm, CheckMode, Sense, Regulate, LifeInv, TimerByState, Busy, Off,
         Running
    <2>2. CASE ToggleLed(Timer)
      BY <2>1, <2>2, PhaseToggle DEF Threads
    <2>3. CASE Fire \/ Rearm \/ CheckMode \/ Sense \/ Regulate
      <3>1. /\ UNCHANGED <<module, trigger, led, reg, marks>>
            /\ pc[Timer] \notin {"drive", "reload", "flip"}
            /\ \E step \in {"load", "check", "sense", "regulate", "idle"} :
                 pc' = [pc EXCEPT ![Timer] = step]
        BY <2>3 DEF Fire, Rearm, CheckMode, Sense, Regulate, Goto
      <3>2. \A th \in Threads :
              pc'[th] = pc[th] \/ {pc[th], pc'[th]} \cap Middle = {}
        BY <3>1 DEF TypeOK, Middle, Threads
      <3> QED BY <2>1, <3>1, <3>2, PhaseFrame DEF module
    <2> QED BY <1>4, <2>2, <2>3 DEF TimerCallback
  <1>5. CASE Store
    <2>1. /\ UNCHANGED <<module, trigger, led, reg, pc>> /\ Loaded
          /\ marks' \in {marks, marks \cup {"negative"}}
      BY <1>5 DEF Store, ModeStore, FreqStore
    <2> QED BY <2>1, PhaseFrame DEF module
  <1>6. ASSUME NEW r \in Readers, Show(r) PROVE PhaseInv'
    <2>1. CASE GpuShow(r)
      <3>1. /\ UNCHANGED <<module, trigger, led, reg, marks>> /\ Loaded
            /\ pc' = [pc EXCEPT ![r] = "load"] /\ pc[r] = "idle"
        BY <2>1 DEF GpuShow, Goto
      <3>2. \A th \in Threads :
              pc'[th] = pc[th] \/ {pc[th], pc'[th]} \cap Middle = {}
        BY <3>1 DEF TypeOK, Middle, Threads
      <3> QED BY <3>1, <3>2, PhaseFrame DEF module
    <2>2. CASE ToggleLed(r)
      <3>1. Loaded
        BY <2>2 DEF ToggleLed, Load, Drive, Reload, Flip, Running, LifeInv,
           ShowByState
      <3> QED BY <1>6, <2>2, <3>1, PhaseToggle DEF Threads
    <2> QED BY <1>6, <2>1, <2>2 DEF Show
  <1>7. CASE Board
    BY <1>7 DEF Board, Warm, SensorFlap, module, PhaseInv, Apart, OneToggler,
       PhaseOf, Settling, Toggling
  <1>8. CASE UNCHANGED vars
    BY <1>8 DEF vars, module, PhaseInv, Apart, OneToggler, PhaseOf, Settling,
       Toggling
  <1> QED BY <1>1, <1>2, <1>3, <1>4, <1>5, <1>6, <1>7, <1>8 DEF Next

\* Until two toggles overlap, every toggle changes the LED, through any loading,
\* unloading and regulation: the callbacks of one timer never overlap, and only
\* a read of temp_gpu can come between a load of led_trigger and its flip.
THEOREM LedPhaseAlways == Spec => []LedPhase
  <1>1. Init => PhaseInv
    BY DEF Init, PhaseInv
  <1>2. PhaseInv => LedPhase
    BY DEF PhaseInv, LedPhase, Settling, Apart
  <1>3. TypeOK /\ LifeInv /\ PhaseInv /\ [Next]_vars => PhaseInv'
    BY PhaseNext
  <1> QED BY <1>1, <1>2, <1>3, TypeCorrect, LifeCorrect, PTL DEF Spec

-----------------------------------------------------------------------------
(* The attributes.                                                         *)

Deciding == pc[Timer] \in {"sense", "regulate"}

\* A regulation that neither begins nor ends and leaves mode and freq is none.
LEMMA AttributesFrame ==
  ASSUME UNCHANGED <<mode, freq>>, Deciding' <=> Deciding
  PROVE  UNCHANGED Attributes!vars
BY DEF Attributes!vars, Deciding

LEMMA AttributesAbandon ==
  ASSUME TypeOK, NEW reason, Abandon(reason), UNCHANGED <<mode, freq>>
  PROVE  Attributes!GiveUp \/ UNCHANGED Attributes!vars
  <1>1. ~Deciding'
    BY DEF Abandon, TypeOK, Threads, Deciding
  <1>2. CASE Deciding
    BY <1>1, <1>2 DEF Attributes!GiveUp, Deciding
  <1>3. CASE ~Deciding
    BY <1>1, <1>3, AttributesFrame
  <1> QED BY <1>2, <1>3

\* Loading and unloading: a regulation is ended with its module, and a fresh module
\* has none.
LEMMA AttributesModule ==
  ASSUME TypeOK, LifeInv, Insmod \/ Rmmod
  PROVE  [Attributes!Next]_(Attributes!vars)
  <1> USE DEF params
  <1>1. ASSUME NEW found \in BOOLEAN, InitZones(found) PROVE Attributes!Reload
    <2>1. ~Deciding
      BY <1>1 DEF InitZones, LifeInv, TimerByState, Busy, Deciding
    <2> QED BY <1>1, <2>1 DEF InitZones, Attributes!Reload, Attributes!Fresh, Deciding
  <1>2. ASSUME NEW created \in BOOLEAN, InitGroup(created)
        PROVE  Attributes!GiveUp \/ UNCHANGED Attributes!vars
    <2>1. CASE created
      BY <1>2, <2>1, AttributesFrame DEF InitGroup, Deciding
    <2>2. CASE ~created
      BY <1>2, <2>2, AttributesAbandon DEF InitGroup
    <2> QED BY <2>1, <2>2
  <1>3. CASE ExitGpio
    BY <1>3, AttributesAbandon
    DEF ExitGpio, Attributes!Next, Attributes!Regulation
  <1>4. CASE InitGpio \/ InitTimer \/ InitDevice \/ ExitGroup \/ ExitDevice \/ ExitTimer
    BY <1>4, AttributesFrame
    DEF InitGpio, InitTimer, InitDevice, ExitGroup, ExitDevice, ExitTimer, Deciding
  <1> QED BY <1>1, <1>2, <1>3, <1>4
          DEF Insmod, Rmmod, Attributes!Next, Attributes!Regulation

\* The callback decides, then regulates or gives up.
LEMMA AttributesCallback ==
  ASSUME TypeOK, TimerCallback
  PROVE  [Attributes!Regulation]_(Attributes!vars)
  <1> USE DEF params, TypeOK, Threads, Goto, Deciding
  <1>1. CASE Fire \/ ToggleLed(Timer) \/ Rearm
    <2>1. UNCHANGED <<mode, freq>> /\ ~Deciding /\ ~Deciding'
      BY <1>1 DEF Fire, ToggleLed, Load, Drive, Reload, Flip, Rearm
    <2> QED BY <2>1, AttributesFrame
  <1>2. CASE CheckMode
    <2>1. UNCHANGED <<mode, freq>> /\ ~Deciding /\ (Deciding' <=> mode = 0)
      BY <1>2 DEF CheckMode
    <2>2. CASE mode = 0
      BY <2>1, <2>2 DEF Attributes!Decide, Attributes!Regulation
    <2>3. CASE mode # 0
      BY <2>1, <2>3, AttributesFrame
    <2> QED BY <2>2, <2>3
  <1>3. CASE Sense
    <2>1. UNCHANGED <<mode, freq>> /\ Deciding /\ (Deciding' <=> sensor = "ok")
      BY <1>3 DEF Sense
    <2>2. CASE sensor = "ok"
      BY <2>1, <2>2, AttributesFrame
    <2>3. CASE sensor # "ok"
      BY <2>1, <2>3 DEF Attributes!GiveUp, Attributes!Regulation
    <2> QED BY <2>2, <2>3
  <1>4. CASE Regulate
    <2>1. mode' = mode /\ Deciding /\ ~Deciding' /\ freq' = AutoFreq(sensed)
      BY <1>4 DEF Regulate
    <2>2. freq' \in {AutoFreq(t) : t \in Temps}
      BY <2>1
    <2> QED BY <2>1, <2>2 DEF Attributes!Regulate, Attributes!Regulation
  <1> QED BY <1>1, <1>2, <1>3, <1>4 DEF TimerCallback

LEMMA AttributesNext ==
  ASSUME TypeOK, LifeInv, [Next]_vars
  PROVE  [Attributes!Next]_(Attributes!vars)
  <1>1. ASSUME NEW v \in ModeWrites, ModeStore(v) PROVE Attributes!Next
    <2>1. Attributes!StoreMode(ToBool(v)) /\ ToBool(v) \in {0, 1}
      BY <1>1 DEF ModeStore, ToBool, Attributes!StoreMode
    <2> QED BY <2>1 DEF Attributes!Next
  <1>2. ASSUME NEW v \in FreqWrites, FreqStore(v) PROVE Attributes!Next
    <2>1. Attributes!StoreFreq(ToInt(v)) /\ ToInt(v) \in {ToInt(w) : w \in FreqWrites}
      BY <1>2 DEF FreqStore, Attributes!StoreFreq
    <2> QED BY <2>1 DEF Attributes!Next
  <1>3. ASSUME NEW r \in Readers, Show(r) PROVE UNCHANGED Attributes!vars
    <2>1. UNCHANGED <<mode, freq>> /\ \E step : pc' = [pc EXCEPT ![r] = step]
      BY <1>3 DEF Show, GpuShow, ToggleLed, Load, Drive, Reload, Flip, Goto, params
    <2>2. pc'[Timer] = pc[Timer]
      BY <2>1, ReadersAssumption DEF TypeOK, Threads, Timer
    <2> QED BY <2>1, <2>2, AttributesFrame DEF Deciding
  <1>4. CASE Oops \/ Board
    BY <1>4, AttributesFrame DEF Oops, Board, Warm, SensorFlap, params, Deciding
  <1>5. CASE UNCHANGED vars
    BY <1>5, AttributesFrame DEF vars, params, Deciding
  <1>6. CASE TimerCallback
    BY <1>6, AttributesCallback DEF Attributes!Next
  <1> QED BY <1>1, <1>2, <1>3, <1>4, <1>5, <1>6, AttributesModule DEF Next, Store

\* The driver implements FanAttributes, on which FanDaemon is built: after manual mode
\* has been written at most one regulation more changes the frequency, for any
\* temperatures, numbers and readers and over any loading and unloading.
THEOREM AttributesKeptAlways == Spec => AttributesKept
  <1>1. Init => Attributes!Init
    BY DEF Init, Attributes!Init, Attributes!Fresh, Threads
  <1>2. TypeOK /\ LifeInv /\ [Next]_vars => [Attributes!Next]_(Attributes!vars)
    BY AttributesNext
  <1> QED BY <1>1, <1>2, TypeCorrect, LifeCorrect, PTL
          DEF Spec, AttributesKept, Attributes!Spec
=============================================================================
