------------------------------ MODULE FanDriver ------------------------------
(***************************************************************************)
(* The kernel module Projet/module_noyau/fan_pwm_driver.c: a timer that    *)
(* blinks a LED (the fan's speed), regulated from the CPU temperature in   *)
(* automatic mode, with its mode and frequency exported through sysfs.     *)
(*                                                                         *)
(* Contexts that run concurrently: insmod/rmmod (state), the timer's       *)
(* softirq (thread Timer), readers of temp_gpu (Readers) and writers of    *)
(* the mode and freq attributes, whose handlers are one assignment each.   *)
(* A handler is split wherever another CPU can observe it half done.       *)
(***************************************************************************)
EXTENDS Integers, FiniteSets

CONSTANTS
    Readers,      \* processes that may read temp_gpu
    Temps,        \* temperatures the thermal zones report, in millidegrees
    FreqWrites,   \* numbers written to freq (a C long)
    ModeWrites,   \* numbers written to mode (a C long)
    IntHalf,      \* 2^31 for the real int; the numbers freq can hold
    MaxStores,    \* bound: writes to mode or freq
    MaxWeather,   \* bound: changes of temperature or of the sensor's state
    MaxLoads      \* bound: insmod attempts

ASSUME ReadersAssumption == "timer" \notin Readers
ASSUME TempsAssumption == Temps # {} /\ Temps \subseteq Int
ASSUME WritesAssumption == FreqWrites \subseteq Int /\ ModeWrites \subseteq Int
ASSUME WidthAssumption == IntHalf \in Nat /\ IntHalf > 1000
ASSUME BoundsAssumption ==
    MaxStores \in Nat /\ MaxWeather \in Nat /\ MaxLoads \in Nat

VARIABLES
    state,    \* where insmod or rmmod stands; "oops" once freed code has run,
              \* "wedged" once insmod has died in skeleton_init
    held,     \* what the module has registered: "gpio", "class", "device", "attrs"
    mode,     \* 0 automatic, 1 manual
    freq,     \* the blink frequency, an int
    timer,    \* Off, or pending: Never, or the delay it was armed with, in ms
    trigger,  \* led_trigger, the level the next toggle drives
    led,      \* the level of the LED
    pc,       \* per thread, the next step of its handler
    reg,      \* per thread, the led_trigger it has loaded
    sensed,   \* the temperature the timer callback has read
    temp, sensor,   \* the thermal zone: its temperature, "ok" or "error"
    marks,    \* "orphan": a pending timer or callback has outlived the module
              \* "raced": del_timer met a running callback, or init gave up late
              \* "toggled": the LED has been driven since it was claimed
              \* "overlap": two toggles have overlapped since insmod
              \* "negative": freq has been written negative since insmod
    stores, weather, loads    \* how much of each bound is used

module  == <<state, held, loads>>
params  == <<mode, freq, stores>>
toggle  == <<trigger, led, reg>>
zone    == <<temp, sensor, weather>>
vars == <<module, params, timer, toggle, pc, sensed, zone, marks>>

Timer == "timer"
Threads == {Timer} \cup Readers

-----------------------------------------------------------------------------
(* The arithmetic.                                                         *)

\* freq = freq_wr: a long is cut to an int.
ToInt(x) == ((x + IntHalf) % (2 * IntHalf)) - IntHalf

\* mode = mode_wr: a long is converted to a bool.
ToBool(x) == IF x = 0 THEN 0 ELSE 1

\* The delay of a timer that never fires (MAX_JIFFY_OFFSET), and no timer.
Never == -1
Off == -2

\* Variant of Period: a zero frequency is refused by stopping the timer.
PeriodZeroStops(f) ==
    IF f \in -1000..0 THEN Never ELSE IF f > 0 THEN 1000 \div f ELSE 0

\* msecs_to_jiffies(1000 / freq) on the target: division by zero yields 0
\* there, the quotient is cut toward zero, a negative delay means "never".
Period(f) ==
    IF f \in -1000..-1 THEN Never
    ELSE IF f > 0 THEN 1000 \div f
    ELSE 0

\* The regulation of the automatic mode.
AutoFreq(t) ==
    IF t < 35000 THEN 2
    ELSE IF t < 40000 THEN 5
    ELSE IF t < 45000 THEN 10
    ELSE 20

-----------------------------------------------------------------------------
InitStates == {"gpio", "timer", "device", "group"}
ExitStates == {"rmdevice", "deltimer", "freegpio"}
States == {"unloaded", "live", "wedged", "oops"} \cup InitStates \cup ExitStates

Init ==
    /\ state = "unloaded" /\ held = {} /\ loads = 0
    /\ mode = 0 /\ freq = 2 /\ stores = 0
    /\ timer = Off
    /\ trigger = 0 /\ led = 0
    /\ pc = [th \in Threads |-> "idle"]
    /\ reg = [th \in Threads |-> 0]
    /\ temp \in Temps /\ sensed = temp
    /\ sensor = "ok" /\ weather = 0
    /\ marks = {}

-----------------------------------------------------------------------------
(* insmod.  A module that fails to load is freed at once.                  *)

\* The two thermal zones are looked up; the module's data is fresh.
InitZones(found) ==
    /\ state = "unloaded" /\ loads < MaxLoads
    /\ loads' = loads + 1
    /\ state' = IF found THEN "gpio" ELSE "unloaded"
    /\ mode' = 0 /\ freq' = 2 /\ trigger' = 0
    /\ marks' = marks \ {"toggled", "overlap", "negative"}
    /\ UNCHANGED <<held, stores, led, reg, timer, pc, sensed, zone>>

\* gpio_request and gpio_direction_output; busy when already claimed.
InitGpio ==
    /\ state = "gpio"
    /\ IF "gpio" \in held
       THEN state' = "unloaded" /\ UNCHANGED <<held, led>>
       ELSE state' = "timer" /\ held' = held \cup {"gpio"} /\ led' = 0
    /\ UNCHANGED <<loads, params, timer, trigger, reg, pc, sensed, zone,
                   marks>>

InitTimer ==
    /\ state = "timer"
    /\ state' = "device"
    /\ timer' = Period(freq)
    /\ UNCHANGED <<held, loads, params, toggle, pc, sensed, zone, marks>>

\* class_create and device_create, which nobody tests.  Without a device the
\* sysfs_create_group that follows kills insmod: the module can no more be
\* unloaded, nor loaded again, and its timer goes on.
InitDevice ==
    /\ state = "device"
    /\ \E made \in {{}, {"class"}, {"class", "device"}} :
          /\ held' = held \cup made
          /\ state' = IF "device" \in made THEN "group" ELSE "wedged"
    /\ UNCHANGED <<loads, params, timer, toggle, pc, sensed, zone, marks>>

\* The module's memory goes away, under whatever is still to run.
Abandon(reason) ==
    /\ marks' = marks \cup reason \cup
                 IF timer \notin {Off, Never} \/ pc[Timer] # "idle"
                 THEN {"orphan"} ELSE {}
    /\ timer' = Off
    /\ pc' = [pc EXCEPT ![Timer] = "idle"]

\* sysfs_create_group: on failure the class and its device go, the timer and the
\* LED stay.
InitGroup(created) ==
    /\ state = "group"
    /\ IF created
       THEN /\ state' = "live" /\ held' = held \cup {"attrs"}
            /\ UNCHANGED <<pc, marks, timer>>
       ELSE /\ state' = "unloaded" /\ held' = held \ {"class", "device"}
            /\ Abandon({"raced"})
    /\ UNCHANGED <<loads, params, toggle, sensed, zone>>

-----------------------------------------------------------------------------
(* rmmod.                                                                  *)

\* Variant of ExitGroup: the LED is released before the timer.
ExitGroupFreesLed ==
    /\ state = "live"
    /\ \A r \in Readers : pc[r] = "idle"
    /\ state' = "rmdevice"
    /\ held' = held \ {"attrs", "gpio"}
    /\ UNCHANGED <<loads, params, timer, toggle, pc, sensed, zone, marks>>

\* sysfs_remove_group returns once no attribute handler is running.
ExitGroup ==
    /\ state = "live"
    /\ \A r \in Readers : pc[r] = "idle"
    /\ state' = "rmdevice"
    /\ held' = held \ {"attrs"}
    /\ UNCHANGED <<loads, params, timer, toggle, pc, sensed, zone, marks>>

ExitDevice ==
    /\ state = "rmdevice"
    /\ state' = "deltimer"
    /\ held' = held \ {"class", "device"}
    /\ UNCHANGED <<loads, params, timer, toggle, pc, sensed, zone, marks>>

\* Variant of ExitTimer: the timer is forgotten.
ExitTimerForgotten ==
    /\ state = "deltimer"
    /\ state' = "freegpio"
    /\ marks' = marks \cup IF pc[Timer] # "idle" THEN {"raced"} ELSE {}
    /\ UNCHANGED <<held, loads, params, timer, toggle, pc, sensed, zone>>

\* del_timer takes a pending timer off its list and does not wait for a
\* callback that is already running.
ExitTimer ==
    /\ state = "deltimer"
    /\ state' = "freegpio"
    /\ timer' = Off
    /\ marks' = marks \cup IF pc[Timer] # "idle" THEN {"raced"} ELSE {}
    /\ UNCHANGED <<held, loads, params, toggle, pc, sensed, zone>>

ExitGpio ==
    /\ state = "freegpio"
    /\ state' = "unloaded"
    /\ held' = held \ {"gpio"}
    /\ Abandon({})
    /\ UNCHANGED <<loads, params, toggle, sensed, zone>>

\* The orphan runs code that has been freed.
Oops ==
    /\ "orphan" \in marks /\ state # "oops"
    /\ state' = "oops"
    /\ UNCHANGED <<held, loads, params, timer, toggle, pc, sensed, zone,
                   marks>>

-----------------------------------------------------------------------------
(* toggleLed, run by the timer callback and by temp_gpu_show.              *)

Running == state # "oops"

Goto(th, step) == pc' = [pc EXCEPT ![th] = step]

Toggling(th) == pc[th] \in {"drive", "reload", "flip"}

Load(th) ==
    /\ Running /\ pc[th] = "load"
    /\ reg' = [reg EXCEPT ![th] = trigger]
    /\ Goto(th, "drive")
    /\ marks' = marks \cup
                 IF \E u \in Threads : Toggling(u) THEN {"overlap"} ELSE {}
    /\ UNCHANGED <<module, params, timer, trigger, led, sensed, zone>>

\* gpio_set_value(LED, led_trigger)
Drive(th) ==
    /\ Running /\ pc[th] = "drive"
    /\ led' = reg[th] /\ marks' = marks \cup {"toggled"}
    /\ Goto(th, "reload")
    /\ UNCHANGED <<module, params, timer, trigger, reg, sensed, zone>>

\* led_trigger = led_trigger ? 0 : 1, a load and a store
Reload(th) ==
    /\ Running /\ pc[th] = "reload"
    /\ reg' = [reg EXCEPT ![th] = trigger]
    /\ Goto(th, "flip")
    /\ UNCHANGED <<module, params, timer, trigger, led, sensed, zone,
                   marks>>

\* Variant of Flip: the trigger is set, not flipped.
FlipToOne(th) ==
    /\ Running /\ pc[th] = "flip"
    /\ trigger' = 1
    /\ reg' = [reg EXCEPT ![th] = 0]
    /\ Goto(th, IF th = Timer THEN "rearm" ELSE "idle")
    /\ UNCHANGED <<module, params, timer, led, sensed, zone, marks>>

\* The value loaded is dead from here on: reg is cleared.
Flip(th) ==
    /\ Running /\ pc[th] = "flip"
    /\ trigger' = 1 - reg[th]
    /\ reg' = [reg EXCEPT ![th] = 0]
    /\ Goto(th, IF th = Timer THEN "rearm" ELSE "idle")
    /\ UNCHANGED <<module, params, timer, led, sensed, zone, marks>>

-----------------------------------------------------------------------------
(* timer_callback.                                                         *)

Fire ==
    /\ Running /\ timer \notin {Off, Never} /\ pc[Timer] = "idle"
    /\ timer' = Off
    /\ Goto(Timer, "load")
    /\ UNCHANGED <<module, params, toggle, sensed, zone, marks>>

\* Variant of Rearm: the timer is not armed again.
RearmForgotten ==
    /\ Running /\ pc[Timer] = "rearm"
    /\ Goto(Timer, "check")
    /\ UNCHANGED <<module, params, timer, toggle, sensed, zone, marks>>

\* mod_timer, with the frequency of the previous regulation
Rearm ==
    /\ Running /\ pc[Timer] = "rearm"
    /\ timer' = Period(freq)
    /\ Goto(Timer, "check")
    /\ UNCHANGED <<module, params, toggle, sensed, zone, marks>>

\* Variant of CheckMode: the modes are mixed up.
CheckModeSwapped ==
    /\ Running /\ pc[Timer] = "check"
    /\ Goto(Timer, IF mode = 1 THEN "sense" ELSE "idle")
    /\ UNCHANGED <<module, params, timer, toggle, sensed, zone, marks>>

CheckMode ==
    /\ Running /\ pc[Timer] = "check"
    /\ Goto(Timer, IF mode = 0 THEN "sense" ELSE "idle")
    /\ UNCHANGED <<module, params, timer, toggle, sensed, zone, marks>>

\* thermal_zone_get_temp; on an error the callback returns
Sense ==
    /\ Running /\ pc[Timer] = "sense"
    /\ IF sensor = "ok"
       THEN sensed' = temp /\ Goto(Timer, "regulate")
       ELSE Goto(Timer, "idle") /\ UNCHANGED sensed
    /\ UNCHANGED <<module, params, timer, toggle, zone, marks>>

Regulate ==
    /\ Running /\ pc[Timer] = "regulate"
    /\ freq' = AutoFreq(sensed)
    /\ Goto(Timer, "idle")
    /\ UNCHANGED <<module, mode, stores, timer, toggle, sensed, zone, marks>>

-----------------------------------------------------------------------------
(* The attributes.                                                         *)

ModeStore(v) ==
    /\ state = "live" /\ stores < MaxStores
    /\ mode' = ToBool(v)
    /\ stores' = stores + 1
    /\ UNCHANGED <<module, freq, timer, toggle, pc, sensed, zone, marks>>

\* Variant of FreqStore: the number is kept whole.
FreqStoreWhole(v) ==
    /\ state = "live" /\ stores < MaxStores
    /\ freq' = v
    /\ marks' = marks \cup IF freq' < 0 THEN {"negative"} ELSE {}
    /\ stores' = stores + 1
    /\ UNCHANGED <<module, mode, timer, toggle, pc, sensed, zone>>

\* accepted in either mode, for any number
FreqStore(v) ==
    /\ state = "live" /\ stores < MaxStores
    /\ freq' = ToInt(v)
    /\ marks' = marks \cup IF freq' < 0 THEN {"negative"} ELSE {}
    /\ stores' = stores + 1
    /\ UNCHANGED <<module, mode, timer, toggle, pc, sensed, zone>>

\* temp_gpu_show toggles the LED when it could read the temperature
GpuShow(r) ==
    /\ state = "live" /\ pc[r] = "idle" /\ sensor = "ok"
    /\ Goto(r, "load")
    /\ UNCHANGED <<module, params, timer, toggle, sensed, zone, marks>>

-----------------------------------------------------------------------------
(* The board.                                                              *)

Warm(t) ==
    /\ Running /\ weather < MaxWeather
    /\ temp' = t /\ weather' = weather + 1
    /\ UNCHANGED <<module, params, timer, toggle, pc, sensed, sensor, marks>>

SensorFlap ==
    /\ Running /\ weather < MaxWeather
    /\ sensor' = IF sensor = "ok" THEN "error" ELSE "ok"
    /\ weather' = weather + 1
    /\ UNCHANGED <<module, params, timer, toggle, pc, sensed, temp, marks>>

-----------------------------------------------------------------------------
Insmod == \/ \E found \in BOOLEAN : InitZones(found)
          \/ InitGpio \/ InitTimer \/ InitDevice
          \/ \E created \in BOOLEAN : InitGroup(created)
Rmmod == ExitGroup \/ ExitDevice \/ ExitTimer \/ ExitGpio
ToggleLed(th) == Load(th) \/ Drive(th) \/ Reload(th) \/ Flip(th)
TimerCallback == Fire \/ ToggleLed(Timer) \/ Rearm \/ CheckMode \/ Sense
                 \/ Regulate
Store == \/ \E v \in ModeWrites : ModeStore(v)
         \/ \E v \in FreqWrites : FreqStore(v)
Show(r) == GpuShow(r) \/ ToggleLed(r)
Board == (\E t \in Temps : Warm(t)) \/ SensorFlap

Next == Insmod \/ Rmmod \/ Oops \/ TimerCallback \/ Store
        \/ (\E r \in Readers : Show(r)) \/ Board

\* An expired timer is run and a running callback finishes; nothing obliges
\* anyone to load, unload, read or write.
Spec == Init /\ [][Next]_vars /\ WF_vars(TimerCallback)

-----------------------------------------------------------------------------
Steps == {"idle", "load", "drive", "reload", "flip"}
TimerSteps == Steps \cup {"rearm", "check", "sense", "regulate"}

\* Every variable keeps to the values its C counterpart can hold.
TypeOK ==
    /\ state \in States /\ held \subseteq {"gpio", "class", "device", "attrs"}
    /\ mode \in {0, 1} /\ freq \in -IntHalf..(IntHalf - 1)
    /\ timer \in Off..1000
    /\ trigger \in {0, 1} /\ led \in {0, 1}
    /\ pc \in [Threads -> TimerSteps] /\ \A r \in Readers : pc[r] \in Steps
    /\ reg \in [Threads -> {0, 1}]
    /\ temp \in Temps /\ sensed \in Temps /\ sensor \in {"ok", "error"}
    /\ marks \subseteq {"orphan", "raced", "toggled", "overlap", "negative"}
    /\ stores \in 0..MaxStores /\ weather \in 0..MaxWeather
    /\ loads \in 0..MaxLoads

Raced == "raced" \in marks

\* Code of an unloaded module can run only because skeleton_exit's del_timer
\* overlapped a running timer_callback or skeleton_init gave up after arming
\* the timer: on every other path loading and unloading leave nothing behind.
Contained ==
    /\ "orphan" \in marks \/ state = "oops" => Raced
    /\ state = "unloaded" /\ ~Raced => held = {}

\* Whenever toggleLed runs, in the timer callback or for a reader of temp_gpu,
\* the LED is claimed, unless del_timer has just missed a running callback.
LedClaimed ==
    /\ pc[Timer] # "idle" /\ ~Raced => "gpio" \in held
    /\ \A r \in Readers : pc[r] # "idle" => {"gpio", "device", "attrs"} \subseteq held

\* Unless two toggles have overlapped, the LED shows the level opposite to the
\* one the next toggle drives, through any loading, unloading and regulation:
\* each toggle changes the LED (comment of toggleLed).
LedPhase ==
    /\ state = "live" /\ {"toggled", "overlap"} \cap marks = {"toggled"}
    /\ \A th \in Threads : pc[th] \notin {"reload", "flip"}
    => led = 1 - trigger

\* The next toggle is on its way: the timer is armed, or the callback that took it
\* has still to arm it again.
Armed ==
    \/ timer \notin {Off, Never}
    \/ pc[Timer] \in {"load", "drive", "reload", "flip", "rearm"}

\* A timer that never fires again is the work of a number that is negative as
\* an int: until one is written the fan's beat cannot be stopped, neither by a
\* zero, a regulation nor a sensor that fails, from the arming of the timer in
\* skeleton_init to its release in skeleton_exit, or for ever if insmod has died.
NoStall ==
    "negative" \notin marks =>
        /\ freq >= 0 /\ timer # Never
        /\ state \in {"device", "group", "live", "wedged", "rmdevice", "deltimer"}
             => Armed

\* Seen through its attributes.
Attributes == INSTANCE FanAttributes WITH
    Table <- {AutoFreq(t) : t \in Temps}, Numbers <- {ToInt(v) : v \in FreqWrites},
    deciding <- pc[Timer] \in {"sense", "regulate"}

\* The mode and the frequency are the user's in manual mode, but for one regulation
\* that has tested the mode before it was written and writes the frequency after:
\* whatever is loaded, unloaded, read and written meanwhile, there is never a second.
AttributesKept == Attributes!Spec

\* When skeleton_exit has released the timer, it is off and no callback runs
\* (comment of skeleton_exit before its del_timer).
TimerReleased ==
    state = "freegpio" => timer = Off /\ pc[Timer] = "idle"

\* Nothing more disturbs an automatic, live driver.
Settled ==
    /\ state = "live" /\ mode = 0 /\ sensor = "ok"
    /\ stores = MaxStores /\ weather = MaxWeather

\* In automatic mode, with the temperature at rest, the frequency and then the
\* timer's period reach the values of the regulation table, whatever was
\* written to freq before, unless the timer was stopped by a negative one.
Regulated ==
    Settled ~> \/ ~Settled
               \/ timer = Never
               \/ freq = AutoFreq(temp) /\ timer = Period(AutoFreq(temp))

\* As long as the driver stays loaded the LED keeps being driven, unless the
\* timer was stopped by a negative frequency; also when insmod has died.
KeepsBlinking ==
    []<>(pc[Timer] = "drive" \/ state \notin {"live", "wedged"} \/ timer = Never)
=============================================================================
