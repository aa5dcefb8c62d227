------------------------------ MODULE FanDaemon ------------------------------
(***************************************************************************)
(* The fan daemon, Projet/daemon/daemon.c: one process, two threads.       *)
(*                                                                         *)
(*   main    serves commands: set the mode, set the frequency, queries,    *)
(*           stop (what carries them is the subject of FanMailbox);        *)
(*   events  waits in epoll for the keys K1, K2, K3, the LED's timer and   *)
(*           the driver's attributes, and calls their handlers in turn.    *)
(*                                                                         *)
(* They share cur_mode, cur_freq, file_descriptors and stop_request        *)
(* without a lock, and the LCD's rows under lcd_mutex_lock (what that lock *)
(* protects is the subject of LcdRows; here writing a row is one step).    *)
(* The driver is seen through its attributes, as FanAttributes promises    *)
(* them and FanDriver implements them: its mode, and a frequency it        *)
(* changes by itself in automatic mode, once even a little later.          *)
(***************************************************************************)
EXTENDS FrequencyLadder, FiniteSets

CONSTANTS
    Keys,         \* the keys in use, a subset of {"k1", "k2", "k3"}
    Commands,     \* the commands clients send
    DriverFiles,  \* the driver's attributes can be opened: "write", only to
                  \* "read" (started with -d, after seteuid), or "none"
    Gpio,         \* the GPIOs can be exported and opened
    AutoFreqs,    \* frequencies the driver sets in automatic mode
    MaxEdges,     \* bound: key presses and releases
    MaxCommands,  \* bound: commands received
    MaxStarts     \* bound: starts of the daemon

Queries == {"getmode", "getfreq", "gettemp"}

ASSUME KeysAssumption == Keys \subseteq {"k1", "k2", "k3"}
ASSUME CommandsAssumption ==
    Commands \subseteq [name : {"setmode"}, value : {0, 1}]
                       \cup [name : {"setfreq"}, value : Int]
                       \cup [name : Queries \cup {"stop"}, value : {0}]
ASSUME AccessAssumption ==
    DriverFiles \in {"none", "read", "write"} /\ Gpio \in BOOLEAN
ASSUME AutoFreqsAssumption == AutoFreqs \subseteq Nat /\ AutoFreqs # {}
ASSUME BoundsAssumption ==
    MaxEdges \in Nat /\ MaxCommands \in Nat /\ MaxStarts \in Nat

VARIABLES
    pc,            \* per thread, its next step; "down" when it does not run
    cmd,           \* main: the command being served
    answer,        \* main: the answer about to be sent, "none" otherwise
    arg,           \* per thread, a value it has read and is about to use
    cur_mode, cur_freq, stop_request,
    freq_fd,       \* file_descriptors.freq_fd: "stdin" (0), "driver", "failed"
    batch,         \* events: what epoll_wait returned and is still to handle
    timerfd,       \* "off", "armed" or "expired"
    led,           \* the power LED
    lcdMode,       \* the mode shown on the LCD
    drvMode, drvFreq,    \* the driver's attributes
    drvDeciding,   \* the driver has a regulation under way
    level, edge,   \* per key: pressed or not, and an edge not read yet
    credit,        \* ghost, per key: the acts its rising edges still account for
    crossed,       \* ghost: since the start, a change of mode by one thread
                   \* has overlapped a use of the mode by the other
    met,           \* ghost: since the start, a change of mode by K3 has
                   \* overlapped a setfreq command
    edges, commands, starts     \* how much of each bound is used

mainv    == <<cmd, answer, commands>>
overlaps == <<crossed, met>>
shared   == <<cur_mode, stop_request, overlaps>>
eventv   == <<cur_freq, batch>>
blink    == <<timerfd, led>>
driver   == <<drvMode, drvFreq, drvDeciding>>
keys     == <<level, edge, credit, edges>>
vars == <<pc, arg, mainv, shared, eventv, freq_fd, blink, lcdMode, driver,
          keys, starts>>

Driver == INSTANCE FanAttributes WITH
    Table <- AutoFreqs, Numbers <- Int,
    mode <- drvMode, freq <- drvFreq, deciding <- drvDeciding

Threads == {"main", "events"}
NoCommand == [name |-> "none", value |-> 0]

\* The step in which the handler of a key is about to read its level.
ReadOf == [k1 |-> "readK1", k2 |-> "readK2", k3 |-> "readK3"]

Goto(th, step) == pc' = [pc EXCEPT ![th] = step]
Hold(th, value) == arg' = [arg EXCEPT ![th] = value]

-----------------------------------------------------------------------------
Init ==
    /\ pc = [th \in Threads |-> "down"] /\ arg = [th \in Threads |-> 0]
    /\ cmd = NoCommand /\ answer = "none" /\ commands = 0
    /\ crossed = FALSE /\ met = FALSE
    /\ cur_mode = 0 /\ cur_freq = 0 /\ stop_request = 0
    /\ freq_fd = "stdin" /\ batch = {}
    /\ timerfd = "off" /\ led = 0 /\ lcdMode = 0
    /\ drvMode \in {0, 1} /\ drvFreq \in AutoFreqs /\ drvDeciding \in BOOLEAN
    /\ level = [k \in Keys |-> 0] /\ edge = [k \in Keys |-> FALSE]
    /\ credit = [k \in Keys |-> 0]
    /\ edges = 0 /\ starts = 0

-----------------------------------------------------------------------------
(* The process starts, stops and dies.                                     *)

\* A new process: its globals are zero, its timer and its descriptors gone.
Start ==
    /\ pc["main"] = "down" /\ starts < MaxStarts
    /\ starts' = starts + 1
    /\ Goto("main", "readmode")
    /\ cur_mode' = 0 /\ cur_freq' = 0 /\ stop_request' = 0
    /\ crossed' = FALSE /\ met' = FALSE
    /\ freq_fd' = "stdin" /\ batch' = {} /\ timerfd' = "off"
    /\ cmd' = NoCommand /\ answer' = "none"
    /\ UNCHANGED <<arg, commands, led, lcdMode, driver, keys>>

\* Variant of StartMode: automatic mode is assumed.
StartModeAssumed ==
    /\ pc["main"] = "readmode"
    /\ cur_mode' = 0
    /\ Goto("main", "showmode")
    /\ UNCHANGED <<arg, mainv, stop_request, overlaps, eventv, freq_fd, blink, lcdMode,
                   driver, keys, starts>>

\* cur_mode = get_mode(): 0 when the file cannot be opened.
StartMode ==
    /\ pc["main"] = "readmode"
    /\ cur_mode' = IF DriverFiles = "none" THEN 0 ELSE drvMode
    /\ Goto("main", "showmode")
    /\ UNCHANGED <<arg, mainv, stop_request, overlaps, eventv, freq_fd, blink, lcdMode,
                   driver, keys, starts>>

\* lcd_write_mode(cur_mode), then pthread_create
StartEvents ==
    /\ pc["main"] = "showmode"
    /\ lcdMode' = cur_mode
    /\ pc' = [main |-> "receive", events |-> "open"]
    /\ UNCHANGED <<arg, mainv, shared, eventv, freq_fd, blink, driver, keys,
                   starts>>

\* main returns from its loop, cleans up, and takes the process down.
Exit ==
    /\ pc["main"] = "cleanup"
    /\ pc' = [th \in Threads |-> "down"]
    /\ UNCHANGED <<arg, mainv, shared, eventv, freq_fd, blink, lcdMode, driver,
                   keys, starts>>

\* A signal kills the process between any two steps (not started with -d).
Kill ==
    /\ pc["main"] # "down"
    /\ pc' = [th \in Threads |-> "down"]
    /\ UNCHANGED <<arg, mainv, shared, eventv, freq_fd, blink, lcdMode, driver,
                   keys, starts>>

-----------------------------------------------------------------------------
(* The helpers of both threads.                                            *)

\* set_mode(cur_mode): the argument is read, the file opened and written,
SetModeRead(th) ==
    /\ pc[th] = "modeRead"
    /\ Hold(th, cur_mode)
    /\ Goto(th, "modeWrite")
    /\ UNCHANGED <<mainv, shared, eventv, freq_fd, blink, lcdMode, driver,
                   keys, starts>>

SetModeWrite(th) ==
    /\ pc[th] = "modeWrite"
    /\ IF DriverFiles = "write" THEN Driver!StoreMode(arg[th]) ELSE UNCHANGED driver
    /\ Goto(th, "modeShow")
    /\ UNCHANGED <<arg, mainv, shared, eventv, freq_fd, blink, lcdMode, keys,
                   starts>>

\* and the mode of that moment is shown, under lcd_mutex_lock.
SetModeShow(th) ==
    /\ pc[th] = "modeShow"
    /\ lcdMode' = cur_mode
    /\ Goto(th, IF th = "main" THEN "receive" ELSE "next")
    /\ UNCHANGED <<arg, mainv, shared, eventv, freq_fd, blink, driver, keys,
                   starts>>

\* set_freq: written wherever file_descriptors.freq_fd leads; a failure of
\* pwrite is ignored.
SetFreq(value) ==
    IF freq_fd = "driver" THEN Driver!StoreFreq(value) ELSE UNCHANGED driver

-----------------------------------------------------------------------------
(* main: the command loop.                                                 *)

\* main is changing the mode; events is using it.
Changing == pc["main"] \in {"setmode", "modeRead", "modeWrite", "modeShow"}
Using == pc["events"] \in {"k1", "k2", "keyWrite", "k3", "toggle", "modeRead",
                           "modeWrite", "modeShow"}

\* K3 is changing the mode; main is setting the frequency.
Toggling == pc["events"] \in {"k3", "toggle", "modeRead", "modeWrite"}
Setting == pc["main"] \in {"setfreq", "freqWrite"}

\* mq_receive, and the dispatch on the command's name
Receive(c) ==
    /\ pc["main"] = "receive" /\ commands < MaxCommands
    /\ commands' = commands + 1
    /\ cmd' = c
    /\ Goto("main", c.name)
    /\ crossed' = (crossed \/ (c.name = "setmode" /\ Using))
    /\ met' = (met \/ (c.name = "setfreq" /\ Toggling))
    /\ UNCHANGED <<arg, answer, cur_mode, stop_request, eventv, freq_fd, blink,
                   lcdMode, driver, keys, starts>>

Stop ==
    /\ pc["main"] = "stop"
    /\ stop_request' = 1
    /\ Goto("main", "cleanup")
    /\ UNCHANGED <<arg, mainv, cur_mode, overlaps, eventv, freq_fd, blink, lcdMode,
                   driver, keys, starts>>

\* Variant of SetMode: the driver is not told.
SetModeUntold ==
    /\ pc["main"] = "setmode"
    /\ cur_mode' = cmd.value
    /\ Goto("main", "modeShow")
    /\ UNCHANGED <<arg, mainv, stop_request, overlaps, eventv, freq_fd, blink, lcdMode,
                   driver, keys, starts>>

\* cur_mode = value; then set_mode(cur_mode) and the LCD
SetMode ==
    /\ pc["main"] = "setmode"
    /\ cur_mode' = cmd.value
    /\ Goto("main", "modeRead")
    /\ UNCHANGED <<arg, mainv, stop_request, overlaps, eventv, freq_fd, blink, lcdMode,
                   driver, keys, starts>>

\* Variant of SetFreqTest: the mode is not tested.
SetFreqUntested ==
    /\ pc["main"] = "setfreq"
    /\ Goto("main", "freqWrite")
    /\ UNCHANGED <<arg, mainv, shared, eventv, freq_fd, blink, lcdMode, driver,
                   keys, starts>>

\* The mode is tested first; the frequency is written a step later.
SetFreqTest ==
    /\ pc["main"] = "setfreq"
    /\ IF cur_mode = 1
       THEN Goto("main", "freqWrite") /\ UNCHANGED answer
       ELSE Goto("main", "send") /\ answer' = "AUTO"
    /\ UNCHANGED <<arg, cmd, commands, shared, eventv, freq_fd, blink, lcdMode,
                   driver, keys, starts>>

SetFreqWrite ==
    /\ pc["main"] = "freqWrite"
    /\ SetFreq(cmd.value)
    /\ answer' = "OK"
    /\ Goto("main", "send")
    /\ UNCHANGED <<arg, cmd, commands, shared, eventv, freq_fd, blink, lcdMode,
                   keys, starts>>

\* getfreq and gettemp answer what the events thread last read, getmode what
\* the driver's file holds.
Query ==
    /\ pc["main"] \in Queries
    /\ answer' = cmd.name
    /\ Goto("main", "send")
    /\ UNCHANGED <<arg, cmd, commands, shared, eventv, freq_fd, blink, lcdMode,
                   driver, keys, starts>>

Send ==
    /\ pc["main"] = "send"
    /\ answer' = "none"
    /\ Goto("main", "receive")
    /\ UNCHANGED <<arg, cmd, commands, shared, eventv, freq_fd, blink, lcdMode,
                   driver, keys, starts>>

-----------------------------------------------------------------------------
(* events: the epoll loop.                                                 *)

\* The GPIOs are set up (the LED's direction "out" drives it low) and the
\* files opened.  A value file just opened reports an edge, so a key held
\* down at this moment will count as a press.
Open ==
    /\ pc["events"] = "open"
    /\ led' = IF Gpio THEN 0 ELSE led
    /\ edge' = [k \in Keys |-> TRUE]
    /\ credit' = level
    /\ Goto("events", "publish")
    /\ UNCHANGED <<arg, mainv, shared, eventv, freq_fd, timerfd, lcdMode,
                   driver, level, edges, starts>>

\* file_descriptors is filled; until now main has seen descriptor 0.
Publish ==
    /\ pc["events"] = "publish"
    /\ freq_fd' = IF DriverFiles = "write" THEN "driver" ELSE "failed"
    /\ Goto("events", "wait")
    /\ UNCHANGED <<arg, mainv, shared, eventv, blink, lcdMode, driver, keys,
                   starts>>

Readable == (IF timerfd = "expired" THEN {"timer"} ELSE {}) \cup
            (IF DriverFiles = "write" THEN {"freq"} ELSE {}) \cup
            (IF DriverFiles # "none" THEN {"temp"} ELSE {})

\* Variants of Ready: the keys registered for their level (EPOLLIN), and not
\* registered at all.
ReadyByLevel == Readable \cup (IF Gpio THEN Keys ELSE {})

ReadyWithoutKeys == Readable

\* EPOLLIN: a sysfs attribute is always readable, the timer when it has
\* expired.  EPOLLPRI: a key's edge is unread.
Ready == Readable \cup (IF Gpio THEN {k \in Keys : edge[k]} ELSE {})

\* while (!stop_request) epoll_wait(...)
EpollWait ==
    /\ pc["events"] = "wait" /\ stop_request = 0
    /\ batch' = Ready
    /\ Goto("events", "next")
    /\ UNCHANGED <<arg, mainv, shared, cur_freq, freq_fd, blink, lcdMode,
                   driver, keys, starts>>

EventsExit ==
    /\ pc["events"] = "wait" /\ stop_request = 1
    /\ Goto("events", "down")
    /\ UNCHANGED <<arg, mainv, shared, eventv, freq_fd, blink, lcdMode, driver,
                   keys, starts>>

BatchDone ==
    /\ pc["events"] = "next" /\ batch = {}
    /\ Goto("events", "wait")
    /\ UNCHANGED <<arg, mainv, shared, eventv, freq_fd, blink, lcdMode, driver,
                   keys, starts>>

Take(event) ==
    /\ pc["events"] = "next" /\ event \in batch
    /\ batch' = batch \ {event}

\* freq_handler: cur_freq follows the driver's file.
FreqHandler ==
    /\ Take("freq")
    /\ cur_freq' = drvFreq
    /\ UNCHANGED <<pc, arg, mainv, shared, freq_fd, blink, lcdMode, driver,
                   keys, starts>>

\* cpu_temp_handler: the temperature is kept for gettemp and shown.  Which one
\* it is makes no difference to anything else; that it takes its turn does.
TempHandler ==
    /\ Take("temp")
    /\ UNCHANGED <<pc, arg, mainv, shared, cur_freq, freq_fd, blink, lcdMode,
                   driver, keys, starts>>

\* Variant of TimerHandler: the LED is left as it is.
TimerHandlerDark ==
    /\ Take("timer")
    /\ timerfd' = "off"
    /\ UNCHANGED <<pc, arg, mainv, shared, cur_freq, freq_fd, led, lcdMode,
                   driver, keys, starts>>

\* timer_handler: the timer is disarmed, then the LED put out.
TimerHandler ==
    /\ Take("timer")
    /\ timerfd' = "off"
    /\ Goto("events", "ledOff")
    /\ UNCHANGED <<arg, mainv, shared, cur_freq, freq_fd, led, lcdMode, driver,
                   keys, starts>>

LedOff ==
    /\ pc["events"] = "ledOff"
    /\ led' = 0
    /\ Goto("events", "next")
    /\ UNCHANGED <<arg, mainv, shared, eventv, freq_fd, timerfd, lcdMode,
                   driver, keys, starts>>

\* k1_handler, k2_handler, k3_handler read the key's value.  The read notes the
\* attribute's event counter first, so the edge is no longer reported,
KeyNoted(k) ==
    /\ Take(k)
    /\ edge' = [edge EXCEPT ![k] = FALSE]
    /\ Goto("events", ReadOf[k])
    /\ UNCHANGED <<arg, mainv, shared, cur_freq, freq_fd, blink, lcdMode,
                   driver, level, credit, edges, starts>>

\* Variant of KeyHandler: the timer is not armed.
KeyHandlerUntimed(k) ==
    /\ pc["events"] = ReadOf[k]
    /\ IF level[k] = 1
       THEN /\ credit' = [credit EXCEPT ![k] = @ - 1]
            /\ crossed' = (crossed \/ Changing)
            /\ met' = (met \/ (k = "k3" /\ Setting))
            /\ Goto("events", k)
       ELSE Goto("events", "next") /\ UNCHANGED <<credit, overlaps>>
    /\ UNCHANGED <<arg, mainv, cur_mode, stop_request, eventv, freq_fd, blink,
                   lcdMode, driver, level, edge, edges, starts>>

\* and takes the level after: an edge in between is in the value that is read,
\* and is reported again.  A key that reads released is ignored; a pressed one
\* arms the timer first.  Nothing debounces a key.
KeyHandler(k) ==
    /\ pc["events"] = ReadOf[k]
    /\ IF level[k] = 1
       THEN /\ credit' = [credit EXCEPT ![k] = @ - 1]
            /\ timerfd' = "armed"
            /\ crossed' = (crossed \/ Changing)
            /\ met' = (met \/ (k = "k3" /\ Setting))
            /\ Goto("events", k)
       ELSE Goto("events", "next") /\ UNCHANGED <<credit, timerfd, overlaps>>
    /\ UNCHANGED <<arg, mainv, cur_mode, stop_request, eventv, freq_fd, led,
                   lcdMode, driver, level, edge, edges, starts>>

\* The LED is lit, and K1 or K2 tests the mode before it steps the frequency
\* of the cached cur_freq; K2 at zero writes nothing.
FreqKey(k, steps, target) ==
    /\ pc["events"] = k
    /\ led' = 1
    /\ IF cur_mode = 1 /\ steps
       THEN Hold("events", target) /\ Goto("events", "keyWrite")
       ELSE UNCHANGED arg /\ Goto("events", "next")
    /\ UNCHANGED <<mainv, shared, eventv, freq_fd, timerfd, lcdMode, driver,
                   keys, starts>>

K1 == FreqKey("k1", TRUE, Increment(cur_freq))
K2 == FreqKey("k2", cur_freq > 0, Decrement(cur_freq))

KeyWrite ==
    /\ pc["events"] = "keyWrite"
    /\ SetFreq(arg["events"])
    /\ Goto("events", "next")
    /\ UNCHANGED <<arg, mainv, shared, eventv, freq_fd, blink, lcdMode,
                   keys, starts>>

\* Variant of K3: the mode is counted up.
K3Counts ==
    /\ pc["events"] = "k3"
    /\ led' = 1
    /\ Hold("events", cur_mode + 1)
    /\ Goto("events", "toggle")
    /\ UNCHANGED <<mainv, shared, eventv, freq_fd, timerfd, lcdMode, driver,
                   keys, starts>>

\* K3 reads cur_mode, then stores the other mode, then passes it on.
K3 ==
    /\ pc["events"] = "k3"
    /\ led' = 1
    /\ Hold("events", IF cur_mode = 0 THEN 1 ELSE 0)
    /\ Goto("events", "toggle")
    /\ UNCHANGED <<mainv, shared, eventv, freq_fd, timerfd, lcdMode, driver,
                   keys, starts>>

Toggle ==
    /\ pc["events"] = "toggle"
    /\ cur_mode' = arg["events"]
    /\ Goto("events", "modeRead")
    /\ UNCHANGED <<arg, mainv, stop_request, overlaps, eventv, freq_fd, blink, lcdMode,
                   driver, keys, starts>>

-----------------------------------------------------------------------------
(* Around the process.                                                     *)

\* The one-second timer of the LED.
Expire ==
    /\ timerfd = "armed" /\ pc["main"] # "down"
    /\ timerfd' = "expired"
    /\ UNCHANGED <<pc, arg, mainv, shared, eventv, freq_fd, led, lcdMode,
                   driver, keys, starts>>

\* A key goes down or up, bounces included: an edge for epoll (the attribute's
\* edge is "both").  A rising edge between the two steps of the key's read
\* accounts for two acts, any other for one.
Press(k) ==
    /\ edges < MaxEdges
    /\ edges' = edges + 1
    /\ level' = [level EXCEPT ![k] = 1 - @]
    /\ edge' = [edge EXCEPT ![k] = TRUE]
    /\ credit' = [credit EXCEPT ![k] =
                     IF level[k] = 1 THEN @
                     ELSE IF pc["events"] = ReadOf[k] THEN @ + 2 ELSE @ + 1]
    /\ UNCHANGED <<pc, arg, mainv, shared, eventv, freq_fd, blink, lcdMode,
                   driver, starts>>

\* The driver regulates the frequency.
Regulate ==
    /\ Driver!Regulation
    /\ UNCHANGED <<pc, arg, mainv, shared, eventv, freq_fd, blink, lcdMode,
                   keys, starts>>

-----------------------------------------------------------------------------
SetModeSteps(th) == SetModeRead(th) \/ SetModeWrite(th) \/ SetModeShow(th)

\* What main does without waiting for anyone.
MainStep == \/ StartMode \/ StartEvents \/ Exit
            \/ Stop \/ SetMode \/ SetFreqTest \/ SetFreqWrite \/ Query \/ Send
            \/ SetModeSteps("main")

EventsStep == \/ Open \/ Publish \/ EpollWait \/ EventsExit \/ BatchDone
              \/ FreqHandler \/ TempHandler \/ TimerHandler \/ LedOff
              \/ (\E k \in Keys : KeyNoted(k) \/ KeyHandler(k))
              \/ K1 \/ K2 \/ KeyWrite \/ K3 \/ Toggle
              \/ SetModeSteps("events")

Environment == \/ Start \/ Kill \/ Regulate
               \/ \E c \in Commands : Receive(c)
               \/ \E k \in Keys : Press(k)

Next == MainStep \/ EventsStep \/ Expire \/ Environment

\* A runnable thread runs and a timer expires.  Nothing obliges clients to
\* send, keys to be pressed, or anyone to start the daemon.
Spec == /\ Init /\ [][Next]_vars
        /\ WF_vars(MainStep) /\ WF_vars(EventsStep) /\ WF_vars(Expire)

-----------------------------------------------------------------------------
MainSteps == {"down", "readmode", "showmode", "receive", "stop", "setmode",
              "setfreq", "freqWrite", "send", "cleanup", "modeRead",
              "modeWrite", "modeShow"} \cup Queries
EventsSteps == {"down", "open", "publish", "wait", "next", "ledOff", "readK1",
                "readK2", "readK3", "k1", "k2", "k3", "keyWrite", "toggle",
                "modeRead", "modeWrite", "modeShow"}

\* Every variable keeps to its values; the driver and the LCD are only ever
\* given the two modes, through every toggle and command.
TypeOK ==
    /\ pc \in [Threads -> MainSteps \cup EventsSteps]
    /\ pc["main"] \in MainSteps /\ pc["events"] \in EventsSteps
    /\ arg \in [Threads -> Int]
    /\ cmd \in Commands \cup {NoCommand}
    /\ answer \in {"none", "OK", "AUTO"} \cup Queries
    /\ crossed \in BOOLEAN /\ met \in BOOLEAN
    /\ cur_mode \in {0, 1} /\ stop_request \in {0, 1} /\ cur_freq \in Int
    /\ freq_fd \in {"stdin", "driver", "failed"}
    /\ batch \subseteq Keys \cup {"freq", "temp", "timer"}
    /\ timerfd \in {"off", "armed", "expired"} /\ led \in {0, 1}
    /\ lcdMode \in {0, 1} /\ drvMode \in {0, 1} /\ drvFreq \in Int
    /\ drvDeciding \in BOOLEAN
    /\ level \in [Keys -> {0, 1}] /\ edge \in [Keys -> BOOLEAN]
    /\ credit \in [Keys -> Int]
    /\ edges \in 0..MaxEdges /\ commands \in 0..MaxCommands
    /\ starts \in 0..MaxStarts

\* Neither thread is in the middle of changing the mode.
Quiet == /\ pc["main"] \in {"receive", "send"} \cup Queries
         /\ pc["events"] \in {"open", "publish", "wait", "next"}

\* Outside a change of mode the daemon's cur_mode, the driver's mode and the
\* mode on the LCD agree, after a kill and a restart too: an "AUTO" answer
\* ("Fan is in auto mode. Cannot set freq.") and the LCD tell the truth.
ModesAgree == Quiet => cur_mode = drvMode /\ lcdMode = drvMode

\* They do as long as no setmode command has overlapped a key's handler, but for
\* the driver if the daemon may not write its mode (started with -d): then the
\* LCD still shows the mode by which the daemon accepts and refuses.
ModesAgreeApart ==
    Quiet /\ ~crossed => /\ lcdMode = cur_mode
                         /\ DriverFiles = "write" => cur_mode = drvMode

\* The power LED is lit only while its timer runs or its end is being handled:
\* no order of presses and expirations leaves it on without a timer.
LedTimed ==
    pc["main"] # "down" /\ pc["events"] \notin {"down", "open", "ledOff"} /\ led = 1
        => timerfd # "off"

\* A rising edge of a key is acted on once at most, whatever the batches of epoll
\* and the edges in between; twice at most when it comes while the key's handler
\* is between noting the edges and reading the level.  A key held down while the
\* daemon starts counts as one edge.
OneActPerEdge == \A k \in Keys : credit[k] >= 0

\* The daemon changes the driver's frequency only while the driver is in manual
\* mode: by a key ("Cannot change freq in auto mode"), as long as no setmode
\* command has overlapped a key's handler; by setfreq ("Fan is in auto mode.
\* Cannot set freq."), if no setfreq has overlapped a K3 either.
SetOnlyInManual ==
    [][drvFreq' # drvFreq /\ ~crossed =>
         /\ KeyWrite => drvMode = 1
         /\ SetFreqWrite /\ ~met => drvMode = 1]_vars

\* The frequencies clients ask for.
Asked == {c.value : c \in {d \in Commands : d.name = "setfreq"}}

\* The keys never take the frequency below zero, where the driver's timer stops,
\* unless a client has asked for a negative one; nor do they leave the ladder, where
\* K2 takes back what K1 did: although they step from a frequency that may no
\* longer be the driver's.
OnTheLadder ==
    /\ Asked \subseteq Nat => drvFreq \in Nat /\ cur_freq \in Nat
    /\ AutoFreqs \cup Asked \subseteq Rungs => drvFreq \in Rungs /\ cur_freq \in Rungs

\* The LED goes out again unless the daemon stops or dies first.
LedGoesOff == led = 1 ~> (led = 0 \/ pc["main"] = "down")

\* An edge of a key is read, the always-readable attributes notwithstanding,
\* unless the daemon stops or dies first.
KeysHeard ==
    \A k \in Keys : edge[k] /\ pc["events"] = "wait"
                      ~> ~edge[k] \/ pc["events"] = "down"
=============================================================================
