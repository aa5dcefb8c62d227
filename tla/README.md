# The CSEL1 fan controller and its exercises, in TLA+

The repository holds the laboratories of a course on embedded Linux (NanoPi
NEO Plus2) and its final project. The project, `src/Projet`, is a fan
controller simulated by a blinking LED: a kernel module that blinks and
regulates, a daemon that serves keys, a display and commands, and a command
line client. Around it are kernel modules (`src/modules_Ex`), drivers
(`src/Pilote_ex2`) and programs in user space (`src/environment`). The
project and those exercises whose steps depend on each other are modelled.

## 1. Inventory

| part | its state | its operations | how it interacts |
|---|---|---|---|
| Fan driver, `Projet/module_noyau/fan_pwm_driver.c` | `mode`, `freq`, `led_trigger`, the timer, what is registered (GPIO, class, attributes) | insmod, rmmod, `timer_callback`, `toggleLed`, stores to `mode` and `freq`, `temp_gpu_show` | sysfs attributes, read and written by the daemon and by anyone else; thermal zones |
| Fan daemon, `Projet/daemon/daemon.c` | `cur_mode`, `cur_freq`, `file_descriptors`, `stop_request`, the LED's timerfd | thread main: one branch per command; thread events: `epoll_wait` and a handler per descriptor | main and events share globals without a lock; the driver through its attributes; keys and LED through GPIO files; clients through queues |
| Queues and client, `Projet/app_userspace/main.c` | two POSIX message queues, their names and their contents | one command per run of the client; `mq_receive`, dispatch and `mq_send` in the daemon | any number of clients, one daemon, each may start, stop and die at any time |
| OLED, `Projet/daemon/ssd1306.c` | one cursor, the characters shown | `ssd1306_set_position`, `ssd1306_puts`, the four `lcd_write_*` | both threads of the daemon, under `lcd_mutex_lock` |
| Wait queues, `modules_Ex/module_sommeil_5`, `module_threads_4`, `Pilote_ex2/ex7_Op_Bloq` with `environment/Ex7_Op_Bloq` | a flag (`flag`, `buttonPressed`), a wait queue, who has been woken | post and wake, wait and clear, `skeleton_poll` and `select`, start and stop of threads | kernel threads, interrupt handlers, programs |
| LED blinker, `environment/Ex5_1_sysfs_gpio/main.c` | period, duty cycle, tick counter, the LED's parity, a timerfd | the timer's handler, three keys' handlers, set-up | one thread under epoll; keys and LED through GPIO files |
| Drivers, `Pilote_ex2/*`, `modules_Ex/module_interrupt_6` | what is registered so far, `offset_minor`, buffers and their sizes, a position per open file | load and unload with every early return; open, read, write, close | programs that open a device as soon as it is there, without a lock |
| Remaining exercises: `Ex_process_socket`, `environment/daemon`, `process`, `module_base_1`, `module_mem_lib_2`, `module_IO_3` | a byte stream; a process | one actor, one order of steps | |
| Samples for tools (gdb, valgrind, perf, cgroups, mmap...), course material, boot scripts | none that outlives a step | sequential | none |

What is hard here, and what it means to be correct:

* **Driver.** A timer callback in softirq context runs beside insmod and rmmod,
  attribute handlers and their readers, on several CPUs and without a lock. It
  is correct when nothing runs after the module is gone, the LED is driven only
  while claimed, each toggle changes the LED, the beat never stops by itself,
  and the regulation reaches the values of its table.
* **Daemon.** Two threads change the mode, each in several steps. It is correct
  when the daemon, the driver and the display agree, an edge of a key is acted
  on once, the frequency is set in manual mode only, the power LED goes out.
* **Queues.** Answers carry no addressee, and the queues outlive their
  processes. They are correct when a client prints the answer to its own
  question, no command is served twice and nobody waits for ever.
* **Display.** One cursor for two threads. It is correct when every finished
  row is whole and on its place.
* **Wait queues.** The waiter looks at the flag, clears it and enters the queue
  in separate steps, while the other side sets the flag and wakes. They are
  correct when a post made outside that window is kept until it is seen, nobody
  sleeps through it, and unloading ends and leaves no thread behind.
* **Blinker.** The LED is only ever toggled, so its phase is a parity that must
  fit the tick counter for good. It is correct when it is lit for the duty
  asked for, and no key stops it.
* **Drivers.** Loading is a script that may fail at any step while programs
  already use what is registered. It is correct when each failure undoes what
  was done, a program meets bad memory only where the early registration
  explains it, and a reader gets whole messages.

`PROJECT.json` lists every component, those left out with the reason, and
under `hazards` each line of the code where such a thing may go wrong.

## 2. Plan

| order | module | subject | with | state |
|---|---|---|---|---|
| 1 | `FanAttributes`, `FanDriver`, `FanDriverProofs` | the attributes the kernel module promises, and the kernel module that implements them | INSTANCE ... WITH, as a property and as a theorem | done |
| 2 | `FrequencyLadder`, `FrequencyLadderProofs` | the steps of K1 and K2 | used by `FanDaemon` | done |
| 3 | `FanDaemon`, `FanDaemonProofs` | threads, keys, modes | EXTENDS `FrequencyLadder`, INSTANCE `FanAttributes` | done |
| 4 | `FanMailbox` | queues, clients, main thread | | done |
| 5 | `AtomicRows`, `LcdRows`, `LcdRowsProofs` | rows written at once, and the display and mutex that implement them | INSTANCE ... WITH, as a property and as a theorem | done |
| 6 | `FanMailboxProofs` | queue bounds, answers owed, matching answers, for any clients | | done |
| 7 | `DutyCycle`, `LedBlinker`, `LedBlinkerProofs` | `Ex5_1_sysfs_gpio`: an abstract blinking, and the program that implements it | INSTANCE ... WITH, as a property and as a theorem | done |
| 8 | `WakeUp`, `WakeUpProofs` | one flag and wait queue for `module_sommeil_5`, `module_threads_4`, `ex7_Op_Bloq` | | done |
| 9 | `Drivers`, `DriversProofs` | the drivers of `Pilote_ex2` and `module_interrupt_6`: loading, undoing, reading and writing | its loading of `ex7_Op_Bloq` precedes what `WakeUp` shows | done |
| 10 | `CallService` | the service of calls that clients, queues and daemon implement together | INSTANCE ... WITH in `FanMailbox`, as a property and as a theorem | done |
| 11 | `FanDaemon` | without privileges (`DriverFiles` = "read" or "none") | covered by the theorems, which hold for every value | done |
| 12 | `SocketPair`, `Daemonize` | the remaining exercises with state | | to do |

`FanDaemon` sees the driver as two attributes and the queues as commands that
arrive, `FanMailbox` sees the daemon as its receive and answer loop, and
`LcdRows` shows what the single step "write a row" of `FanDaemon` relies on.
So each interaction is taken apart in one module and atomic in the others.

`FanDaemon` and `FanDriver` meet in `FanAttributes`: the daemon's actions on the
driver are its actions, and `FanDriver` implements it.

Every safety property of the passing runs is a theorem, and of the liveness
properties the part that is safety (section 5). What is left to prove is about single
exercises: that the blinker's LED is lit in the first `duty` ticks after a key has
changed the duty in the middle of a cycle, and that nothing is given back by a driver
while a program has its device open.

## 3. The modules and the code

### FanDriver

Thread `Timer` is the softirq, `Readers` are processes in `temp_gpu_show`,
`state` is where insmod or rmmod stands. `toggleLed` is four steps (load
`led_trigger`, drive the GPIO, load again, store) because a reader on another
CPU may come in between; the callback is `Fire`, the toggle, `Rearm`
(`mod_timer`, line 48), `CheckMode`, `Sense`, `Regulate`: the period used is the
one of the *previous* regulation, as in the code. `InitZones` to `InitGroup`
follow `skeleton_init` with every early return; `ExitGroup` to `ExitGpio` follow
`skeleton_exit`. `sysfs_remove_group` waits for running attribute handlers;
`del_timer` does not wait for a running callback, and that is the difference
`Contained` and `TimerReleased` are about. `InitDevice` is `class_create` and
`device_create`, whose results nobody tests: without a device the next step kills
insmod, and the module stays for good, its timer beating (`state` "wedged"; `held`
tells what was made). When the module's memory goes
(`Abandon`), a timer still pending or a callback still running becomes an
`orphan`, and `Oops` is the moment it runs.

Numbers: `freq = freq_wr` cuts a `long` to an `int` (`ToInt`, whose half-width
is the constant `IntHalf`), `mode` becomes a `bool`, and `Period` is
`msecs_to_jiffies(1000 / freq)` on the target: an ARM division by zero gives 0,
the quotient is cut toward zero, and a negative number of milliseconds means a
timer that never fires (`Never`).

Through its attributes the driver is `FanAttributes`: stores, and a regulation that
first finds automatic mode (`Decide`) and later writes the frequency (`Regulate`) or
gives up. Between the two, manual mode and a frequency may have been written: one
regulation more then overwrites the user's frequency. `AttributesKept` says that
there is never a second one, whatever is loaded, unloaded, read and written
meanwhile; `deciding` is the callback at "sense" or "regulate".

`marks` is the history the properties need: that two toggles have overlapped
since insmod, that a negative frequency was written, that `del_timer` met a
running callback. Properties are stated under the absence of the disturbance
that breaks them, so that one run covers all environments at once.

### FrequencyLadder and FanDaemon

`Increment` and `Decrement` are `increment_freq` and `decrement_freq`; `Rungs` are the
frequencies the keys reach from 0.

`FanDaemon` has the two threads `main` and `events`. A handler is cut where the
other thread may see it half done: K3 reads `cur_mode`, stores the other value,
reads it again for `set_mode`, writes the driver, reads it again for the LCD.
`epoll_wait` is `EpollWait`, which takes everything that is ready into `batch`;
`Take` handles an event of the batch in any order. sysfs attributes are always
readable for `EPOLLIN`, so `freq` and `temp` are in every batch. A key has a `level` and an
unread `edge`. A handler's `pread` is two steps, as it is in the kernel: `KeyNoted`
notes the edges seen so far, `KeyHandler` takes the level of *now*. Edges before
the first step are merged or lost; a rising edge between the two is in the level that
is read, and is reported again, so that one press acts twice. Nothing debounces: each
rising edge of a bounce is an edge like any other. The timer's descriptor is `off`,
`armed` or `expired`. Until `Publish` the descriptor of the frequency is 0,
standard input. `Kill` ends the process anywhere; `Start` resets its globals and
nothing else, so the driver, the display and the LED keep what they had. The
driver is `FanAttributes` with the variables `drvMode`, `drvFreq` and `drvDeciding`, so that
the daemon meets the late regulation too.
`DriverFiles` says what the privileges of the process allow: `-d` drops them
before the files are opened. `credit` counts the acts that a key's rising edges still account for,
one each and two for an edge between the steps of a read; `crossed`
remembers that a setmode command and a key's handler overlapped, `met` that K3 and a
setfreq command did.

Left out: the value of the temperature (it feeds `gettemp` and a display row, nothing
else reads it), a `pread` of a key that fails (its value would then stay -1, which
counts as pressed), formatting, and other writers of the driver's attributes.

### FanMailbox

A queue is a name and an object: `income` and `outcome` are the objects there
have ever been, `inName` and `outName` what the names stand for. `Start` and the
two opens use what is left behind (`O_CREAT`); a stop command unlinks the names
one after the other; `Kill` unlinks nothing. Every `mq_open` may fail, and daemon and
clients go on without the queue, as the code does although it prints "Exiting": a
daemon without commands turns in its loop for ever and changes nothing any more, one
without a queue of answers serves commands and loses what it answers, a client
without a queue sends or waits in vain. `Send` and `Answer` block while the queue is
full. Ids of calls are ghosts: the messages themselves carry none.
`upsets` collects what has disturbed the run so far: a client opening while the
daemon creates ("early"), several clients ("crowd"), a stop, and a "failure": a client
or the daemon is killed, or `mq_open` refuses the daemon, or a client that does find
the name.

`CallService` is what all this is for: a call is planned, queued, served, answered
and printed, in this order and in one place at a time, or it is lost because there
is no queue, or because its client or its daemon is killed; an answer is printed once.
In calm times the client that asked prints it, and a call that is served is not
lost. Under the mapping the place of a
call is the set of all places it is found in, so that a copy would be seen; `calm` is
that nothing but a stop has disturbed the run. Creating, opening and unlinking queues
are stutters.

### LcdRows

The display has one cursor (`page`, `col`); a row is written by `SetPage`,
`SetColumn` and one `Put` per character, whose last column wraps to the first.
`Begin` takes the mutex; `BeginAlone` is main before it creates the thread.

`AtomicRows` is the display as the daemon's functions think of it: a text replaces the
first characters of its row at once, what stood behind them stays. The mapping
`Finished` shows the row under a hand as it will be when its writer has ended, so
that beginning is the write, and every character is a stutter.

### DutyCycle and LedBlinker

`DutyCycle` is what the program promises: cycles of `Cycle` ticks, lit in the
first `duty` of them. `LedBlinker` is `main` of `Ex5_1_sysfs_gpio`: opening the
LED and the keys, `setupTimeTimer`, the epoll loop. The timer's handler is two
steps, `Tick` (the counter, and the toggle at `duty`) and `TickEnd` (the toggle
and the reset at the end of a cycle), because with a duty of `Cycle` both toggle:
the LED goes out for a moment in every cycle, which `FullDutyLit` does not
forbid, and is lit again when the handler ends. `toggleLed` keeps the LED's
phase in a parity `k` that nothing ever sets right; `KeepsPromise` is about it.

`setupTimeTimer` arms the timer with the time it is now as an absolute time, so
an armed timer has expired at once: every key brings the next tick forward. A
period of 0 gives one tick and then none (`spent`), a negative one is refused
(`closed`). A key's handler does not seek back before it reads, and `edge` may
survive it. K1 compares before it adds: from the default of 250 ms the period
passes the maximum of 60000 by less than one step, as `PeriodKept` states.

Under the mapping a key, a batch and the first steps of a handler are
stutters; `started`, `phase` and `lit` are a function of `pc`, `count`, `led`.

### WakeUp

One module for three exercises, chosen by `prog`, because they share the
protocol: a flag that is set before a wake-up, and cleared after it was seen.
`wait_event_interruptible` is `WaitEvent`, `Enqueue`, `Test` and the sleep:
the second look, in the queue, is what makes it safe. `skeleton_poll` is
`PollTest`, `PollClear`, `PollWait`: it registers on the queue *after* it
cleared the flag. A waiter between its look and its clearing, or that has
looked and is not in the queue yet, is `Blind`; `notice` remembers whether a
post found one. `Load`, `Create`, `Unload`, `Stop`, `Join` are the modules'
life: `kthread_stop` tells, wakes and waits for the end, the waiting thread
first. Its pointer is not null when `kthread_create` fails, so waking that up
is the stage "oops".

### Drivers

Eight drivers as data for one machine, one of them twice. A script (`Ex2Init` and so on)
lists what loading acquires, in order; a step is `tested`, with the list of what that
very branch gives back, `logged`, `untested`, cannot fail, or cannot succeed. "bare" is
`ex3_fops_base_2` with `NB_Devices` = 0, which nothing refuses: `mymisc[0]` is then read
from an allocation of no bytes (`Crash`), as it is in `skeleton_1.c` when no child of
the device tree is on. The numbers of the interrupts are `unsigned`, so that "< 0"
never finds one missing: loading goes on (the step counts as `logged`), `request_irq`
refuses it (`Granted`), that is logged too, and the module goes live. `Acquire` and
`AcquireFails` run it, `GiveBack` undoes, and unloading runs the exit script.
`held` is what the kernel has of the module, so that a resource that is
forgotten, or given back twice (`excess`), is seen.

Programs open a device once its `misc_register` is done, which is before
`offset_minor`, the buffers and the sizes exist in `ex3_fops_base_2` and
`skeleton_1.c`; a failed load may leave the device behind. Every access of
`skeleton_read` and `skeleton_write` names what it may hit (`SizeFault`,
`TextFault`): a null pointer, memory of something else (the index is that of a
byte buffer, used in the array of sizes as well), or memory that is gone. A call
computes its index when it begins and keeps it: `stale` says that `offset_minor` was
not known then, and the call trespasses at whatever later step it gets to, after
loading has ended as well. A
fault ends the behaviour, since nothing is defined after it. `read` and `write`
have no lock: they are cut where the index is computed (`ReadBegin`, `WriteBegin`), and where the text,
the size and the position are touched. `raced` and `mix` are the ghosts of an overlapping writer.

## 4. The runs

| run | instance | what it shows |
|---|---|---|
| `driver` | one reader, two loads, two stores (0; a `long` whose low bits are -3), one change of temperature or sensor, a temperature on each side of a threshold | types; nothing is left behind or outlives the module but after the two known causes; the LED is driven while claimed, alternates, keeps beating; the attributes are those of `FanAttributes`; the regulation settles |
| `driver_release` | no reader, one load | **violated**: when `skeleton_exit` has "released" the timer its callback may still run and arm it again |
| `daemon` | K2 and K3, two edges, one command (`setmode 1` or `setfreq 15`), two starts with a kill in between | types; the three modes agree unless a command met a key; the LED has its timer; an edge acts once, twice only from inside a read; frequencies stay on the ladder and are written in manual mode only |
| `daemon_live` | K1, three edges, one query, stop, or setfreq of a positive or a negative number | the LED goes out and key edges are read, although epoll never sleeps |
| `daemon_modes` | K3 and `setmode` | **violated**: after both have finished, daemon, driver and display may disagree |
| `mailbox` | two clients, three calls of any kind, two slots, two starts, kills and refused opens | types; the service of `CallService`: a call goes through its places in order, is served and answered once, and is lost only with its client, its daemon or a queue; answers match, and the daemon owes one for each waiting client, with room for it |
| `mailbox_live` | two clients, three calls, one slot | clients get their answers, stop ends the daemon |
| `mailbox_startup` | one client, two calls | **violated**: an answer left behind by a client that found only one queue goes to the next call |
| `lcd` | two writers, a padded and an unpadded row, four columns | rows are written as if at once, in place, over what was there, and the mutex is given back |
| `blinker` | four ticks to a cycle, duties from -1 to 5, periods from -1 to 12, three keys | the period stays positive, the LED is lit at 100 % and blinks below, and the program implements `DutyCycle` |
| `wakeup` | the three exercises; two programs, two buttons | a post outside the window is kept, seen and wakes whoever sleeps; unloading ends and leaves nobody |
| `drivers` | the eight drivers, `ex3_fops_base_2` with two devices and with none, two programs, messages of 1, 2 and 3 bytes in a buffer of 3 | every failing step is undone or known not to be; a bad access is explained; readers get whole messages |

The violated properties quote a comment or a message of the code; `PROJECT.json`
gives the lines.

**Bounds.** Each bound is a constant counted by a variable of its own. Two
loads are needed for a timer or a claimed LED of the first to meet the second;
two stores to write a mode and a frequency in either order; `IntHalf` = 2048 keeps
1000 ms within an int and lets 4093 wrap to -3. Three edges are a press, a
release and a press of one key. In `daemon` two do: a key file just opened reports an
edge, so one press inside the first read already acts twice, and two keys pressed are
what the timer race and the batches need. There
the frequencies asked for and regulated to, 15 and 2, are rungs, so that both
parts of `OnTheLadder` apply and K2 crosses two sizes of step; `setmode 0` is left to
`daemon_modes` (here the driver's mode starts at 0 and at 1) and "stop" to
`daemon_live` (a daemon that stops leaves what a killed one leaves); two
starts are one before and one after a kill. In the queues two clients are the
least with which an answer can be taken by the wrong one, and three calls leave
one to be misled after the two have gone; one slot makes every queue full at
once. In `blinker` four ticks leave room for a duty of none, one, some and all
ticks, and a period of 5 with a step of 2 is as far off the grid as 250 with 100;
three presses take it to both limits. Two readers in `wakeup` are one that
clears the flag of the other, and two buttons one that posts while the other
wakes. In `drivers` two devices are one whose index fits and one whose index does
not, two programs are a reader and a writer or two writers, and the longest
message is the one `TooLong` refuses. In `lcd` the short text follows the long one and the reverse. Deadlock is
checked in `lcd`; elsewhere the bounds end every behaviour, or a module that
stays unloaded does, and it is not.

**Fairness.** Weak fairness of `TimerCallback`: an expired timer is run and a
callback that has begun finishes; it does not block on anybody. Weak fairness
of the daemon's threads, of `Expire` and of the processes at the queues: the
scheduler runs what is runnable, and nothing in these steps waits but for what their
guards say. In `blinker` the program's thread goes on and an armed timer
expires; in `wakeup` threads, programs, begun interrupt handlers and a begun
`rmmod` go on, which is the scheduler's promise again. `WriterStep`: the holder of the mutex only does I2C writes. Nothing
is assumed of loading, unloading, readers, stores, clients, keys, signals or
temperatures, and nothing at all in `drivers`, whose properties are all of
safety. `KeysHeard` and `LedGoesOff` except a daemon that goes down, and
`CallsReturn` somebody being killed, refused a queue, coming early or stopping the
daemon.

## 5. What is proved

All theorems hold for every value of the constants, under the named assumptions
of the module (`FanDriver`: the reader is not the timer, numbers are integers,
an int holds 1000; `FanDaemon`: the commands are those of the client, the driver
regulates to natural numbers; `FanMailbox`: there are finitely many clients;
`LcdRows`: texts fit into a row; `LedBlinker`: a cycle has two ticks or more, the
lower limit is at least one step; `WakeUp`: programs, interrupts and threads are
different; `Drivers`: there is a device and a byte to store in, sizes and lengths are
natural numbers, an index of a device is within a buffer).

* **`FanDriverProofs`.** `TypeCorrect`: 2^w arithmetic keeps `freq` an int
  (`ToIntRange`) and delays in range (`PeriodRange`). `ContainedAlways` and
  `LedClaimedAlways` come from `LifeInv`: what is registered and whether a timer
  may be pending is a function of where insmod or rmmod stands, a reader runs only
  while everything is registered, and an orphan implies a race. `Contained` alone
  is not inductive because it says nothing about the states between "live" and
  "unloaded". `NoStallAlways` builds on it: a fresh load has frequency 2, no
  step but a negative store can make the delay `Never` (`Unstopped`), and from the
  arming in `skeleton_init` to `del_timer`, or for ever when insmod has died in between,
  the timer is pending or its callback has
  still to re-arm it (`Beating`), which is the safety part of `KeepsBlinking`.
  `AttributesKeptAlways`, the refinement: a step of the callback decides, regulates or
  gives up, unloading ends a regulation with its module, a store is a store, and all
  else stutters; `LifeInv` says that a fresh module has no regulation under way.
  `LedPhaseAlways` uses
  `PhaseInv`: while no toggles have overlapped, at most one thread is in the
  middle of one, what it has loaded is the trigger, and the LED follows.
  `RegulationTable`: the regulation is monotone and gives 500, 200, 100, 50 ms.
* **`FrequencyLadderProofs`.** K2 never goes below zero, undoes K1 on the rungs,
  and both keys stay on the rungs.
* **`FanDaemonProofs`.** For any keys, commands (any number may be asked for as a
  frequency), privileges and bounds. `TypeCorrect` needs `ValueInv`: a thread about
  to store or write a mode holds 0 or 1. `OneActAlways` comes from `PressInv`: a key
  in the batch has an unread edge; a key that is down accounts for an act if its edge is
  unread, and for one more if its handler is about to read it. `LedTimedAlways` comes from `LedInv`: a key's
  handler runs with the timer armed or expired, and without GPIOs there is no light
  to forget. `ModesAgreeAlways` and `SetInManualAlways` come from `ModeInv`: as
  long as no mode change has met a key's handler, one thread at most is passing the
  mode on, what it passes on is `cur_mode`, and when none is the three modes are one
  (two of them, if the driver's cannot be written). For setfreq `SetInv` adds that the
  mode tested is still there when the frequency is written. `FreqsClosed` is about the
  stale frequency from which keys step: whatever set the keys, the commands and the
  driver's table do not leave holds every frequency read, kept, about to be
  written and written. `OnTheLadderAlways` applies it to the natural numbers and to
  `Rungs`, with the theorems of `FrequencyLadderProofs`.
* **`LcdRowsProofs`.** For any number of writers, rows and columns, from `RowInv`: one
  writer at most is at work, the cursor is where its step says, and what it has put so
  far is shown. `WrittenAtOnceAlways`, the refinement: to begin is to write
  (`BeginWrites`), and no step after it changes the finished screen (`HandWrites`), the last
  one because by then all characters are there. `RowsIntactAlways`,
  `PaddedExactAlways` and, of steps, `OwnRowOnlyAlways` say what this means for a row
  nobody writes, for padded texts and for the other rows. `LockInUseAlways` is the
  safety part of `LockReleased`: the mutex is held by a thread in the middle of a row only.
* **`FanMailboxProofs`.** For any finite set of clients, any capacity and
  bounds, from `MailInv`. `ServedOnceAlways`: that no answer is there twice is not
  inductive, because it says nothing of the commands still queued; `OnceInv` says
  that each call is in at most one place, planned by one client, in one queue of
  commands, being served, or in one queue of answers. `AnswersOwedAlways` counts:
  by `OwedInv` the commands and answers of the daemon of now are exactly as many as the
  clients that wait on its queues, so that nobody waits in vain and, with no more
  clients than slots, no answer lacks room; this is the safety part of `CallsReturn`
  and `StopServed`. It needs `PairInv`: what the names stand for
  at each step of start and stop, and that whoever asks this daemon will look
  for the answer in its queue. A client that dies or came too early, and a process that
  was refused a queue, break `PairInv`, hence the conditions of the properties. `AnswersMatchAlways` comes from `MatchInv`: while
  clients come one at a time, all that is asked, served or answered is the
  call of the one that waits. `ServiceImplemented`, the refinement: by `OnceInv` each
  call has one place or none, each step moves at most one call to the next place, and
  `MatchInv` gives the last conjunct, whose answer is printed. That a served call is
  lost in no calm time comes from `PairInv`: a daemon that serves without a queue of
  answers has been refused one.
* **`LedBlinkerProofs`.** `FullDutyAlways` and `Refinement` come from `PhaseInv`: the
  parity is even exactly while the counter is below the duty, also in the middle
  of a handler, and the LED shows the parity. `Refinement` shows that initial states
  map to initial states and that every step is a tick, the start, or a stutter
  of `DutyCycle`. `PeriodAlways` needs the period to be non-negative in the loop: a
  negative one has closed the timer before.
* **`WakeUpProofs`.** For any programs and interrupts. `NoticeKeptAlways` comes from
  `NoticeInv`, which speaks of waiters that are about to sleep as well, and from
  `QueueInv`, who is in the wait queue; without the latter a wake-up could miss a
  sleeper. Its second part, that `thread1` never sleeps over a set flag without being
  told, whatever was posted when, is the safety part of `UnloadEnds`, with the second part of
  `ThreadsEndedAlways`: the waiting thread is never left without the one that posts.
  That one comes from `LifeInv`: which threads run at each stage of loading and
  unloading.
* **`DriversProofs`.** For any programs, devices, messages and sizes, from `IInv`. What
  the scripts are is shown first, once for each (`ScriptShape`, `TidyUndo`,
  `ScriptSorted`): no step acquires what an earlier one did, the branch of a failing
  step gives back all that the earlier ones acquired where the exercise is tidy, and
  every list of what to give back goes against the order of need. The rest speaks of
  scripts in general. `BalancedAlways` needs `ForthInv` and `BackInv`: what is held
  is what the script has passed, or is still on the list; `Balanced` alone says
  nothing before the module is out. `NeedsMetAlways` needs `OrderInv`, that what needs
  something comes before it on the list. `FaultsExplainedAlways` needs `OpenInv`: whoever has
  a file open found a registered device, and is gone before unloading gives
  anything back; that a trespass is on the sizes of a later device or by an index
  computed too early is what `stale` remembers, into the live module. `ReadsWholeAlways` needs `WriteInv` (until two writers cross, one
  writer at most is between the text and the size of a device, and outside of it they
  fit) and `ReadInv` (a reader that no writer has met still sees what it decided on).

Only model-checked: liveness (and anything with ENABLED), which the proof system
does not reach, beyond the safety parts named above (and `LedTimedAlways` for
`LedGoesOff`): `Regulated`, `KeepsBlinking`, `LedGoesOff`, `KeysHeard`, `CallsReturn`,
`StopServed`, `LockReleased`, `Blinks`, `Noticed` and `UnloadEnds`.

## 6. Not modelled

`ex3_fops_base_2/skeleton_dt.c`: no device tree of the repository declares its
device, so its probe never runs. `Ex_process_socket`, `environment/daemon`,
`environment/process`, `module_base_1`, `module_mem_lib_2` and `module_IO_3`: one
actor, or two a second apart, with one order of steps (the daemonising of the
fan daemon is `DriverFiles` of `FanDaemon`). The samples for tools and the
course material, because nothing in them depends on the order of two steps. The
PDFs and the boot scripts, which are not programs of this system. In `Drivers`:
copies to and from a program that fault half-way, and the attributes of
`ex5_sysfs` that only print. In `WakeUp`: signals, which no thread of the modules
gets and no program handles. Inside the
modelled parts: text formatting and its buffers, fonts and the display's set-up,
I2C and GPIO errors, reference counts inside the kernel, and whether a function
that may sleep is called from a timer callback, which is a rule of the kernel's
contexts and not a state.
