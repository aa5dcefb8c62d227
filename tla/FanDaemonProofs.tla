--------------------------- MODULE FanDaemonProofs ---------------------------
(***************************************************************************)
(* What holds of FanDaemon for any keys, commands, privileges and bounds.  *)
(***************************************************************************)
EXTENDS FanDaemon, FrequencyLadderProofs, TLAPS

\* What a thread is about to use as a mode is one, and main serves the command
\* it has dispatched on: TypeOK alone does not say so.
ValueInv ==
    /\ \A th \in Threads : pc[th] \in {"toggle", "modeWrite"} => arg[th] \in {0, 1}
    /\ pc["main"] \in {"setmode"} \cup Queries =>
         cmd \in Commands /\ cmd.name = pc["main"]

TypeInv == TypeOK /\ ValueInv

LEMMA CommandTypes ==
  \A c \in Commands \cup {NoCommand} :
      /\ c.value \in Int
      /\ c.name = "setmode" => c.value \in {0, 1}
      /\ c # NoCommand => c.name \in {"setmode", "setfreq", "stop"} \cup Queries
BY CommandsAssumption DEF NoCommand, Queries

\* The steps of the driver's attributes, by the daemon and by the driver.
LEMMA DriverModes ==
  ASSUME NEW th, SetModeWrite(th)
  PROVE  /\ drvMode' = IF DriverFiles = "write" THEN arg[th] ELSE drvMode
         /\ UNCHANGED <<drvFreq, drvDeciding>>
BY DEF SetModeWrite, Driver!StoreMode, driver

LEMMA DriverFreqs ==
  ASSUME NEW value, SetFreq(value)
  PROVE  /\ drvFreq' = IF freq_fd = "driver" THEN value ELSE drvFreq
         /\ UNCHANGED <<drvMode, drvDeciding>>
BY DEF SetFreq, Driver!StoreFreq, driver

LEMMA DriverRegulates ==
  ASSUME drvDeciding \in BOOLEAN, Regulate
  PROVE  /\ drvFreq' \in AutoFreqs \cup {drvFreq}
         /\ drvMode' = drvMode /\ drvDeciding' \in BOOLEAN
BY DEF Regulate, Driver!Regulation, Driver!Decide, Driver!Regulate, Driver!GiveUp

\* The step in which a key is read is its own.
LEMMA ReadSteps ==
  \A k \in Keys : /\ ReadOf[k] \in {"readK1", "readK2", "readK3"}
                  /\ \A j \in Keys : ReadOf[j] = ReadOf[k] => j = k
BY KeysAssumption DEF ReadOf

\* After its read a key acts or is done with.
LEMMA KeyOutcome ==
  ASSUME NEW k \in Keys, KeyHandler(k)
  PROVE  pc' = [pc EXCEPT !["events"] = IF level[k] = 1 THEN k ELSE "next"]
  <1>1. CASE level[k] = 1
    BY <1>1 DEF KeyHandler, Goto
  <1>2. CASE level[k] # 1
    BY <1>2 DEF KeyHandler, Goto
  <1> QED BY <1>1, <1>2

LEMMA TypeInit == Init => TypeInv
  <1> SUFFICES ASSUME Init PROVE TypeInv
    OBVIOUS
  <1> USE DEF Init, Threads, MainSteps, EventsSteps, Queries
  <1>1. drvFreq \in Int /\ drvMode \in {0, 1}
    BY AutoFreqsAssumption
  <1>2. ValueInv
    BY DEF ValueInv
  <1>3. cmd \in Commands \cup {NoCommand}
    OBVIOUS
  <1>4. pc \in [Threads -> MainSteps \cup EventsSteps] /\ arg \in [Threads -> Int]
    OBVIOUS
  <1>5. /\ level \in [Keys -> {0, 1}] /\ edge \in [Keys -> BOOLEAN]
        /\ credit \in [Keys -> Int]
    OBVIOUS
  <1>6. crossed \in BOOLEAN /\ met \in BOOLEAN
    OBVIOUS
  <1>7. TypeOK
    BY <1>1, <1>3, <1>4, <1>5, <1>6, BoundsAssumption DEF TypeOK
  <1> QED BY <1>2, <1>7 DEF TypeInv

\* The helpers both threads run.
LEMMA TypeModes ==
  ASSUME TypeInv, NEW th \in Threads, SetModeSteps(th)
  PROVE  TypeInv'
  <1> USE DEF TypeInv, TypeOK, ValueInv, Threads, MainSteps, EventsSteps, Queries,
              mainv, shared, overlaps, eventv, blink, driver, keys
  <1>1. CASE SetModeRead(th)
    BY <1>1 DEF SetModeRead, Goto, Hold
  <1>2. CASE SetModeWrite(th)
    <2>1. drvMode' \in {0, 1}
      BY <1>2, DriverModes DEF SetModeWrite
    <2>2. UNCHANGED <<drvFreq, drvDeciding>>
      BY <1>2, DriverModes
    <2> QED BY <1>2, <2>1, <2>2 DEF SetModeWrite, Goto
  <1>3. CASE SetModeShow(th)
    BY <1>3 DEF SetModeShow, Goto
  <1> QED BY <1>1, <1>2, <1>3 DEF SetModeSteps

LEMMA TypeMain == ASSUME TypeInv, MainStep PROVE TypeInv'
  <1> USE DEF TypeInv, TypeOK, ValueInv, Threads, MainSteps, EventsSteps, Queries,
              mainv, shared, overlaps, eventv, blink, driver, keys
  <1>1. CASE StartMode
    <2>1. cur_mode' \in {0, 1}
      BY <1>1 DEF StartMode
    <2> QED BY <1>1, <2>1 DEF StartMode, Goto
  <1>2. CASE StartEvents
    BY <1>2 DEF StartEvents
  <1>3. CASE Exit
    BY <1>3 DEF Exit
  <1>4. CASE Stop
    BY <1>4 DEF Stop, Goto
  <1>5. CASE SetMode
    <2>1. cmd.value \in {0, 1}
      BY <1>5, CommandTypes DEF SetMode
    <2> QED BY <1>5, <2>1 DEF SetMode, Goto
  <1>6. CASE SetFreqTest
    <2>1. /\ answer' \in {answer, "AUTO"}
          /\ \E s \in {"freqWrite", "send"} : pc' = [pc EXCEPT !["main"] = s]
      BY <1>6 DEF SetFreqTest, Goto
    <2> QED BY <1>6, <2>1 DEF SetFreqTest
  <1>7. CASE SetFreqWrite
    <2>1. drvFreq' \in Int
      BY <1>7, CommandTypes, DriverFreqs DEF SetFreqWrite
    <2> QED BY <1>7, <2>1, DriverFreqs DEF SetFreqWrite, Goto
  <1>8. CASE Query
    <2>1. cmd.name \in Queries
      BY <1>8 DEF Query
    <2> QED BY <1>8, <2>1 DEF Query, Goto
  <1>9. CASE Send
    BY <1>9 DEF Send, Goto
  <1> QED BY <1>1, <1>2, <1>3, <1>4, <1>5, <1>6, <1>7, <1>8, <1>9, TypeModes
          DEF MainStep

LEMMA TypeEvents == ASSUME TypeInv, EventsStep PROVE TypeInv'
  <1> USE DEF TypeInv, TypeOK, ValueInv, Threads, MainSteps, EventsSteps,
              Queries, mainv, shared, overlaps, eventv, blink, driver, keys
  <1>1. CASE Open
    <2>1. led' \in {0, 1}
      BY <1>1 DEF Open
    <2>2. edge' \in [Keys -> BOOLEAN] /\ credit' \in [Keys -> Int]
      BY <1>1 DEF Open
    <2> QED BY <1>1, <2>1, <2>2 DEF Open, Goto
  <1>2. CASE Publish
    <2>1. freq_fd' \in {"driver", "failed"}
      BY <1>2 DEF Publish
    <2> QED BY <1>2, <2>1 DEF Publish, Goto
  <1>3. CASE EpollWait
    <2>1. batch' \subseteq Keys \cup {"freq", "temp", "timer"}
      BY <1>3 DEF EpollWait, Ready, Readable
    <2> QED BY <1>3, <2>1 DEF EpollWait, Goto
  <1>4. CASE EventsExit
    BY <1>4 DEF EventsExit, Goto
  <1>5. CASE BatchDone
    BY <1>5 DEF BatchDone, Goto
  <1>6. CASE FreqHandler \/ TempHandler
    BY <1>6 DEF FreqHandler, TempHandler, Take
  <1>7. CASE TimerHandler
    BY <1>7 DEF TimerHandler, Take, Goto
  <1>8. CASE LedOff
    BY <1>8 DEF LedOff, Goto
  <1>9. ASSUME NEW k \in Keys, KeyNoted(k) \/ KeyHandler(k) PROVE TypeInv'
    <2>1. CASE KeyNoted(k)
      <3>1. edge' \in [Keys -> BOOLEAN] /\ batch' \subseteq batch
        BY <2>1 DEF KeyNoted, Take
      <3> QED BY <2>1, <3>1, ReadSteps DEF KeyNoted, Goto
    <2>2. CASE KeyHandler(k)
      <3>1. credit' \in [Keys -> Int] /\ crossed' \in BOOLEAN /\ met' \in BOOLEAN
        <4>1. CASE level[k] = 1
          BY <2>2, <4>1 DEF KeyHandler
        <4>2. CASE level[k] # 1
          BY <2>2, <4>2 DEF KeyHandler
        <4> QED BY <4>1, <4>2
      <3>2. timerfd' \in {timerfd, "armed"}
        BY <2>2 DEF KeyHandler
      <3>3. (IF level[k] = 1 THEN k ELSE "next") \in {"k1", "k2", "k3", "next"}
        BY KeysAssumption
      <3> QED BY <2>2, <3>1, <3>2, <3>3, KeyOutcome DEF KeyHandler
    <2> QED BY <1>9, <2>1, <2>2
  <1>10. ASSUME NEW k, NEW steps, NEW target \in Int, FreqKey(k, steps, target)
         PROVE  TypeInv'
    <2>1. CASE cur_mode = 1 /\ steps
      BY <1>10, <2>1 DEF FreqKey, Goto, Hold
    <2>2. CASE ~(cur_mode = 1 /\ steps)
      BY <1>10, <2>2 DEF FreqKey, Goto
    <2> QED BY <2>1, <2>2
  <1>11. CASE K1
    <2>1. Increment(cur_freq) \in Int
      BY DEF Increment
    <2> QED BY <1>10, <1>11, <2>1 DEF K1
  <1>12. CASE K2
    <2>1. Decrement(cur_freq) \in Int
      BY DEF Decrement
    <2> QED BY <1>10, <1>12, <2>1 DEF K2
  <1>13. CASE KeyWrite
    <2>1. drvFreq' \in Int
      BY <1>13, DriverFreqs DEF KeyWrite
    <2> QED BY <1>13, <2>1, DriverFreqs DEF KeyWrite, Goto
  <1>14. CASE K3
    BY <1>14 DEF K3, Goto, Hold
  <1>15. CASE Toggle
    BY <1>15 DEF Toggle, Goto
  <1> QED BY <1>1, <1>2, <1>3, <1>4, <1>5, <1>6, <1>7, <1>8, <1>9, <1>11,
             <1>12, <1>13, <1>14, <1>15, TypeModes
          DEF EventsStep

LEMMA TypeAround == ASSUME TypeInv, Environment \/ Expire PROVE TypeInv'
  <1> USE DEF TypeInv, TypeOK, ValueInv, Threads, MainSteps, EventsSteps,
              Queries, mainv, shared, overlaps, eventv, blink, driver, keys
  <1>1. CASE Start
    <2>1. starts' \in 0..MaxStarts
      BY <1>1, BoundsAssumption DEF Start
    <2>2. cmd' \in Commands \cup {NoCommand}'
      BY <1>1 DEF Start, NoCommand
    <2>3. pc' = [pc EXCEPT !["main"] = "readmode"]
      BY <1>1 DEF Start, Goto
    <2>4. crossed' \in BOOLEAN /\ met' \in BOOLEAN
      BY <1>1 DEF Start
    <2> QED BY <1>1, <2>1, <2>2, <2>3, <2>4 DEF Start
  <1>2. CASE Kill
    BY <1>2 DEF Kill
  <1>3. CASE Regulate
    <2>1. drvDeciding \in BOOLEAN
      OBVIOUS
    <2>2. /\ drvFreq' \in AutoFreqs \cup {drvFreq}
          /\ drvMode' = drvMode /\ drvDeciding' \in BOOLEAN
      BY ONLY <1>3, <2>1, DriverRegulates
    <2>3. drvFreq' \in Int
      BY <2>2, AutoFreqsAssumption
    <2> QED BY <1>3, <2>2, <2>3 DEF Regulate
  <1>4. ASSUME NEW c \in Commands, Receive(c) PROVE TypeInv'
    <2>1. c.name \in {"setmode", "setfreq", "stop"} \cup Queries
      BY CommandsAssumption
    <2>2. crossed' \in BOOLEAN /\ met' \in BOOLEAN
      BY <1>4 DEF Receive
    <2> QED BY <1>4, <2>1, <2>2, BoundsAssumption DEF Receive, Goto
  <1>5. ASSUME NEW k \in Keys, Press(k) PROVE TypeInv'
    <2>1. /\ level' \in [Keys -> {0, 1}] /\ edge' \in [Keys -> BOOLEAN]
          /\ credit' \in [Keys -> Int]
      BY <1>5 DEF Press
    <2> QED BY <1>5, <2>1, BoundsAssumption DEF Press
  <1>6. CASE Expire
    BY <1>6 DEF Expire
  <1> QED BY <1>1, <1>2, <1>3, <1>4, <1>5, <1>6 DEF Environment

LEMMA TypeNext == TypeInv /\ [Next]_vars => TypeInv'
  <1>1. ASSUME TypeInv, UNCHANGED vars PROVE TypeInv'
    BY <1>1 DEF TypeInv, TypeOK, ValueInv, vars, mainv, shared, overlaps, eventv, blink,
                driver, keys
  <1> QED BY <1>1, TypeMain, TypeEvents, TypeAround DEF Next

LEMMA TypeAlways == Spec => []TypeInv
BY TypeInit, TypeNext, PTL DEF Spec

\* Every variable keeps to its values, for any keys, commands and privileges.
THEOREM TypeCorrect == Spec => []TypeOK
  <1>1. TypeInv => TypeOK
    BY DEF TypeInv
  <1> QED BY <1>1, TypeAlways, PTL

-----------------------------------------------------------------------------
(* Key presses.                                                            *)

\* A key in the batch has an unread edge.  A key that is down accounts for an act
\* if its edge is unread, for one more if its handler is about to read it.
PressInv ==
    \A k \in Keys :
        /\ credit[k] >= 0
        /\ edge[k] /\ level[k] = 1 => credit[k] >= 1
        /\ pc["events"] = ReadOf[k] /\ level[k] = 1 =>
             credit[k] >= IF edge[k] THEN 2 ELSE 1
        /\ k \in batch => edge[k]

\* Steps that touch neither the keys nor the batch, but to take from it, and
\* do not lead to where a key is read.
LEMMA PressFrame ==
  ASSUME PressInv, UNCHANGED keys, batch' \subseteq batch,
         \/ pc'["events"] = pc["events"]
         \/ pc'["events"] \notin {"readK1", "readK2", "readK3"}
  PROVE  PressInv'
BY ReadSteps DEF PressInv, keys

LEMMA PressNext == TypeOK /\ PressInv /\ [Next]_vars => PressInv'
  <1> SUFFICES ASSUME TypeOK, PressInv, [Next]_vars PROVE PressInv'
    OBVIOUS
  <1> USE DEF TypeOK, Threads
  <1>1. ASSUME UNCHANGED keys, batch' \subseteq batch, NEW th \in Threads, NEW step,
               pc' = [pc EXCEPT ![th] = step],
               step \notin {"readK1", "readK2", "readK3"}
        PROVE  PressInv'
    BY <1>1, PressFrame
  <1>2. ASSUME UNCHANGED <<keys, eventv, pc>> PROVE PressInv'
    BY <1>2, PressFrame DEF eventv
  <1>3. CASE MainStep
    <2>1. CASE StartEvents \/ Exit
      BY <2>1, PressFrame DEF StartEvents, Exit, eventv
    <2>2. CASE SetFreqTest
      BY <1>1, <2>2 DEF SetFreqTest, Goto, eventv
    <2>3. CASE StartMode \/ Stop \/ SetMode \/ SetFreqWrite \/ Query \/ Send
      BY <1>1, <2>3 DEF StartMode, Stop, SetMode, SetFreqWrite, Query, Send, Goto, eventv
    <2>4. CASE SetModeSteps("main")
      BY <1>1, <2>4 DEF SetModeSteps, SetModeRead, SetModeWrite, SetModeShow, Goto, eventv
    <2> QED BY <1>3, <2>1, <2>2, <2>3, <2>4 DEF MainStep
  <1>4. CASE EventsStep
    <2>1. CASE Open
      BY <2>1, ReadSteps DEF Open, PressInv, eventv, Goto
    <2>2. CASE EpollWait
      <3>1. \A k \in Keys : k \in batch' => edge[k]
        BY <2>2, KeysAssumption DEF EpollWait, Ready, Readable
      <3> QED BY <2>2, <3>1, ReadSteps DEF EpollWait, PressInv, keys, Goto
    <2>3. CASE FreqHandler \/ TempHandler
      BY <2>3, PressFrame DEF FreqHandler, TempHandler, Take
    <2>4. CASE TimerHandler
      BY <1>1, <2>4 DEF TimerHandler, Take, Goto
    <2>5. ASSUME NEW k \in Keys, KeyNoted(k) PROVE PressInv'
      <3>1. edge[k] /\ k \notin batch' /\ batch' \subseteq batch
        BY <2>5 DEF KeyNoted, Take, PressInv
      <3>2. /\ edge' = [edge EXCEPT ![k] = FALSE] /\ UNCHANGED <<level, credit>>
            /\ pc' = [pc EXCEPT !["events"] = ReadOf[k]]
        BY <2>5 DEF KeyNoted, Goto
      <3> QED BY <3>1, <3>2, ReadSteps DEF PressInv
    <2>6. ASSUME NEW k \in Keys, KeyHandler(k) PROVE PressInv'
      <3>1. pc["events"] = ReadOf[k] /\ UNCHANGED <<edge, level, batch>>
        BY <2>6 DEF KeyHandler, eventv
      <3>2. pc'["events"] \notin {"readK1", "readK2", "readK3"}
        BY <2>6, KeyOutcome, KeysAssumption
      <3>3. CASE level[k] = 1
        <4>1. credit' = [credit EXCEPT ![k] = credit[k] - 1]
          BY <2>6, <3>3 DEF KeyHandler
        <4> QED BY <3>1, <3>2, <3>3, <4>1, ReadSteps DEF PressInv
      <3>4. CASE level[k] # 1
        <4>1. credit' = credit
          BY <2>6, <3>4 DEF KeyHandler
        <4> QED BY <3>1, <3>2, <4>1, ReadSteps DEF PressInv
      <3> QED BY <3>3, <3>4
    <2>7. CASE K1 \/ K2
      <3>1. \E s \in {"keyWrite", "next"} : pc' = [pc EXCEPT !["events"] = s]
        BY <2>7 DEF K1, K2, FreqKey, Goto
      <3> QED BY <1>1, <2>7, <3>1 DEF K1, K2, FreqKey, eventv
    <2>8. CASE Publish \/ EventsExit \/ BatchDone \/ LedOff \/ KeyWrite \/ K3 \/ Toggle
      BY <1>1, <2>8
      DEF Publish, EventsExit, BatchDone, LedOff, KeyWrite, K3, Toggle, Goto, eventv
    <2>9. CASE SetModeSteps("events")
      BY <1>1, <2>9 DEF SetModeSteps, SetModeRead, SetModeWrite, SetModeShow, Goto, eventv
    <2> QED BY <1>4, <2>1, <2>2, <2>3, <2>4, <2>5, <2>6, <2>7, <2>8, <2>9 DEF EventsStep
  <1>5. CASE Environment
    <2>1. CASE Start
      BY <1>1, <2>1 DEF Start, Goto
    <2>2. CASE Kill
      BY <2>2, PressFrame DEF Kill, eventv
    <2>3. CASE Regulate
      BY <1>2, <2>3 DEF Regulate
    <2>4. ASSUME NEW c \in Commands, Receive(c) PROVE PressInv'
      BY <2>4, PressFrame DEF Receive, Goto, eventv
    <2>5. ASSUME NEW k \in Keys, Press(k) PROVE PressInv'
      <3>1. /\ level' = [level EXCEPT ![k] = 1 - level[k]]
            /\ edge' = [edge EXCEPT ![k] = TRUE] /\ UNCHANGED <<pc, batch>>
        BY <2>5 DEF Press, eventv
      <3>2. CASE level[k] = 1
        <4>1. credit'[k] = credit[k] /\ \A j \in Keys \ {k} : credit'[j] = credit[j]
          BY <2>5, <3>2 DEF Press
        <4> QED BY <3>1, <3>2, <4>1 DEF PressInv
      <3>3. CASE level[k] # 1
        <4>1. /\ credit'[k] = IF pc["events"] = ReadOf[k]
                              THEN credit[k] + 2 ELSE credit[k] + 1
              /\ \A j \in Keys \ {k} : credit'[j] = credit[j]
          BY <2>5, <3>3 DEF Press
        <4> QED BY <3>1, <3>3, <4>1 DEF PressInv
      <3> QED BY <3>2, <3>3
    <2> QED BY <1>5, <2>1, <2>2, <2>3, <2>4, <2>5 DEF Environment
  <1>6. CASE Expire
    BY <1>2, <1>6 DEF Expire
  <1>7. CASE UNCHANGED vars
    BY <1>2, <1>7 DEF vars
  <1> QED BY <1>3, <1>4, <1>5, <1>6, <1>7 DEF Next

\* A rising edge is acted on once at most, and twice at most when it comes between
\* the two steps of its key's read: whatever the edges, the batches, the kills and
\* restarts, for any keys.
THEOREM OneActAlways == Spec => []OneActPerEdge
  <1>1. Init => PressInv
    BY ReadSteps DEF Init, PressInv, Threads
  <1>2. PressInv => OneActPerEdge
    BY DEF PressInv, OneActPerEdge
  <1> QED BY <1>1, <1>2, PressNext, TypeCorrect, PTL DEF Spec

-----------------------------------------------------------------------------
(* The power LED.                                                          *)

\* Until main has started it the events thread is down, and a key is handled
\* with its timer running; without GPIOs there are no keys and no light.
LedInv ==
    /\ LedTimed
    /\ pc["main"] \in {"down", "readmode", "showmode"} => pc["events"] = "down"
    /\ pc["events"] \in {"k1", "k2", "k3"} => timerfd # "off"
    /\ ~Gpio => /\ led = 0 /\ batch \cap Keys = {}
                /\ pc["events"] \notin {"readK1", "readK2", "readK3", "k1", "k2", "k3"}

LEMMA LedNext == TypeInv /\ LedInv /\ [Next]_vars => LedInv'
  <1> SUFFICES ASSUME TypeInv, LedInv, [Next]_vars PROVE LedInv'
    OBVIOUS
  <1> USE DEF TypeInv, TypeOK, LedInv, LedTimed, Threads
  <1>1. ASSUME UNCHANGED <<blink, batch>>, NEW step,
               pc' = [pc EXCEPT !["main"] = step],
               pc["main"] \notin {"down", "readmode", "showmode"},
               step \notin {"down", "readmode", "showmode"}
        PROVE  LedInv'
    BY <1>1 DEF blink
  <1>2. ASSUME UNCHANGED <<blink, batch>>, NEW step,
               pc' = [pc EXCEPT !["events"] = step],
               pc["events"] \notin {"down", "open", "ledOff"},
               step \notin {"readK1", "readK2", "readK3", "k1", "k2", "k3"}
        PROVE  LedInv'
    BY <1>2 DEF blink
  <1>3. CASE MainStep
    <2>1. CASE StartMode
      BY <2>1 DEF StartMode, Goto, eventv, blink
    <2>2. CASE StartEvents
      BY <2>2 DEF StartEvents, eventv, blink
    <2>3. CASE Exit
      BY <2>3 DEF Exit, eventv, blink
    <2>4. CASE Stop \/ SetMode \/ SetFreqTest \/ SetFreqWrite
      BY <1>1, <2>4 DEF Stop, SetMode, SetFreqTest, SetFreqWrite, Goto, eventv
    <2>5. CASE Query \/ Send
      BY <1>1, <2>5 DEF Query, Send, Goto, eventv, Queries
    <2>6. CASE SetModeSteps("main")
      BY <1>1, <2>6
      DEF SetModeSteps, SetModeRead, SetModeWrite, SetModeShow, Goto, eventv
    <2> QED BY <1>3, <2>1, <2>2, <2>3, <2>4, <2>5, <2>6 DEF MainStep
  <1>4. CASE EventsStep
    <2>1. CASE Open
      BY <2>1 DEF Open, Goto, eventv
    <2>2. CASE EpollWait
      <3>1. ~Gpio => batch' \cap Keys = {}
        BY <2>2, KeysAssumption DEF EpollWait, Ready, Readable
      <3> QED BY <2>2, <3>1 DEF EpollWait, Goto, blink
    <2>3. CASE FreqHandler \/ TempHandler
      BY <2>3 DEF FreqHandler, TempHandler, Take, blink
    <2>4. CASE TimerHandler
      BY <2>4 DEF TimerHandler, Take, Goto
    <2>5. CASE LedOff
      BY <2>5 DEF LedOff, Goto, eventv
    <2>6. ASSUME NEW k \in Keys, KeyNoted(k) \/ KeyHandler(k) PROVE LedInv'
      <3>1. CASE KeyNoted(k)
        BY <3>1, ReadSteps DEF KeyNoted, Take, Goto, blink
      <3>2. CASE KeyHandler(k)
        <4>1. Gpio /\ led' = led /\ batch' = batch /\ pc["events"] = ReadOf[k]
          BY <3>2, ReadSteps DEF KeyHandler, eventv
        <4>2. CASE level[k] = 1
          <5>1. timerfd' = "armed" /\ pc' = [pc EXCEPT !["events"] = k]
            BY <3>2, <4>2 DEF KeyHandler, Goto
          <5> QED BY <4>1, <5>1, ReadSteps, KeysAssumption
        <4>3. CASE level[k] # 1
          <5>1. timerfd' = timerfd /\ pc' = [pc EXCEPT !["events"] = "next"]
            BY <3>2, <4>3 DEF KeyHandler, Goto
          <5> QED BY <4>1, <5>1, ReadSteps
        <4> QED BY <4>2, <4>3
      <3> QED BY <2>6, <3>1, <3>2
    <2>7. ASSUME NEW k \in {"k1", "k2"}, NEW steps, NEW target,
                 FreqKey(k, steps, target)
          PROVE  LedInv'
      <3>1. \E s \in {"keyWrite", "next"} : pc' = [pc EXCEPT !["events"] = s]
        BY <2>7 DEF FreqKey, Goto
      <3> QED BY <2>7, <3>1 DEF FreqKey, eventv
    <2>8. CASE K1 \/ K2
      BY <2>7, <2>8 DEF K1, K2
    <2>9. CASE K3
      BY <2>9 DEF K3, Goto, eventv
    <2>10. CASE Publish \/ EventsExit \/ BatchDone \/ KeyWrite \/ Toggle
      BY <1>2, <2>10 DEF Publish, EventsExit, BatchDone, KeyWrite, Toggle, Goto, eventv
    <2>11. CASE SetModeSteps("events")
      BY <1>2, <2>11
      DEF SetModeSteps, SetModeRead, SetModeWrite, SetModeShow, Goto, eventv
    <2> QED BY <1>4, <2>1, <2>2, <2>3, <2>4, <2>5, <2>6, <2>8, <2>9, <2>10, <2>11
            DEF EventsStep
  <1>5. CASE Environment
    <2>1. CASE Start
      BY <2>1 DEF Start, Goto
    <2>2. CASE Kill
      BY <2>2 DEF Kill, eventv, blink
    <2>3. CASE Regulate
      BY <2>3 DEF Regulate, eventv, blink
    <2>4. ASSUME NEW c \in Commands, Receive(c) PROVE LedInv'
      <3>1. c.name \in {"setmode", "setfreq", "stop"} \cup Queries
        BY CommandsAssumption
      <3> QED BY <1>1, <2>4, <3>1 DEF Receive, Goto, eventv, Queries
    <2>5. ASSUME NEW k \in Keys, Press(k) PROVE LedInv'
      BY <2>5 DEF Press, eventv, blink
    <2> QED BY <1>5, <2>1, <2>2, <2>3, <2>4, <2>5 DEF Environment
  <1>6. CASE Expire
    BY <1>6 DEF Expire, eventv
  <1>7. CASE UNCHANGED vars
    BY <1>7 DEF vars, eventv, blink
  <1> QED BY <1>3, <1>4, <1>5, <1>6, <1>7 DEF Next

LEMMA LedAlways == Spec => []LedInv
  <1>1. Init => LedInv
    BY DEF Init, LedInv, LedTimed, Threads
  <1> QED BY <1>1, LedNext, TypeAlways, PTL DEF Spec

\* The power LED is never lit without its timer running or its end being
\* handled, whatever the order of presses, batches and expirations.
THEOREM LedTimedAlways == Spec => []LedTimed
  <1>1. LedInv => LedTimed
    BY DEF LedInv
  <1> QED BY <1>1, LedAlways, PTL

-----------------------------------------------------------------------------
(* The mode in the daemon, in the driver and on the LCD.                   *)

Serving == pc["main"] \notin {"down", "readmode", "showmode"}
Telling(th) == pc[th] \in {"modeRead", "modeWrite", "modeShow"}
Told == DriverFiles = "write" => cur_mode = drvMode
Agreed == lcdMode = cur_mode /\ Told

\* As long as no change of mode has met a key's handler, one thread at most is
\* passing the mode on, what it passes on is cur_mode, and when none is, the
\* modes of daemon, LCD and, where it can be written, driver are one; so a key about to write has found manual mode there.
Together ==
    /\ ~(Changing /\ Using)
    /\ \A th \in Threads : /\ pc[th] = "modeWrite" => arg[th] = cur_mode
                           /\ pc[th] = "modeShow" => Told
    /\ (\A th \in Threads : ~Telling(th)) => Agreed
    /\ pc["events"] = "keyWrite" => cur_mode = 1

ModeInv ==
    /\ freq_fd = "driver" => DriverFiles = "write"
    /\ pc["main"] = "showmode" => Told
    /\ Serving /\ ~crossed => Together

\* A step of one thread between two steps that have nothing to do with modes.
LEMMA ModeFrame ==
  ASSUME TypeInv, ModeInv, LedInv, NEW th \in Threads, NEW step,
         UNCHANGED <<freq_fd, cur_mode, crossed, drvMode, lcdMode>>,
         Serving, pc[th] \notin {"setmode", "toggle"}, ~Telling(th),
         step \notin {"down", "readmode", "showmode", "setmode", "k1", "k2", "k3",
                     "toggle", "modeRead", "modeWrite", "modeShow"},
         pc' = [pc EXCEPT ![th] = step],
         \A u \in Threads : u # th => arg'[u] = arg[u],
         step = "keyWrite" =>
            th = "events" /\ cur_mode = 1 /\ pc["events"] \in {"k1", "k2"}
  PROVE  ModeInv'
BY DEF TypeInv, TypeOK, LedInv, ModeInv, Together, Agreed, Told, Serving, Telling,
       Changing, Using, Threads

\* set_mode and the LCD, by either thread.
LEMMA ModeTold ==
  ASSUME TypeInv, ModeInv, LedInv, NEW th \in Threads, SetModeSteps(th)
  PROVE  ModeInv'
  <1> USE DEF TypeInv, TypeOK, LedInv, ModeInv, Together, Agreed, Told, Serving,
              Telling, Changing, Using, Threads, Goto, Hold, shared, overlaps, driver
  <1>1. Serving
    BY DEF SetModeSteps, SetModeRead, SetModeWrite, SetModeShow
  <1>2. CASE SetModeRead(th)
    BY <1>1, <1>2 DEF SetModeRead
  <1>3. CASE SetModeWrite(th)
    BY <1>1, <1>3, DriverModes DEF SetModeWrite
  <1>4. CASE SetModeShow(th)
    BY <1>1, <1>4 DEF SetModeShow
  <1> QED BY <1>2, <1>3, <1>4 DEF SetModeSteps

LEMMA ModeMain == ASSUME TypeInv, ModeInv, LedInv, MainStep PROVE ModeInv'
  <1> USE DEF Threads
  <1>1. CASE StartMode
    BY <1>1 DEF StartMode, ModeInv, Told, Serving, Goto, TypeInv, TypeOK, shared, overlaps, driver
  <1>2. CASE StartEvents
    BY <1>2 DEF StartEvents, ModeInv, Together, Agreed, Told, Serving, Telling, Changing,
                Using, shared, overlaps, driver
  <1>3. CASE Exit
    BY <1>3 DEF Exit, ModeInv, Serving, shared, overlaps, driver
  <1>4. CASE SetMode
    <2>1. /\ pc' = [pc EXCEPT !["main"] = "modeRead"]
          /\ UNCHANGED <<freq_fd, crossed, arg, drvMode>>
      BY <1>4 DEF SetMode, Goto, driver, overlaps
    <2> QED BY <1>4, <2>1 DEF SetMode, ModeInv, Together, Serving, Telling,
                              Changing, Using, TypeInv, TypeOK
  <1>5. CASE Stop
    BY <1>5, ModeFrame DEF Stop, Serving, Telling, Goto, driver, overlaps
  <1>6. CASE SetFreqTest
    BY <1>6, ModeFrame DEF SetFreqTest, Serving, Telling, Goto, driver, shared, overlaps
  <1>7. CASE SetFreqWrite
    BY <1>7, ModeFrame, DriverFreqs DEF SetFreqWrite, Serving, Telling, Goto, shared, overlaps
  <1>8. CASE Query
    BY <1>8, ModeFrame DEF Query, Serving, Telling, Goto, driver, shared, overlaps, Queries
  <1>9. CASE Send
    BY <1>9, ModeFrame DEF Send, Serving, Telling, Goto, driver, shared, overlaps
  <1> QED BY <1>1, <1>2, <1>3, <1>4, <1>5, <1>6, <1>7, <1>8, <1>9, ModeTold
          DEF MainStep

LEMMA ModeEvents == ASSUME TypeInv, ModeInv, LedInv, EventsStep PROVE ModeInv'
  <1> USE DEF Threads
  <1>1. Serving
    <2>1. pc["events"] # "down"
      BY ReadSteps
      DEF EventsStep, Open, Publish, EpollWait, EventsExit, BatchDone, FreqHandler,
          TempHandler, TimerHandler, LedOff, KeyNoted, KeyHandler, Take, K1, K2, FreqKey,
          KeyWrite, K3, Toggle, SetModeSteps, SetModeRead, SetModeWrite, SetModeShow
    <2> QED BY <2>1 DEF LedInv, Serving
  <1>2. CASE Publish
    BY <1>1, <1>2
    DEF Publish, ModeInv, Together, Agreed, Told, Serving, Telling, Changing, Using,
        Goto, TypeInv, TypeOK, shared, overlaps, driver
  <1>3. CASE Open \/ EpollWait \/ BatchDone
    BY <1>1, <1>3, ModeFrame
    DEF Open, EpollWait, BatchDone, Telling, Goto, driver, shared, overlaps
  <1>4. CASE EventsExit
    BY <1>1, <1>4
    DEF EventsExit, ModeInv, Together, Agreed, Told, Serving, Telling, Changing, Using,
        Goto, TypeInv, TypeOK, shared, overlaps, driver
  <1>5. ASSUME UNCHANGED <<pc, arg, freq_fd, cur_mode, crossed, drvMode, lcdMode>>
        PROVE  ModeInv'
    BY <1>5 DEF ModeInv, Together, Agreed, Told, Serving, Telling, Changing, Using
  <1>6. CASE FreqHandler \/ TempHandler
    BY <1>5, <1>6 DEF FreqHandler, TempHandler, shared, overlaps, driver
  <1>7. CASE TimerHandler \/ LedOff
    BY <1>1, <1>7, ModeFrame DEF TimerHandler, LedOff, Take, Telling, Goto, driver,
                                 shared, overlaps
  <1>8. ASSUME NEW k \in Keys, KeyNoted(k) \/ KeyHandler(k) PROVE ModeInv'
    <2>1. CASE KeyNoted(k)
      BY <1>1, <2>1, ReadSteps, ModeFrame
      DEF KeyNoted, Take, Telling, Goto, driver, shared, overlaps
    <2>2. CASE KeyHandler(k)
      <3>1. /\ pc["events"] \in {"readK1", "readK2", "readK3"}
            /\ UNCHANGED <<arg, freq_fd, cur_mode, drvMode, lcdMode>>
        BY <2>2, ReadSteps DEF KeyHandler, driver
      <3>2. CASE level[k] = 1
        <4>1. crossed' = (crossed \/ Changing) /\ pc' = [pc EXCEPT !["events"] = k]
          BY <2>2, <3>2 DEF KeyHandler, Goto
        <4> QED BY <1>1, <3>1, <4>1, KeysAssumption
                DEF ModeInv, Together, Agreed, Told, Serving, Telling, Changing, Using,
                    TypeInv, TypeOK
      <3>3. CASE level[k] # 1
        <4>1. crossed' = crossed /\ pc' = [pc EXCEPT !["events"] = "next"]
          BY <2>2, <3>3 DEF KeyHandler, Goto, overlaps
        <4> QED BY <1>1, <3>1, <4>1, ModeFrame DEF Telling
      <3> QED BY <3>2, <3>3
    <2> QED BY <1>8, <2>1, <2>2
  <1>9. ASSUME NEW k \in {"k1", "k2"}, NEW steps, NEW target,
               FreqKey(k, steps, target)
        PROVE  ModeInv'
    <2>1. CASE cur_mode = 1 /\ steps
      BY <1>1, <1>9, <2>1, ModeFrame
      DEF FreqKey, Telling, Goto, Hold, driver, shared, overlaps, TypeInv, TypeOK
    <2>2. CASE ~(cur_mode = 1 /\ steps)
      BY <1>1, <1>9, <2>2, ModeFrame DEF FreqKey, Telling, Goto, driver, shared, overlaps
    <2> QED BY <2>1, <2>2
  <1>10. CASE K1 \/ K2
    BY <1>9, <1>10 DEF K1, K2
  <1>11. CASE KeyWrite
    BY <1>1, <1>11, ModeFrame, DriverFreqs DEF KeyWrite, Telling, Goto, shared, overlaps
  <1>12. CASE K3
    BY <1>1, <1>12
    DEF K3, ModeInv, Together, Agreed, Told, Serving, Telling, Changing, Using, Goto,
        Hold, TypeInv, TypeOK, shared, overlaps, driver
  <1>13. CASE Toggle
    BY <1>1, <1>13
    DEF Toggle, ModeInv, Together, Agreed, Told, Serving, Telling, Changing, Using,
        Goto, TypeInv, TypeOK, driver, overlaps
  <1> QED BY <1>2, <1>3, <1>4, <1>6, <1>7, <1>8, <1>10, <1>11, <1>12, <1>13,
             ModeTold
          DEF EventsStep

LEMMA ModeNext == TypeInv /\ LedInv /\ ModeInv /\ [Next]_vars => ModeInv'
  <1> SUFFICES ASSUME TypeInv, LedInv, ModeInv, [Next]_vars PROVE ModeInv'
    OBVIOUS
  <1>1. ASSUME UNCHANGED <<pc, arg, freq_fd, cur_mode, crossed, drvMode, lcdMode>>
        PROVE  ModeInv'
    BY <1>1 DEF ModeInv, Together, Agreed, Told, Serving, Telling, Changing, Using,
                Threads
  <1>2. CASE Environment
    <2>1. CASE Start
      BY <2>1 DEF Start, ModeInv, Serving, Goto, Threads, TypeInv, TypeOK
    <2>2. CASE Kill
      BY <2>2 DEF Kill, ModeInv, Serving, Threads
    <2>3. CASE Regulate
      <3>1. drvMode' = drvMode
        BY <2>3, DriverRegulates DEF TypeInv, TypeOK
      <3> QED BY <1>1, <2>3, <3>1 DEF Regulate, shared, overlaps
    <2>4. ASSUME NEW c \in Commands, Receive(c) PROVE ModeInv'
      <3>1. c.name \in {"setmode", "setfreq", "stop"} \cup Queries
        BY CommandsAssumption
      <3>2. CASE c.name = "setmode"
        <4>1. crossed' = (crossed \/ Using)
          BY <2>4, <3>2 DEF Receive
        <4> QED BY <2>4, <3>2, <4>1
                DEF Receive, ModeInv, Together, Agreed, Told, Serving, Telling, Changing,
                    Using, Goto, Threads, TypeInv, TypeOK, driver
      <3>3. CASE c.name # "setmode"
        <4>1. crossed' = crossed
          BY <2>4, <3>3 DEF Receive, TypeInv, TypeOK
        <4> QED BY <2>4, <3>1, <3>3, <4>1, ModeFrame
                DEF Receive, Serving, Telling, Goto, Threads, Queries, driver
      <3> QED BY <3>2, <3>3
    <2>5. ASSUME NEW k \in Keys, Press(k) PROVE ModeInv'
      BY <1>1, <2>5 DEF Press, shared, overlaps, driver
    <2> QED BY <1>2, <2>1, <2>2, <2>3, <2>4, <2>5 DEF Environment
  <1>3. CASE Expire
    BY <1>1, <1>3 DEF Expire, shared, overlaps, driver
  <1>4. CASE UNCHANGED vars
    BY <1>1, <1>4 DEF vars, shared, overlaps, driver
  <1> QED BY <1>2, <1>3, <1>4, ModeMain, ModeEvents DEF Next

LEMMA ModeAlways == Spec => []ModeInv
  <1>1. Init => ModeInv
    BY DEF Init, ModeInv, Serving, Threads
  <1> QED BY <1>1, ModeNext, TypeAlways, LedAlways, PTL DEF Spec

\* Where the daemon may write the driver's mode and no setmode command has
\* overlapped a key's handler, daemon, driver and LCD agree outside a change.
THEOREM ModesAgreeAlways == Spec => []ModesAgreeApart
  <1>1. ModeInv => ModesAgreeApart
    BY DEF ModeInv, ModesAgreeApart, ModesAgree, Quiet, Together, Agreed, Told, Serving,
           Telling, Threads, Queries
  <1> QED BY <1>1, ModeAlways, PTL

\* Until a change of mode by K3 has met a setfreq command, the command finds the
\* mode again that it has tested.
SetInv ==
    Serving /\ ~met =>
        /\ ~(Setting /\ Toggling)
        /\ pc["main"] = "freqWrite" => cur_mode = 1

\* Steps between two steps that set no frequency for main and change no mode
\* for K3.
LEMMA SetFrame ==
  ASSUME TypeInv, SetInv, NEW th \in Threads, NEW step,
         UNCHANGED <<cur_mode, met>>, Serving,
         step \notin {"setfreq", "freqWrite", "k3", "toggle", "modeRead", "modeWrite"},
         pc' = [pc EXCEPT ![th] = step]
  PROVE  SetInv'
BY DEF TypeInv, TypeOK, SetInv, Serving, Setting, Toggling, Threads

LEMMA SetKept ==
  ASSUME SetInv, UNCHANGED <<pc, cur_mode, met>>
  PROVE  SetInv'
BY DEF SetInv, Serving, Setting, Toggling

LEMMA SetModes ==
  ASSUME TypeInv, SetInv, LedInv, NEW th \in Threads, SetModeSteps(th)
  PROVE  SetInv'
  <1> USE DEF TypeInv, TypeOK, LedInv, SetInv, Serving, Setting, Toggling, Threads,
              Goto, Hold, shared, overlaps
  <1>1. CASE SetModeRead(th)
    BY <1>1 DEF SetModeRead
  <1>2. CASE SetModeWrite(th)
    BY <1>2 DEF SetModeWrite
  <1>3. CASE SetModeShow(th)
    BY <1>3 DEF SetModeShow
  <1> QED BY <1>1, <1>2, <1>3 DEF SetModeSteps

LEMMA SetMain == ASSUME TypeInv, SetInv, LedInv, MainStep PROVE SetInv'
  <1> USE DEF Threads
  <1>1. CASE StartMode \/ StartEvents \/ Exit
    BY <1>1 DEF StartMode, StartEvents, Exit, SetInv, Serving, Setting, Toggling, Goto,
                TypeInv, TypeOK, shared, overlaps
  <1>2. CASE SetMode
    BY <1>2 DEF SetMode, SetInv, Serving, Setting, Toggling, Goto, TypeInv, TypeOK,
                overlaps
  <1>3. CASE Stop \/ SetFreqWrite \/ Query \/ Send
    BY <1>3, SetFrame
    DEF Stop, SetFreqWrite, Query, Send, Serving, Goto, Queries, shared, overlaps
  <1>4. CASE SetFreqTest
    BY <1>4 DEF SetFreqTest, SetInv, Serving, Setting, Toggling, Goto, TypeInv, TypeOK,
                shared, overlaps
  <1> QED BY <1>1, <1>2, <1>3, <1>4, SetModes DEF MainStep

LEMMA SetEvents == ASSUME TypeInv, SetInv, LedInv, EventsStep PROVE SetInv'
  <1> USE DEF Threads
  <1>1. Serving
    <2>1. pc["events"] # "down"
      BY ReadSteps
      DEF EventsStep, Open, Publish, EpollWait, EventsExit, BatchDone, FreqHandler,
          TempHandler, TimerHandler, LedOff, KeyNoted, KeyHandler, Take, K1, K2, FreqKey,
          KeyWrite, K3, Toggle, SetModeSteps, SetModeRead, SetModeWrite, SetModeShow
    <2> QED BY <2>1 DEF LedInv, Serving
  <1>2. CASE \/ Open \/ Publish \/ EpollWait \/ EventsExit \/ BatchDone
             \/ TimerHandler \/ LedOff \/ KeyWrite
    BY <1>1, <1>2, SetFrame
    DEF Open, Publish, EpollWait, EventsExit, BatchDone, TimerHandler, LedOff, KeyWrite,
        Goto, shared, overlaps
  <1>3. CASE FreqHandler \/ TempHandler
    BY <1>3, SetKept DEF FreqHandler, TempHandler, shared, overlaps
  <1>4. ASSUME NEW k \in Keys, KeyNoted(k) \/ KeyHandler(k) PROVE SetInv'
    <2>1. CASE KeyNoted(k)
      BY <1>1, <2>1, ReadSteps, SetFrame DEF KeyNoted, Goto, shared, overlaps
    <2>2. CASE KeyHandler(k)
      <3>1. CASE level[k] = 1
        <4>1. /\ met' = (met \/ (k = "k3" /\ Setting))
              /\ pc' = [pc EXCEPT !["events"] = k]
              /\ cur_mode' = cur_mode
          BY <2>2, <3>1 DEF KeyHandler, Goto
        <4> QED BY <1>1, <4>1, KeysAssumption
                DEF SetInv, Serving, Setting, Toggling, TypeInv, TypeOK
      <3>2. CASE level[k] # 1
        BY <1>1, <2>2, <3>2, SetFrame DEF KeyHandler, Goto, overlaps
      <3> QED BY <3>1, <3>2
    <2> QED BY <1>4, <2>1, <2>2
  <1>5. ASSUME NEW k, NEW steps, NEW target, FreqKey(k, steps, target)
        PROVE  SetInv'
    <2>1. \E s \in {"keyWrite", "next"} : pc' = [pc EXCEPT !["events"] = s]
      BY <1>5 DEF FreqKey, Goto
    <2> QED BY <1>1, <1>5, <2>1, SetFrame DEF FreqKey, shared, overlaps
  <1>6. CASE K1 \/ K2
    BY <1>5, <1>6 DEF K1, K2
  <1>7. CASE K3
    BY <1>1, <1>7 DEF K3, SetInv, Serving, Setting, Toggling, Goto, TypeInv, TypeOK,
                      shared, overlaps
  <1>8. CASE Toggle
    BY <1>1, <1>8 DEF Toggle, SetInv, Serving, Setting, Toggling, Goto, TypeInv,
                      TypeOK, overlaps
  <1> QED BY <1>2, <1>3, <1>4, <1>6, <1>7, <1>8, SetModes DEF EventsStep

LEMMA SetNext == TypeInv /\ LedInv /\ SetInv /\ [Next]_vars => SetInv'
  <1> SUFFICES ASSUME TypeInv, LedInv, SetInv, [Next]_vars PROVE SetInv'
    OBVIOUS
  <1>1. CASE Environment
    <2>1. CASE Start \/ Kill
      BY <2>1 DEF Start, Kill, SetInv, Serving, Goto, Threads, TypeInv, TypeOK
    <2>2. CASE Regulate
      BY <2>2, SetKept DEF Regulate, shared, overlaps
    <2>3. ASSUME NEW c \in Commands, Receive(c) PROVE SetInv'
      <3>1. c.name \in {"setmode", "setfreq", "stop"} \cup Queries
        BY CommandsAssumption
      <3>2. /\ met' = (met \/ (c.name = "setfreq" /\ Toggling))
            /\ pc' = [pc EXCEPT !["main"] = c.name]
            /\ pc["main"] = "receive" /\ cur_mode' = cur_mode
        BY <2>3 DEF Receive, Goto
      <3> QED BY <3>1, <3>2 DEF SetInv, Serving, Setting, Toggling, Threads, Queries,
                                TypeInv, TypeOK
    <2>4. ASSUME NEW k \in Keys, Press(k) PROVE SetInv'
      BY <2>4, SetKept DEF Press, shared, overlaps
    <2> QED BY <1>1, <2>1, <2>2, <2>3, <2>4 DEF Environment
  <1>2. CASE Expire
    BY <1>2, SetKept DEF Expire, shared, overlaps
  <1>3. CASE UNCHANGED vars
    BY <1>3, SetKept DEF vars, shared, overlaps
  <1> QED BY <1>1, <1>2, <1>3, SetMain, SetEvents DEF Next

LEMMA SetAlways == Spec => []SetInv
  <1>1. Init => SetInv
    BY DEF Init, SetInv, Serving, Threads
  <1> QED BY <1>1, SetNext, TypeAlways, LedAlways, PTL DEF Spec

\* Under the same condition a key changes the frequency in manual mode only,
\* and so does setfreq if K3 has not come in between.
THEOREM SetInManualAlways == Spec => SetOnlyInManual
  <1>1. ASSUME TypeInv, LedInv, ModeInv, DriverFiles = "write", ~crossed,
               pc["events"] # "down"
        PROVE  Together
    BY <1>1 DEF LedInv, ModeInv, Serving
  <1>2. TypeInv /\ LedInv /\ ModeInv
          => (KeyWrite /\ drvFreq' # drvFreq /\ ~crossed => drvMode = 1)
    <2> SUFFICES ASSUME TypeInv, LedInv, ModeInv, KeyWrite, drvFreq' # drvFreq,
                        ~crossed
                 PROVE  drvMode = 1
      OBVIOUS
    <2>1. DriverFiles = "write" /\ pc["events"] = "keyWrite"
      BY DriverFreqs DEF KeyWrite, ModeInv
    <2>2. Together
      BY <1>1, <2>1
    <2> QED BY <2>1, <2>2 DEF Together, Agreed, Told, Telling, Changing, Using, Threads
  <1>3. TypeInv /\ LedInv /\ ModeInv /\ SetInv
          => (SetFreqWrite /\ drvFreq' # drvFreq /\ ~crossed /\ ~met => drvMode = 1)
    <2> SUFFICES ASSUME TypeInv, LedInv, ModeInv, SetInv, SetFreqWrite,
                        drvFreq' # drvFreq, ~crossed, ~met
                 PROVE  drvMode = 1
      OBVIOUS
    <2>1. DriverFiles = "write" /\ pc["main"] = "freqWrite" /\ Serving
      BY DriverFreqs DEF SetFreqWrite, ModeInv, Serving
    <2>2. Together /\ ~Toggling /\ cur_mode = 1
      BY <2>1 DEF ModeInv, SetInv, Setting
    <2> QED BY <2>1, <2>2 DEF Together, Agreed, Told, Telling, Toggling, Threads
  <1> QED BY <1>2, <1>3, TypeAlways, LedAlways, ModeAlways, SetAlways, PTL
          DEF SetOnlyInManual

-----------------------------------------------------------------------------
(* Which frequencies are reached.                                          *)

\* The frequencies known to the driver, to the daemon, and to a key between its
\* test and its write, all in S; main writes the one that was asked for.
FreqInv(S) ==
    /\ drvFreq \in S /\ cur_freq \in S
    /\ pc["events"] = "keyWrite" => arg["events"] \in S
    /\ pc["main"] \in {"setfreq", "freqWrite"} =>
         cmd \in Commands /\ cmd.name = "setfreq"

\* S holds the frequency of a new process, what the driver regulates to and
\* clients ask for, and each step of the keys from a frequency of S.
Closed(S) ==
    /\ 0 \in S /\ AutoFreqs \subseteq S /\ Asked \subseteq S
    /\ \A f \in S : Increment(f) \in S /\ Decrement(f) \in S

\* Steps that touch no frequency and do not lead to where one is used.
LEMMA FreqFrame ==
  ASSUME NEW S, TypeInv, FreqInv(S), NEW th \in Threads, NEW step,
         UNCHANGED <<drvFreq, cur_freq, arg, cmd>>,
         step \notin {"setfreq", "freqWrite", "keyWrite"},
         pc' = [pc EXCEPT ![th] = step]
  PROVE  FreqInv(S)'
BY DEF TypeInv, TypeOK, FreqInv, Threads

LEMMA FreqKept ==
  ASSUME NEW S, FreqInv(S), UNCHANGED <<drvFreq, cur_freq, arg, cmd, pc>>
  PROVE  FreqInv(S)'
BY DEF FreqInv

\* A thread that holds a mode is not about to use a frequency.
LEMMA FreqModes ==
  ASSUME NEW S, TypeInv, FreqInv(S), NEW th \in Threads, SetModeSteps(th)
  PROVE  FreqInv(S)'
  <1>1. CASE SetModeRead(th)
    BY <1>1 DEF SetModeRead, Goto, Hold, FreqInv, TypeInv, TypeOK, Threads, mainv,
                eventv, driver
  <1>2. CASE SetModeWrite(th)
    BY <1>2, FreqFrame, DriverModes DEF SetModeWrite, Goto, mainv, eventv
  <1>3. CASE SetModeShow(th)
    BY <1>3, FreqFrame DEF SetModeShow, Goto, mainv, eventv, driver
  <1> QED BY <1>1, <1>2, <1>3 DEF SetModeSteps

LEMMA FreqMain ==
  ASSUME NEW S, Closed(S), TypeInv, FreqInv(S), MainStep
  PROVE  FreqInv(S)'
  <1> USE DEF Threads, mainv, eventv, driver
  <1>1. CASE StartMode \/ Stop \/ SetMode \/ Query \/ Send
    BY <1>1, FreqFrame DEF StartMode, Stop, SetMode, Query, Send, Goto
  <1>2. CASE StartEvents \/ Exit
    BY <1>2 DEF StartEvents, Exit, FreqInv
  <1>3. CASE SetFreqTest
    BY <1>3 DEF SetFreqTest, Goto, FreqInv, TypeInv, TypeOK
  <1>4. CASE SetFreqWrite
    <2>1. cmd.value \in S
      BY <1>4 DEF SetFreqWrite, FreqInv, Closed, Asked
    <2>2. drvFreq' \in S
      BY <1>4, <2>1, DriverFreqs DEF SetFreqWrite, FreqInv
    <2> QED BY <1>4, <2>2 DEF SetFreqWrite, Goto, FreqInv, TypeInv, TypeOK
  <1> QED BY <1>1, <1>2, <1>3, <1>4, FreqModes DEF MainStep

LEMMA FreqEvents ==
  ASSUME NEW S, Closed(S), TypeInv, FreqInv(S), EventsStep
  PROVE  FreqInv(S)'
  <1> USE DEF Threads, mainv, eventv, driver
  <1>1. CASE \/ Open \/ Publish \/ EpollWait \/ EventsExit \/ BatchDone
             \/ TimerHandler \/ LedOff \/ K3 \/ Toggle
    <2>1. CASE K3
      BY <2>1 DEF K3, Hold, Goto, FreqInv, TypeInv, TypeOK
    <2> QED BY <1>1, <2>1, FreqFrame
            DEF Open, Publish, EpollWait, EventsExit, BatchDone, TimerHandler, LedOff,
                Toggle, Goto
  <1>2. CASE FreqHandler
    BY <1>2 DEF FreqHandler, FreqInv
  <1>3. CASE TempHandler
    BY <1>3, FreqKept DEF TempHandler
  <1>4. ASSUME NEW k \in Keys, KeyNoted(k) \/ KeyHandler(k) PROVE FreqInv(S)'
    <2>1. CASE KeyNoted(k)
      BY <2>1, ReadSteps, FreqFrame DEF KeyNoted, Goto
    <2>2. CASE KeyHandler(k)
      <3>1. (IF level[k] = 1 THEN k ELSE "next") \notin {"setfreq", "freqWrite", "keyWrite"}
        BY KeysAssumption
      <3> QED BY <2>2, <3>1, KeyOutcome, FreqFrame DEF KeyHandler
    <2> QED BY <1>4, <2>1, <2>2
  <1>5. ASSUME NEW k, NEW steps, NEW target \in S, FreqKey(k, steps, target)
        PROVE  FreqInv(S)'
    <2>1. CASE cur_mode = 1 /\ steps
      BY <1>5, <2>1 DEF FreqKey, Hold, Goto, FreqInv, TypeInv, TypeOK
    <2>2. CASE ~(cur_mode = 1 /\ steps)
      BY <1>5, <2>2, FreqFrame DEF FreqKey, Goto
    <2> QED BY <2>1, <2>2
  <1>6. CASE K1 \/ K2
    <2>1. Increment(cur_freq) \in S /\ Decrement(cur_freq) \in S
      BY DEF Closed, FreqInv
    <2> QED BY <1>5, <1>6, <2>1 DEF K1, K2
  <1>7. CASE KeyWrite
    <2>1. drvFreq' \in S
      BY <1>7, DriverFreqs DEF KeyWrite, FreqInv
    <2> QED BY <1>7, <2>1 DEF KeyWrite, Goto, FreqInv, TypeInv, TypeOK
  <1> QED BY <1>1, <1>2, <1>3, <1>4, <1>6, <1>7, FreqModes DEF EventsStep

LEMMA FreqNext ==
  ASSUME NEW S, Closed(S), TypeInv, FreqInv(S), [Next]_vars
  PROVE  FreqInv(S)'
  <1> USE DEF Threads, mainv, eventv, driver
  <1>1. CASE Environment
    <2>1. CASE Start
      BY <2>1 DEF Start, Goto, FreqInv, Closed, TypeInv, TypeOK
    <2>2. CASE Kill
      BY <2>2 DEF Kill, FreqInv
    <2>3. CASE Regulate
      BY <2>3, DriverRegulates DEF Regulate, FreqInv, Closed, TypeInv, TypeOK
    <2>4. ASSUME NEW c \in Commands, Receive(c) PROVE FreqInv(S)'
      <3>1. c.name # "freqWrite"
        BY CommandsAssumption DEF Queries
      <3>2. /\ cmd' = c /\ pc'["main"] = c.name /\ pc'["events"] = pc["events"]
            /\ UNCHANGED <<drvFreq, cur_freq, arg>>
        BY <2>4 DEF Receive, Goto, TypeInv, TypeOK
      <3> QED BY <3>1, <3>2 DEF FreqInv
    <2>5. ASSUME NEW k \in Keys, Press(k) PROVE FreqInv(S)'
      BY <2>5, FreqKept DEF Press
    <2> QED BY <1>1, <2>1, <2>2, <2>3, <2>4, <2>5 DEF Environment
  <1>2. CASE Expire
    BY <1>2, FreqKept DEF Expire
  <1>3. CASE UNCHANGED vars
    BY <1>3, FreqKept DEF vars
  <1> QED BY <1>1, <1>2, <1>3, FreqMain, FreqEvents DEF Next

LEMMA FreqInit == ASSUME NEW S, Closed(S), Init PROVE FreqInv(S)
BY DEF Init, FreqInv, Closed, Threads

\* Whatever set of frequencies the keys cannot leave, the daemon does not leave: the
\* frequency a key steps from may be stale, but it is one that was set.
THEOREM FreqsClosed == ASSUME NEW S, Closed(S) PROVE Spec => []FreqInv(S)
  <1>1. Init => FreqInv(S)
    BY FreqInit
  <1>2. TypeInv /\ FreqInv(S) /\ [Next]_vars => FreqInv(S)'
    BY FreqNext
  <1> QED BY <1>1, <1>2, TypeAlways, PTL DEF Spec

\* Unless a client asks for a negative frequency there is none: not by K2 at zero,
\* from a stale frequency or in any order of keys, commands, kills and restarts.  And
\* as long as clients ask for rungs and the driver regulates to rungs, every frequency
\* is a rung, where K1 and K2 undo each other (Inverse).
THEOREM OnTheLadderAlways == Spec => []OnTheLadder
  <1> DEFINE NatInv == Asked \subseteq Nat => FreqInv(Nat)
             RungInv == AutoFreqs \cup Asked \subseteq Rungs => FreqInv(Rungs)
  <1>1. Asked \subseteq Nat => Closed(Nat)
    BY AutoFreqsAssumption, NeverNegative DEF Closed
  <1>2. AutoFreqs \cup Asked \subseteq Rungs => Closed(Rungs)
    BY RungsClosed DEF Closed, Rungs
  <1>3. Init => NatInv /\ RungInv
    BY <1>1, <1>2, FreqInit
  <1>4. TypeInv /\ NatInv /\ [Next]_vars => NatInv'
    BY <1>1, FreqNext
  <1>5. TypeInv /\ RungInv /\ [Next]_vars => RungInv'
    BY <1>2, FreqNext
  <1>6. NatInv /\ RungInv => OnTheLadder
    BY DEF FreqInv, OnTheLadder
  <1> QED BY <1>3, <1>4, <1>5, <1>6, TypeAlways, PTL DEF Spec
=============================================================================
