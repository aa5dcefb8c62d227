---------------------------- MODULE WakeUpProofs ----------------------------
(***************************************************************************)
(* For any number of readers and interrupt lines: what is posted while no  *)
(* waiter is blind is kept, and unloading leaves nothing behind.           *)
(***************************************************************************)
EXTENDS WakeUp, TLAPS

\* Only module_sommeil_5 has a second thread to come to.
AtInv == prog # "sommeil" => at = 1

\* The threads that have not been created yet, or have been joined.
Idle(t) ==
    \/ prog = "button"
    \/ stage = "out"
    \/ prog = "threads" /\ t = "thread2"
    \/ stage = "loading" /\ (at = 1 \/ t = "thread2")
    \/ stage \in {"stopping", "joining"} /\ at = 2 /\ t = "thread1"

LifeInv ==
    /\ prog = "button" => stage = "live"
    /\ prog # "button" => \A a \in Readers \cup Irqs : pc[a] = "idle"
    /\ \A t \in Threads : Idle(t) => pc[t] = "ended"

\* Who is in the wait queue.
QueueInv ==
    /\ "thread1" \in queue <=> pc["thread1"] \in {"test", "asleep"}
    /\ \A r \in Readers : /\ r \in queue => pc[r] # "idle"
                          /\ pc[r] = "asleep" => r \in queue

\* A post that counts: nobody is about to clear the flag, and whoever sleeps,
\* or is about to, has been woken up or is going to be.
NoticeInv ==
    notice = "posted" =>
        /\ flag = 1
        /\ \A w \in Waiters :
              /\ pc[w] # "clear"
              /\ pc[w] \in {"asleep", "poll_wait"} =>
                    w \in queue /\ (w \in roused \/ Waking)

\* thread1 falls asleep over a flag that is not set, and whoever sets it wakes it up.
SleepInv == flag = 1 /\ pc["thread1"] = "asleep" => Told("thread1")

\* The thread that posts runs until it is asked to stop, and it is asked only when
\* the thread that waits has been joined.
PosterInv ==
    prog = "sommeil" =>
        /\ stage \in {"loading", "live"} => "thread2" \notin asked
        /\ stage \in {"stopping", "joining"} /\ "thread2" \in asked => at = 2
        /\ stage \in {"live", "stopping", "joining"} /\ "thread2" \notin asked =>
              pc["thread2"] # "ended"

WakeInv == /\ TypeOK /\ AtInv /\ LifeInv /\ QueueInv /\ NoticeInv
           /\ SleepInv /\ PosterInv

-----------------------------------------------------------------------------
LEMMA Disjoint ==
    /\ \A r \in Readers : r \notin Posters /\ r \notin Threads
    /\ \A i \in Irqs : i \notin Waiters /\ i \notin Threads
    /\ "thread1" \notin Posters /\ "thread2" \notin Waiters
    /\ "thread1" \in Threads /\ "thread2" \in Threads /\ "thread1" # "thread2"
    /\ "thread1" \notin Readers
  BY ActorsAssumption DEF Posters, Waiters, Threads

\* A step of one actor leaves the others where they are.
LEMMA StepMoves ==
    ASSUME TypeOK, NEW a \in Actors, NEW from, NEW to \in Steps, Step(a, from, to)
    PROVE  /\ pc' \in [Actors -> Steps]
           /\ pc[a] = from /\ pc'[a] = to
           /\ \A b \in Actors : b # a => pc'[b] = pc[b]
  BY DEF Step, TypeOK

LEMMA InitInv == Init => WakeInv
  <1> SUFFICES ASSUME Init PROVE WakeInv
    OBVIOUS
  <1>1. pc \in [Actors -> Steps] /\ mask \in [Readers -> BOOLEAN]
    BY DEF Init, Steps
  <1>2. /\ \A a \in Readers \cup Irqs : pc[a] = "idle"
        /\ \A t \in Threads : pc[t] = "ended"
    BY Disjoint DEF Init, Actors
  <1>3. TypeOK
    BY <1>1 DEF Init, TypeOK
  <1>4. LifeInv
    BY <1>2 DEF Init, LifeInv
  <1>5. QueueInv
    BY <1>2, Disjoint DEF Init, QueueInv
  <1>6. SleepInv /\ PosterInv
    BY DEF Init, SleepInv, PosterInv
  <1> QED BY <1>3, <1>4, <1>5, <1>6 DEF Init, WakeInv, AtInv, NoticeInv

-----------------------------------------------------------------------------
(* Types.                                                                  *)

LEMMA Members == /\ Readers \subseteq Actors /\ Irqs \subseteq Actors
                 /\ Threads \subseteq Actors
                 /\ "thread1" \in Waiters /\ Readers \subseteq Waiters
                 /\ \A w \in Waiters : w \in Readers \/ w = "thread1"
                 /\ \A p \in Posters : p \in Irqs \/ p = "thread2"
                 /\ Irqs \subseteq Posters /\ "thread2" \in Posters
  BY DEF Actors, Waiters, Posters, Threads

LEMMA StoppedMember == ASSUME TypeOK, AtInv
                       PROVE  Stopped[at] \in Threads /\ Created[at] \in Threads
  <1>1. CASE prog = "sommeil"
    BY <1>1 DEF TypeOK, Stopped, Created, Threads
  <1>2. CASE prog # "sommeil"
    BY <1>2 DEF AtInv, Stopped, Created, Threads
  <1> QED BY <1>1, <1>2

\* What the steps of the actors leave alone: where loading stands.
LEMMA ActorsLeave ==
    /\ \A t \in Threads : ThreadStep(t) => UNCHANGED <<prog, loader>>
    /\ \A r \in Readers : ReaderStep(r) => UNCHANGED <<prog, loader>>
    /\ \A i \in Irqs : Handler(i) \/ Interrupt(i) => UNCHANGED <<prog, loader>>
  <1> USE DEF Top, Slept, Post, Wake, WaitEvent, Enqueue, Test, Roused, Clear,
              Select, PollTest, PollClear, PollWait, Return, Interrupt
  <1> QED BY DEF ThreadStep, ReaderStep, Handler

LEMMA TypeStep == TypeOK /\ AtInv /\ [Next]_vars => TypeOK'
  <1> SUFFICES ASSUME TypeOK, AtInv, [Next]_vars PROVE TypeOK'
    OBVIOUS
  <1> USE Members, Disjoint
  <1>1. ASSUME NEW t \in Threads, Top(t) \/ Slept(t) PROVE TypeOK'
    <2>1. pc' \in [Actors -> Steps]
      <3>1. CASE Top(t)
        <4>1. (IF t \in asked THEN "ended" ELSE Body(t)) \in Steps
          BY DEF Body, Steps, Threads
        <4> QED BY <3>1, <4>1, StepMoves DEF Top
      <3>2. CASE Slept(t)
        BY <3>2, StepMoves DEF Slept, Steps
      <3> QED BY <1>1, <3>1, <3>2
    <2> QED BY <1>1, <2>1 DEF Top, Slept, TypeOK, loader
  <1>2. ASSUME NEW p \in Posters, Post(p) \/ Wake(p) PROVE TypeOK'
    <2>1. pc' \in [Actors -> Steps]
      BY <1>2, StepMoves DEF Post, Wake, Steps
    <2>2. flag' \in 0..1 /\ notice' \in {"posted", "seen", "missed"}
      BY <1>2 DEF Post, Wake, TypeOK
    <2>3. roused' \subseteq Waiters \cup Threads
      BY <1>2 DEF Post, Wake, TypeOK
    <2> QED BY <1>2, <2>1, <2>2, <2>3 DEF Post, Wake, TypeOK, loader
  <1>3. CASE WaitEvent \/ Enqueue \/ Test \/ Clear
    <2>1. pc' \in [Actors -> Steps]
      BY <1>3, StepMoves DEF WaitEvent, Enqueue, Test, Clear, Steps
    <2>2. flag' \in 0..1 /\ notice' \in {"posted", "seen", "missed"}
      BY <1>3 DEF WaitEvent, Enqueue, Test, Clear, Seen, TypeOK
    <2>3. queue' \subseteq Waiters
      BY <1>3 DEF WaitEvent, Enqueue, Test, Clear, TypeOK
    <2> QED BY <1>3, <2>1, <2>2, <2>3
            DEF WaitEvent, Enqueue, Test, Clear, TypeOK, loader
  <1>4. ASSUME NEW w \in Waiters, Roused(w) PROVE TypeOK'
    <2>1. pc' \in [Actors -> Steps]
      BY <1>4, StepMoves DEF Roused, Steps
    <2> QED BY <1>4, <2>1 DEF Roused, TypeOK, loader
  <1>5. ASSUME NEW r \in Readers,
               Select(r) \/ PollTest(r) \/ PollClear(r) \/ PollWait(r) \/ Return(r)
        PROVE  TypeOK'
    <2>1. pc' \in [Actors -> Steps]
      BY <1>5, StepMoves DEF Select, PollTest, PollClear, PollWait, Return, Steps
    <2>2. flag' \in 0..1 /\ notice' \in {"posted", "seen", "missed"}
      BY <1>5 DEF Select, PollTest, PollClear, PollWait, Return, Seen, TypeOK
    <2>3. mask' \in [Readers -> BOOLEAN]
      BY <1>5 DEF Select, PollTest, PollClear, PollWait, Return, TypeOK
    <2>4. queue' \subseteq Waiters /\ roused' \subseteq Waiters \cup Threads
      BY <1>5 DEF Select, PollTest, PollClear, PollWait, Return, TypeOK
    <2> QED BY <1>5, <2>1, <2>2, <2>3, <2>4
            DEF Select, PollTest, PollClear, PollWait, Return, TypeOK, loader
  <1>6. ASSUME NEW i \in Irqs, Interrupt(i) PROVE TypeOK'
    <2>1. pc' \in [Actors -> Steps]
      BY <1>6, StepMoves DEF Interrupt, Steps
    <2> QED BY <1>6, <2>1 DEF Interrupt, TypeOK, loader
  <1>7. CASE Load \/ Unload
    BY <1>7 DEF Load, Unload, TypeOK
  <1>8. CASE Create
    <2>1. pc' \in [Actors -> Steps]
      BY <1>8, StepMoves, StoppedMember DEF Create, Steps, TypeOK
    <2>2. at' \in 1..2 /\ stage' \in {"loading", "live", "oops"}
      BY <1>8 DEF Create, Created, TypeOK
    <2> QED BY <1>8, <2>1, <2>2 DEF Create, TypeOK
  <1>9. CASE Stop
    BY <1>9, StoppedMember DEF Stop, TypeOK
  <1>10. CASE Join
    <2>1. at' \in 1..2
      BY <1>10 DEF Join, Stopped, TypeOK
    <2> QED BY <1>10, <2>1 DEF Join, TypeOK
  <1>11. CASE UNCHANGED vars
    BY <1>11 DEF vars, loader, TypeOK
  <1> QED BY <1>1, <1>2, <1>3, <1>4, <1>5, <1>6, <1>7, <1>8, <1>9, <1>10, <1>11
          DEF Next, ThreadStep, ReaderStep, Handler

LEMMA AtStep == TypeOK /\ AtInv /\ [Next]_vars => AtInv'
  <1> SUFFICES ASSUME TypeOK, AtInv, [Next]_vars PROVE AtInv'
    OBVIOUS
  <1>1. CASE Load \/ Create \/ Unload \/ Stop \/ Join
    BY <1>1 DEF Load, Create, Unload, Stop, Join, Created, Stopped, AtInv
  <1>2. CASE UNCHANGED <<prog, loader>>
    BY <1>2 DEF loader, AtInv
  <1> QED BY <1>1, <1>2, ActorsLeave DEF Next, vars, loader

-----------------------------------------------------------------------------
(* Loading and unloading.                                                  *)

\* Whoever steps had not ended, and a reader or an interrupt that begins is
\* one of the button driver.
LEMMA OneMoves ==
    ASSUME TypeOK
    PROVE  /\ \A t \in Threads : ThreadStep(t) =>
                 pc[t] # "ended" /\ \A b \in Actors \ {t} : pc'[b] = pc[b]
           /\ \A r \in Readers : ReaderStep(r) =>
                 /\ pc[r] = "idle" => prog = "button"
                 /\ \A b \in Actors \ {r} : pc'[b] = pc[b]
           /\ \A i \in Irqs : Handler(i) \/ Interrupt(i) =>
                 /\ pc[i] = "idle" => prog = "button"
                 /\ \A b \in Actors \ {i} : pc'[b] = pc[b]
  <1> USE DEF TypeOK, Step, Top, Slept, Post, Wake, WaitEvent, Enqueue, Test,
              Roused, Clear, Select, PollTest, PollClear, PollWait, Return,
              Interrupt
  <1>1. ASSUME NEW t \in Threads, ThreadStep(t)
        PROVE  pc[t] # "ended" /\ \A b \in Actors \ {t} : pc'[b] = pc[b]
    BY <1>1 DEF ThreadStep
  <1>2. ASSUME NEW r \in Readers, ReaderStep(r)
        PROVE  /\ pc[r] = "idle" => prog = "button"
               /\ \A b \in Actors \ {r} : pc'[b] = pc[b]
    BY <1>2 DEF ReaderStep
  <1>3. ASSUME NEW i \in Irqs, Handler(i) \/ Interrupt(i)
        PROVE  /\ pc[i] = "idle" => prog = "button"
               /\ \A b \in Actors \ {i} : pc'[b] = pc[b]
    BY <1>3 DEF Handler
  <1> QED BY <1>1, <1>2, <1>3

LEMMA LifeStep == TypeOK /\ AtInv /\ LifeInv /\ [Next]_vars => LifeInv'
  <1> SUFFICES ASSUME TypeOK, AtInv, LifeInv, [Next]_vars PROVE LifeInv'
    OBVIOUS
  <1> USE Members, Disjoint
  <1>1. ASSUME NEW t \in Threads, ThreadStep(t) PROVE LifeInv'
    <2>1. UNCHANGED <<prog, loader>>
      BY <1>1, ActorsLeave
    <2>2. pc[t] # "ended" /\ \A b \in Actors \ {t} : pc'[b] = pc[b]
      BY <1>1, OneMoves
    <2> QED BY <2>1, <2>2 DEF LifeInv, Idle, loader
  <1>2. ASSUME NEW r \in Readers, ReaderStep(r) PROVE LifeInv'
    <2>1. UNCHANGED <<prog, loader>>
      BY <1>2, ActorsLeave
    <2>2. /\ pc[r] = "idle" => prog = "button"
          /\ \A b \in Actors \ {r} : pc'[b] = pc[b]
      BY <1>2, OneMoves
    <2> QED BY <2>1, <2>2 DEF LifeInv, Idle, loader
  <1>3. ASSUME NEW i \in Irqs, Handler(i) \/ Interrupt(i) PROVE LifeInv'
    <2>1. UNCHANGED <<prog, loader>>
      BY <1>3, ActorsLeave
    <2>2. /\ pc[i] = "idle" => prog = "button"
          /\ \A b \in Actors \ {i} : pc'[b] = pc[b]
      BY <1>3, OneMoves
    <2> QED BY <2>1, <2>2 DEF LifeInv, Idle, loader
  <1>4. CASE Load \/ Unload \/ Stop
    BY <1>4 DEF Load, Unload, Stop, LifeInv, Idle
  <1>5. CASE Create
    <2>1. prog # "button" /\ prog' = prog /\ stage = "loading"
      BY <1>5 DEF Create, LifeInv
    <2>2. CASE stage' = "oops"
      <3>1. \A t \in Threads : Idle(t)' => Idle(t)
        BY <2>1, <2>2 DEF Idle
      <3>2. pc' = pc
        BY <1>5, <2>2 DEF Create
      <3> QED BY <2>1, <3>1, <3>2 DEF LifeInv
    <2>3. CASE stage' # "oops"
      <3>1. /\ Step(Created[at], "ended", "top") /\ Created[at] \in Threads
            /\ IF at < Len(Created) THEN at' = at + 1 /\ stage' = "loading"
                                    ELSE at' = 1 /\ stage' = "live"
        BY <1>5, <2>1, <2>3, StoppedMember DEF Create
      <3>2. \A b \in Actors \ {Created[at]} : pc'[b] = pc[b]
        BY <3>1, StepMoves DEF Steps
      <3>3. ASSUME NEW t \in Threads, Idle(t)' PROVE Idle(t) /\ t # Created[at]
        <4>1. CASE prog = "sommeil"
          BY <2>1, <3>1, <3>3, <4>1 DEF Idle, Created, TypeOK
        <4>2. CASE prog # "sommeil"
          BY <2>1, <3>1, <3>3, <4>2 DEF Idle, Created, AtInv
        <4> QED BY <4>1, <4>2
      <3> QED BY <2>1, <3>1, <3>2, <3>3 DEF LifeInv
    <2> QED BY <2>2, <2>3
  <1>6. CASE Join
    <2>1. /\ prog # "button" /\ UNCHANGED <<prog, pc>>
          /\ stage = "joining" /\ pc[Stopped[at]] = "ended"
          /\ IF at < Len(Stopped) THEN at' = at + 1 /\ stage' = "stopping"
                                  ELSE at' = 1 /\ stage' = "out"
      BY <1>6 DEF Join, LifeInv
    <2>2. ASSUME NEW t \in Threads, Idle(t)' PROVE pc[t] = "ended"
      <3>1. CASE prog = "sommeil"
        BY <2>1, <2>2, <3>1 DEF Idle, Stopped, TypeOK, Threads, LifeInv
      <3>2. CASE prog # "sommeil"
        BY <2>1, <2>2, <3>2 DEF Idle, Stopped, AtInv, TypeOK, Threads, LifeInv
      <3> QED BY <3>1, <3>2
    <2> QED BY <2>1, <2>2 DEF LifeInv
  <1>7. CASE UNCHANGED vars
    BY <1>7 DEF vars, loader, LifeInv, Idle
  <1> QED BY <1>1, <1>2, <1>3, <1>4, <1>5, <1>6, <1>7 DEF Next

-----------------------------------------------------------------------------
(* The wait queue and the notice.                                          *)

LEMMA QueueStep == TypeOK /\ AtInv /\ LifeInv /\ QueueInv /\ [Next]_vars => QueueInv'
  <1> SUFFICES ASSUME TypeOK, AtInv, LifeInv, QueueInv, [Next]_vars PROVE QueueInv'
    OBVIOUS
  <1> USE Members, Disjoint
  <1>1. ASSUME NEW t \in Threads, Top(t) \/ Slept(t) PROVE QueueInv'
    <2>1. /\ queue' = queue /\ pc[t] \in {"top", "sleep"}
          /\ pc'[t] \notin {"test", "asleep"}
      <3>1. Body(t) \notin {"test", "asleep"}
        BY DEF Body, Threads
      <3> QED BY <1>1, <3>1 DEF Top, Slept, Step, TypeOK
    <2>2. \A b \in Actors : b # t => pc'[b] = pc[b]
      BY <1>1 DEF Top, Slept, Step, TypeOK
    <2> QED BY <2>1, <2>2 DEF QueueInv
  <1>2. ASSUME NEW p \in Posters, Post(p) \/ Wake(p) PROVE QueueInv'
    <2>1. queue' = queue /\ \A b \in Actors : b # p => pc'[b] = pc[b]
      BY <1>2 DEF Post, Wake, Step, TypeOK
    <2> QED BY <2>1 DEF QueueInv
  <1>3. CASE WaitEvent \/ Enqueue \/ Test \/ Clear
    <2>1. \A b \in Actors : b # "thread1" => pc'[b] = pc[b]
      BY <1>3, StepMoves DEF WaitEvent, Enqueue, Test, Clear, Steps
    <2>2. queue' \ {"thread1"} = queue \ {"thread1"}
      BY <1>3 DEF WaitEvent, Enqueue, Test, Clear
    <2>3. "thread1" \in queue' <=> pc'["thread1"] \in {"test", "asleep"}
      BY <1>3 DEF WaitEvent, Enqueue, Test, Clear, Step, QueueInv, TypeOK
    <2> QED BY <2>1, <2>2, <2>3 DEF QueueInv
  <1>4. ASSUME NEW w \in Waiters, Roused(w) PROVE QueueInv'
    <2>1. /\ queue' = queue /\ pc[w] = "asleep" /\ pc'[w] = "test"
          /\ \A b \in Actors : b # w => pc'[b] = pc[b]
      BY <1>4, StepMoves DEF Roused, Steps
    <2> QED BY <2>1 DEF QueueInv
  <1>5. ASSUME NEW r \in Readers,
               Select(r) \/ PollTest(r) \/ PollClear(r) \/ PollWait(r) \/ Return(r)
        PROVE  QueueInv'
    <2>1. \A b \in Actors : b # r => pc'[b] = pc[b]
      BY <1>5, StepMoves DEF Select, PollTest, PollClear, PollWait, Return, Steps
    <2>2. queue' \ {r} = queue \ {r}
      BY <1>5 DEF Select, PollTest, PollClear, PollWait, Return
    <2>3. /\ r \in queue' => pc'[r] # "idle"
          /\ pc'[r] = "asleep" => r \in queue'
      <3> USE DEF QueueInv, Step, TypeOK
      <3>1. CASE Select(r)
        BY <3>1 DEF Select
      <3>2. CASE PollTest(r)
        BY <3>2 DEF PollTest
      <3>3. CASE PollClear(r)
        BY <3>3 DEF PollClear
      <3>4. CASE PollWait(r)
        BY <3>4 DEF PollWait
      <3>5. CASE Return(r)
        BY <3>5 DEF Return
      <3> QED BY <1>5, <3>1, <3>2, <3>3, <3>4, <3>5
    <2> QED BY <2>1, <2>2, <2>3 DEF QueueInv
  <1>6. ASSUME NEW i \in Irqs, Interrupt(i) PROVE QueueInv'
    BY <1>6, StepMoves DEF Interrupt, Steps, QueueInv
  <1>7. CASE Load
    <2>1. queue' = {} /\ pc' = pc /\ prog # "button"
      BY <1>7 DEF Load
    <2>2. pc["thread1"] = "ended" /\ \A r \in Readers : pc[r] = "idle"
      BY <1>7, <2>1 DEF Load, LifeInv, Idle
    <2> QED BY <2>1, <2>2 DEF QueueInv
  <1>8. CASE Create
    <2>1. queue' = queue
      BY <1>8 DEF Create
    <2>2. CASE pc' = pc
      BY <2>1, <2>2 DEF QueueInv
    <2>3. CASE Step(Created[at], "ended", "top")
      <3>1. Created[at] \in Threads
        BY StoppedMember
      <3>2. /\ pc[Created[at]] = "ended" /\ pc'[Created[at]] = "top"
            /\ \A b \in Actors : b # Created[at] => pc'[b] = pc[b]
        BY <2>3, <3>1 DEF Step, TypeOK
      <3> QED BY <2>1, <3>1, <3>2 DEF QueueInv
    <2> QED BY <1>8, <2>2, <2>3 DEF Create
  <1>9. CASE Unload \/ Stop \/ Join
    BY <1>9 DEF Unload, Stop, Join, QueueInv
  <1>10. CASE UNCHANGED vars
    BY <1>10 DEF vars, QueueInv
  <1>11. ASSUME NEW t \in Threads, ThreadStep(t) PROVE QueueInv'
    BY <1>1, <1>3, <1>4, <1>2, <1>11 DEF ThreadStep
  <1>12. ASSUME NEW r \in Readers, ReaderStep(r) PROVE QueueInv'
    BY <1>4, <1>5, <1>12 DEF ReaderStep
  <1>13. ASSUME NEW i \in Irqs, Handler(i) \/ Interrupt(i) PROVE QueueInv'
    BY <1>6, <1>2, <1>13 DEF Handler
  <1> QED BY <1>7, <1>8, <1>9, <1>10, <1>11, <1>12, <1>13 DEF Next

\* A step that posts nothing, clears nothing and wakes nobody, of one actor
\* that does not go to sleep either.
LEMMA NoticeFrame ==
    ASSUME TypeOK, NoticeInv, NEW a \in Actors, notice' = notice, flag' = flag,
           pc[a] # "wake", pc'[a] \notin {"clear", "asleep", "poll_wait"},
           \A b \in Actors \ {a} : /\ pc'[b] = pc[b]
                                   /\ b \in queue <=> b \in queue'
                                   /\ b \in roused => b \in roused'
    PROVE  NoticeInv'
  <1> SUFFICES ASSUME notice = "posted"
               PROVE  /\ flag' = 1
                      /\ \A w \in Waiters :
                            /\ pc'[w] # "clear"
                            /\ pc'[w] \in {"asleep", "poll_wait"} =>
                                  w \in queue' /\ (w \in roused' \/ Waking')
    BY DEF NoticeInv
  <1>1. Posters \subseteq Actors /\ Waiters \subseteq Actors
    BY DEF Posters, Waiters, Actors, Threads
  <1>2. Waking => Waking'
    BY <1>1 DEF Waking
  <1> QED BY <1>1, <1>2 DEF NoticeInv

LEMMA NoticeStep == TypeOK /\ AtInv /\ QueueInv /\ NoticeInv /\ [Next]_vars
                    => NoticeInv'
  <1> SUFFICES ASSUME TypeOK, AtInv, QueueInv, NoticeInv, [Next]_vars
               PROVE  NoticeInv'
    OBVIOUS
  <1> USE Members, Disjoint
  <1>1. ASSUME NEW t \in Threads, Top(t) \/ Slept(t) PROVE NoticeInv'
    <2>1. /\ pc[t] \in {"top", "sleep"}
          /\ pc'[t] \notin {"clear", "asleep", "poll_wait"}
      <3>1. Body(t) \notin {"clear", "asleep", "poll_wait"}
        BY DEF Body, Threads
      <3> QED BY <1>1, <3>1 DEF Top, Slept, Step, TypeOK
    <2>2. /\ UNCHANGED <<flag, queue, roused, notice>>
          /\ \A b \in Actors \ {t} : pc'[b] = pc[b]
      BY <1>1 DEF Top, Slept, Step, TypeOK
    <2> QED BY <2>1, <2>2, NoticeFrame
  <1>2. ASSUME NEW p \in Posters, Post(p), notice' = "posted" PROVE NoticeInv'
    <2>1. /\ \A w \in Waiters : ~Blind(w)
          /\ flag' = 1 /\ UNCHANGED <<queue, roused>>
      BY <1>2 DEF Post
    <2>2. pc'[p] = "wake" /\ \A b \in Actors \ {p} : pc'[b] = pc[b]
      BY <1>2 DEF Post, Step, TypeOK
    <2>3. Waking'
      BY <2>2 DEF Waking
    <2> QED BY <2>1, <2>2, <2>3 DEF NoticeInv, QueueInv, Blind, Outside
  <1>3. ASSUME NEW p \in Posters, Wake(p) PROVE NoticeInv'
    <2>1. /\ UNCHANGED <<flag, queue, notice>> /\ roused' = roused \cup queue
          /\ pc[p] = "wake" /\ pc'[p] \in {"sleep", "idle"}
          /\ \A b \in Actors \ {p} : pc'[b] = pc[b]
      BY <1>3 DEF Wake, Step, TypeOK
    <2> QED BY <2>1 DEF NoticeInv
  <1>4. CASE WaitEvent \/ Enqueue \/ Test \/ Clear
    <2>1. CASE WaitEvent \/ Test
      BY <2>1 DEF WaitEvent, Test, Seen, NoticeInv
    <2>2. CASE Clear
      BY <2>2 DEF Clear, Step, NoticeInv
    <2>3. CASE Enqueue
      <3>1. /\ pc["thread1"] = "enqueue" /\ pc'["thread1"] = "test"
            /\ UNCHANGED <<flag, roused, notice>>
            /\ \A b \in Actors \ {"thread1"} : pc'[b] = pc[b] /\ (b \in queue <=> b \in queue')
        BY <2>3 DEF Enqueue, Step, TypeOK
      <3> QED BY <3>1, NoticeFrame
    <2> QED BY <1>4, <2>1, <2>2, <2>3
  <1>5. ASSUME NEW w \in Waiters, Roused(w) PROVE NoticeInv'
    <2>1. /\ pc[w] = "asleep" /\ pc'[w] = "test" /\ UNCHANGED <<flag, queue, notice>>
          /\ \A b \in Actors \ {w} : pc'[b] = pc[b] /\ (b \in roused => b \in roused')
      BY <1>5 DEF Roused, Step, TypeOK
    <2> QED BY <2>1, NoticeFrame
  <1>6. ASSUME NEW r \in Readers,
               Select(r) \/ PollTest(r) \/ PollClear(r) \/ PollWait(r) \/ Return(r)
        PROVE  NoticeInv'
    <2>1. CASE PollTest(r)
      BY <2>1 DEF PollTest, Seen, NoticeInv
    <2>2. CASE PollClear(r)
      BY <2>2 DEF PollClear, Step, NoticeInv
    <2>3. CASE Select(r) \/ Return(r)
      <3>1. /\ pc[r] \in {"idle", "return"} /\ pc'[r] \in {"test", "idle"}
            /\ UNCHANGED <<flag, notice>>
            /\ \A b \in Actors \ {r} : /\ pc'[b] = pc[b]
                                       /\ b \in queue <=> b \in queue'
                                       /\ b \in roused => b \in roused'
        BY <2>3 DEF Select, Return, Step, TypeOK
      <3> QED BY <3>1, NoticeFrame
    <2>4. CASE PollWait(r)
      <3>1. /\ pc[r] = "poll_wait" /\ pc'[r] \in {"return", "asleep"}
            /\ UNCHANGED <<flag, roused, notice>> /\ queue' = queue \cup {r}
            /\ \A b \in Actors \ {r} : pc'[b] = pc[b]
        BY <2>4 DEF PollWait, Step, TypeOK
      <3>2. Waking => Waking'
        BY <3>1 DEF Waking
      <3> QED BY <3>1, <3>2 DEF NoticeInv
    <2> QED BY <1>6, <2>1, <2>2, <2>3, <2>4
  <1>7. ASSUME NEW i \in Irqs, Interrupt(i) PROVE NoticeInv'
    <2>1. /\ pc[i] = "idle" /\ pc'[i] = "post" /\ UNCHANGED <<flag, queue, roused, notice>>
          /\ \A b \in Actors \ {i} : pc'[b] = pc[b]
      BY <1>7 DEF Interrupt, Step, TypeOK
    <2> QED BY <2>1, NoticeFrame
  <1>8. CASE Load
    BY <1>8 DEF Load, NoticeInv
  <1>9. CASE Create
    <2>1. UNCHANGED <<flag, queue, roused, notice>>
      BY <1>9 DEF Create
    <2>2. CASE pc' = pc
      BY <2>1, <2>2 DEF NoticeInv, Waking
    <2>3. CASE Step(Created[at], "ended", "top")
      <3>1. Created[at] \in Threads
        BY StoppedMember
      <3>2. /\ pc[Created[at]] = "ended" /\ pc'[Created[at]] = "top"
            /\ \A b \in Actors \ {Created[at]} : pc'[b] = pc[b]
        BY <2>3, <3>1 DEF Step, TypeOK
      <3> QED BY <2>1, <3>1, <3>2, NoticeFrame
    <2> QED BY <1>9, <2>2, <2>3 DEF Create
  <1>10. CASE Unload \/ Stop \/ Join
    BY <1>10 DEF Unload, Stop, Join, NoticeInv, Waking
  <1>11. CASE UNCHANGED vars
    BY <1>11 DEF vars, NoticeInv, Waking
  <1>12. ASSUME NEW p \in Posters, Post(p) PROVE NoticeInv'
    BY <1>2, <1>12 DEF NoticeInv
  <1>13. ASSUME NEW t \in Threads, ThreadStep(t) PROVE NoticeInv'
    BY <1>1, <1>3, <1>4, <1>5, <1>12, <1>13 DEF ThreadStep
  <1>14. ASSUME NEW r \in Readers, ReaderStep(r) PROVE NoticeInv'
    BY <1>5, <1>6, <1>14 DEF ReaderStep
  <1>15. ASSUME NEW i \in Irqs, Handler(i) \/ Interrupt(i) PROVE NoticeInv'
    BY <1>3, <1>7, <1>12, <1>15 DEF Handler
  <1> QED BY <1>8, <1>9, <1>10, <1>11, <1>13, <1>14, <1>15 DEF Next

-----------------------------------------------------------------------------
(* The thread that waits for the other.                                    *)

\* A step that does not set the flag, wakes nobody and leaves thread1 where it is.
LEMMA SleepFrame ==
    ASSUME TypeOK, SleepInv, NEW a \in Actors, pc[a] # "wake", flag' = 1 => flag = 1,
           pc'["thread1"] = "asleep" => pc["thread1"] = "asleep",
           \A b \in Actors \ {a} : pc'[b] = pc[b],
           pc'["thread1"] = "asleep" /\ "thread1" \in roused => "thread1" \in roused'
    PROVE  SleepInv'
  <1>1. Posters \subseteq Actors
    BY DEF Posters, Actors, Threads
  <1>2. Waking => Waking'
    BY <1>1 DEF Waking
  <1> QED BY <1>2 DEF SleepInv, Told, TypeOK

LEMMA SleepStep == TypeOK /\ AtInv /\ LifeInv /\ QueueInv /\ SleepInv /\ [Next]_vars
                   => SleepInv'
  <1> SUFFICES ASSUME TypeOK, AtInv, LifeInv, QueueInv, SleepInv, [Next]_vars
               PROVE  SleepInv'
    OBVIOUS
  <1> USE Members, Disjoint
  <1>1. ASSUME NEW p \in Posters, Post(p) PROVE SleepInv'
    <2>1. pc'[p] = "wake"
      BY <1>1 DEF Post, Step, TypeOK
    <2> QED BY <2>1 DEF SleepInv, Told, Waking
  <1>2. ASSUME NEW p \in Posters, Wake(p) PROVE SleepInv'
    <2>1. roused' = roused \cup queue /\ pc'["thread1"] = pc["thread1"]
      BY <1>2 DEF Wake, Step, TypeOK
    <2> QED BY <2>1 DEF SleepInv, Told, QueueInv
  <1>3. ASSUME NEW t \in Threads, Top(t) \/ Slept(t) PROVE SleepInv'
    <2>1. /\ pc[t] \in {"top", "sleep"} /\ pc'[t] # "asleep"
          /\ UNCHANGED <<flag, roused>> /\ \A b \in Actors \ {t} : pc'[b] = pc[b]
      <3>1. Body(t) # "asleep"
        BY DEF Body, Threads
      <3> QED BY <1>3, <3>1 DEF Top, Slept, Step, TypeOK
    <2> QED BY <2>1, SleepFrame
  <1>4. CASE WaitEvent \/ Enqueue \/ Test \/ Clear
    <2>1. flag' = 1 => pc'["thread1"] # "asleep"
      BY <1>4 DEF WaitEvent, Enqueue, Test, Clear, Step, TypeOK
    <2> QED BY <2>1 DEF SleepInv
  <1>5. ASSUME NEW w \in Waiters, Roused(w) PROVE SleepInv'
    <2>1. /\ pc[w] = "asleep" /\ pc'[w] = "test" /\ flag' = flag
          /\ roused' = roused \ {w} /\ \A b \in Actors \ {w} : pc'[b] = pc[b]
      BY <1>5 DEF Roused, Step, TypeOK
    <2> QED BY <2>1, SleepFrame
  <1>6. ASSUME NEW r \in Readers,
               Select(r) \/ PollTest(r) \/ PollClear(r) \/ PollWait(r) \/ Return(r)
        PROVE  SleepInv'
    <2>1. /\ pc[r] # "wake" /\ flag' \in {flag, 0} /\ roused \ {r} \subseteq roused'
          /\ \A b \in Actors \ {r} : pc'[b] = pc[b]
      BY <1>6 DEF Select, PollTest, PollClear, PollWait, Return, Step, TypeOK
    <2> QED BY <2>1, SleepFrame
  <1>7. ASSUME NEW i \in Irqs, Interrupt(i) PROVE SleepInv'
    <2>1. /\ pc[i] = "idle" /\ UNCHANGED <<flag, roused>>
          /\ \A b \in Actors \ {i} : pc'[b] = pc[b]
      BY <1>7 DEF Interrupt, Step, TypeOK
    <2> QED BY <2>1, SleepFrame
  <1>8. CASE Load
    BY <1>8 DEF Load, SleepInv
  <1>9. CASE Create
    <2>1. UNCHANGED <<flag, roused>>
      BY <1>9 DEF Create
    <2>2. CASE pc' = pc
      BY <2>1, <2>2 DEF SleepInv, Told, Waking
    <2>3. CASE Step(Created[at], "ended", "top")
      <3>1. Created[at] \in Threads
        BY StoppedMember
      <3>2. /\ pc[Created[at]] = "ended" /\ pc'[Created[at]] = "top"
            /\ \A b \in Actors \ {Created[at]} : pc'[b] = pc[b]
        BY <2>3, <3>1 DEF Step, TypeOK
      <3> QED BY <2>1, <3>1, <3>2, SleepFrame
    <2> QED BY <1>9, <2>2, <2>3 DEF Create
  <1>10. CASE Unload \/ Stop \/ Join
    BY <1>10 DEF Unload, Stop, Join, SleepInv, Told, Waking
  <1>11. CASE UNCHANGED vars
    BY <1>11 DEF vars, SleepInv, Told, Waking
  <1> QED BY <1>1, <1>2, <1>3, <1>4, <1>5, <1>6, <1>7, <1>8, <1>9, <1>10, <1>11
          DEF Next, ThreadStep, ReaderStep, Handler

LEMMA PosterStep == TypeOK /\ AtInv /\ LifeInv /\ PosterInv /\ [Next]_vars
                    => PosterInv'
  <1> SUFFICES ASSUME TypeOK, AtInv, LifeInv, PosterInv, [Next]_vars,
                      prog' = "sommeil"
               PROVE  PosterInv'
    BY DEF PosterInv
  <1> USE Members, Disjoint
  <1>1. ASSUME UNCHANGED <<prog, loader>>,
               pc'["thread2"] = "ended" => "thread2" \in asked \/ pc["thread2"] = "ended"
        PROVE  PosterInv'
    BY <1>1 DEF loader, PosterInv
  <1>2. ASSUME NEW t \in Threads, ThreadStep(t) PROVE PosterInv'
    <2>1. UNCHANGED <<prog, loader>>
      BY <1>2, ActorsLeave
    <2>2. CASE t = "thread1"
      BY <1>1, <1>2, <2>1, <2>2, OneMoves
    <2>3. CASE t = "thread2"
      <3>1. Body(t) = "post"
        BY <2>1, <2>3 DEF Body
      <3>2. pc'[t] = "ended" => t \in asked
        BY <1>2, <2>3, <3>1
        DEF ThreadStep, Top, Slept, Post, Wake, Step, TypeOK
      <3> QED BY <1>1, <2>1, <2>3, <3>2
    <2> QED BY <2>2, <2>3 DEF Threads
  <1>3. ASSUME NEW r \in Readers, ReaderStep(r) PROVE PosterInv'
    BY <1>1, <1>3, ActorsLeave, OneMoves
  <1>4. ASSUME NEW i \in Irqs, Handler(i) \/ Interrupt(i) PROVE PosterInv'
    BY <1>1, <1>4, ActorsLeave, OneMoves
  <1>5. CASE Load \/ Unload
    BY <1>5 DEF Load, Unload, PosterInv
  <1>6. CASE Create
    <2>1. prog = "sommeil" /\ stage = "loading" /\ "thread2" \notin asked /\ asked' = asked
      BY <1>6 DEF Create, PosterInv
    <2>2. CASE stage' = "oops"
      BY <2>1, <2>2 DEF PosterInv
    <2>3. CASE stage' # "oops"
      <3>1. /\ Step(Created[at], "ended", "top")
            /\ IF at < 2 THEN stage' = "loading" ELSE stage' = "live"
        BY <1>6, <2>1, <2>3 DEF Create, Created
      <3>2. stage' = "live" => pc'["thread2"] = "top"
        BY <2>1, <3>1 DEF Created, Step, TypeOK
      <3>3. stage' \in {"loading", "live"}
        BY <3>1
      <3> QED BY <2>1, <3>2, <3>3 DEF PosterInv
    <2> QED BY <2>2, <2>3
  <1>7. CASE Stop
    <2>1. /\ asked' = asked \cup {Stopped[at]} /\ stage' = "joining"
          /\ UNCHANGED <<prog, pc, at>> /\ stage = "stopping"
      BY <1>7 DEF Stop
    <2>2. at = 1 => Stopped[at] = "thread1"
      BY <2>1 DEF Stopped
    <2> QED BY <2>1, <2>2 DEF PosterInv, TypeOK
  <1>8. CASE Join
    <2>1. /\ UNCHANGED <<prog, pc, asked>> /\ stage = "joining"
          /\ IF at < 2 THEN at' = at + 1 /\ stage' = "stopping" ELSE stage' = "out"
      BY <1>8 DEF Join, Stopped
    <2> QED BY <2>1 DEF PosterInv, TypeOK
  <1>9. CASE UNCHANGED vars
    BY <1>9 DEF vars, loader, PosterInv
  <1> QED BY <1>2, <1>3, <1>4, <1>5, <1>6, <1>7, <1>8, <1>9 DEF Next

LEMMA WakeInvariant == Spec => []WakeInv
  <1>1. WakeInv /\ [Next]_vars => WakeInv'
    BY TypeStep, AtStep, LifeStep, QueueStep, NoticeStep, SleepStep, PosterStep
    DEF WakeInv
  <1> QED BY <1>1, InitInv, PTL DEF Spec

-----------------------------------------------------------------------------
\* Every variable keeps to its values; the flag is 0 or 1.
THEOREM TypeCorrect == Spec => []TypeOK
  BY WakeInvariant, PTL DEF WakeInv

\* What is posted while no waiter stands between its look at the flag and its
\* clearing of it, or has yet to enter the queue, stays posted until somebody
\* looks, and whoever sleeps has been woken up or is going to be; thread1, whenever
\* the flag is set.
THEOREM NoticeKeptAlways == Spec => []NoticeKept
  <1>1. NoticeInv /\ SleepInv => NoticeKept
    BY DEF NoticeInv, SleepInv, NoticeKept, Told
  <1> QED BY <1>1, WakeInvariant, PTL DEF WakeInv

\* Once a module is out its threads have ended and its wait queue is empty; until
\* then the thread that waits has the one that posts beside it: unloading cannot get
\* stuck in a wait nobody ends.
THEOREM ThreadsEndedAlways == Spec => []ThreadsEnded
  <1>2. LifeInv /\ PosterInv =>
          (prog = "sommeil" /\ stage \in {"live", "stopping", "joining"} =>
             (pc["thread1"] # "ended" => pc["thread2"] # "ended"))
    <2> SUFFICES ASSUME LifeInv, PosterInv, prog = "sommeil",
                        stage \in {"live", "stopping", "joining"}, pc["thread1"] # "ended"
                 PROVE  pc["thread2"] # "ended"
      OBVIOUS
    <2>1. ~Idle("thread1")
      BY Disjoint DEF LifeInv
    <2> QED BY <2>1 DEF Idle, PosterInv
  <1>1. TypeOK /\ LifeInv /\ QueueInv /\ PosterInv => ThreadsEnded
    <2> SUFFICES ASSUME TypeOK, LifeInv, QueueInv, PosterInv, stage = "out"
                 PROVE  queue = {} /\ \A t \in Threads : pc[t] = "ended"
      BY <1>2 DEF ThreadsEnded
    <2>1. \A t \in Threads : pc[t] = "ended"
      BY DEF LifeInv, Idle
    <2>2. \A r \in Readers : pc[r] = "idle"
      BY DEF LifeInv
    <2>3. \A w \in Waiters : w \notin queue
      BY <2>1, <2>2, Members, Disjoint DEF QueueInv
    <2> QED BY <2>1, <2>3 DEF TypeOK
  <1> QED BY <1>1, WakeInvariant, PTL DEF WakeInv
=============================================================================
