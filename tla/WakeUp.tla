------------------------------- MODULE WakeUp -------------------------------
(***************************************************************************)
(* A flag and a wait queue between one who posts and one who waits, as     *)
(* three exercises have them:                                              *)
(*  - "sommeil", modules_Ex/module_sommeil_5: a kernel thread posts every  *)
(*    five seconds, another waits with wait_event_interruptible;           *)
(*  - "threads", modules_Ex/module_threads_4: one kernel thread, which     *)
(*    only sleeps and is stopped when the module is unloaded;              *)
(*  - "button", Pilote_ex2/ex7_Op_Bloq: an interrupt handler posts, and    *)
(*    programs (environment/Ex7_Op_Bloq) wait with select, which calls     *)
(*    skeleton_poll.  Its loading is in the module Drivers.                *)
(*                                                                         *)
(* The kernel's part is that of its wait queues: wake_up rouses whoever is *)
(* in the queue at that moment, and one that has been roused since it last *)
(* slept does not sleep.                                                   *)
(***************************************************************************)
EXTENDS Naturals, Sequences

CONSTANTS Readers,   \* programs that wait for a button
          Irqs       \* interrupt lines of the buttons

Threads == {"thread1", "thread2"}
ASSUME ActorsAssumption == /\ Readers \cap (Irqs \cup Threads) = {}
                           /\ Irqs \cap Threads = {}

Actors  == Readers \cup Irqs \cup Threads
Waiters == Readers \cup {"thread1"}
Posters == Irqs \cup {"thread2"}

VARIABLES
    prog,      \* the exercise
    flag,      \* flag, buttonPressed
    queue,     \* who is in the wait queue
    roused,    \* who has been woken up since it last slept
    pc,        \* per actor, its next step
    mask,      \* per reader, what skeleton_poll is going to return
    stage, at, \* of loading and unloading, and the thread it has come to
    asked,     \* the threads kthread_should_stop tells to stop
    notice     \* ghost: what has become of the last post

vars == <<prog, flag, queue, roused, pc, mask, stage, at, asked, notice>>
loader == <<stage, at, asked>>

Init ==
    /\ prog \in {"sommeil", "threads", "button"}
    /\ flag = 0 /\ queue = {} /\ roused = {}
    /\ pc = [a \in Actors |-> IF a \in Threads THEN "ended" ELSE "idle"]
    /\ mask = [r \in Readers |-> FALSE]
    /\ stage = IF prog = "button" THEN "live" ELSE "out"
    /\ at = 1 /\ asked = {} /\ notice = "seen"

Step(a, from, to) == pc[a] = from /\ pc' = [pc EXCEPT ![a] = to]

\* A waiter between its last look at the flag and the clearing of it, or not
\* yet in the queue though it has looked: what is posted meanwhile it may miss.
Outside(w) == pc[w] = "poll_wait" /\ w \notin queue
Blind(w) == pc[w] = "clear" \/ Outside(w)

Seen == notice' = IF flag = 1 THEN "seen" ELSE notice

-----------------------------------------------------------------------------
(* Posting.                                                                *)

\* Variant of Post: every post counts.
PostCounted(p) ==
    /\ Step(p, "post", "wake")
    /\ flag' = flag + 1
    /\ notice' = IF \E w \in Waiters : Blind(w) THEN "missed" ELSE "posted"
    /\ UNCHANGED <<prog, queue, roused, mask, loader>>

Post(p) ==
    /\ Step(p, "post", "wake")
    /\ flag' = 1
    /\ notice' = IF \E w \in Waiters : Blind(w) THEN "missed" ELSE "posted"
    /\ UNCHANGED <<prog, queue, roused, mask, loader>>

\* Variant of Wake: nobody is woken up.
WakeNobody(p) ==
    /\ Step(p, "wake", IF p \in Threads THEN "sleep" ELSE "idle")
    /\ UNCHANGED <<prog, flag, queue, roused, mask, loader, notice>>

\* wake_up
Wake(p) ==
    /\ Step(p, "wake", IF p \in Threads THEN "sleep" ELSE "idle")
    /\ roused' = roused \cup queue
    /\ UNCHANGED <<prog, flag, queue, mask, loader, notice>>

\* A button is pressed: short_interrupt begins.
Interrupt(i) ==
    /\ prog = "button" /\ Step(i, "idle", "post")
    /\ UNCHANGED <<prog, flag, queue, roused, mask, loader, notice>>

-----------------------------------------------------------------------------
(* Kernel threads.                                                         *)

\* while (!kthread_should_stop ())
Body(t) == CASE prog = "threads" -> "sleep"
             [] t = "thread1"    -> "wait"
             [] t = "thread2"    -> "post"
Top(t) ==
    /\ Step(t, "top", IF t \in asked THEN "ended" ELSE Body(t))
    /\ UNCHANGED <<prog, flag, queue, roused, mask, loader, notice>>

\* ssleep (5) is not cut short by a wake-up.
Slept(t) ==
    /\ Step(t, "sleep", "top")
    /\ UNCHANGED <<prog, flag, queue, roused, mask, loader, notice>>

\* wait_event_interruptible looks before it enters the queue ...
WaitEvent ==
    /\ Step("thread1", "wait", IF flag = 1 THEN "clear" ELSE "enqueue")
    /\ Seen
    /\ UNCHANGED <<prog, flag, queue, roused, mask, loader>>

\* Variant of Enqueue: the thread sleeps without looking again.
EnqueueAsleep ==
    /\ Step("thread1", "enqueue", "asleep")
    /\ queue' = queue \cup {"thread1"}
    /\ UNCHANGED <<prog, flag, roused, mask, loader, notice>>

\* ... and after it has entered it.
Enqueue ==
    /\ Step("thread1", "enqueue", "test")
    /\ queue' = queue \cup {"thread1"}
    /\ UNCHANGED <<prog, flag, roused, mask, loader, notice>>

Test ==
    /\ Step("thread1", "test", IF flag = 1 THEN "clear" ELSE "asleep")
    /\ queue' = IF flag = 1 THEN queue \ {"thread1"} ELSE queue
    /\ Seen
    /\ UNCHANGED <<prog, flag, roused, mask, loader>>

Roused(w) ==
    /\ w \in roused /\ Step(w, "asleep", "test")
    /\ roused' = roused \ {w}
    /\ UNCHANGED <<prog, flag, queue, mask, loader, notice>>

Clear ==
    /\ Step("thread1", "clear", "top")
    /\ flag' = 0
    /\ UNCHANGED <<prog, queue, roused, mask, loader, notice>>

-----------------------------------------------------------------------------
(* A reader: select calls skeleton_poll until it returns a mask.           *)

Select(r) ==
    /\ prog = "button" /\ Step(r, "idle", "test")
    /\ UNCHANGED <<prog, flag, queue, roused, mask, loader, notice>>

PollTest(r) ==
    /\ Step(r, "test", "clear")
    /\ mask' = [mask EXCEPT ![r] = flag = 1]
    /\ Seen
    /\ UNCHANGED <<prog, flag, queue, roused, loader>>

PollClear(r) ==
    /\ Step(r, "clear", "poll_wait")
    /\ flag' = 0
    /\ UNCHANGED <<prog, queue, roused, mask, loader, notice>>

\* poll_wait enters the queue in the first call of a select.
PollWait(r) ==
    /\ Step(r, "poll_wait", IF mask[r] THEN "return" ELSE "asleep")
    /\ queue' = queue \cup {r}
    /\ UNCHANGED <<prog, flag, roused, mask, loader, notice>>

\* select leaves the queue; the program counts the event.
Return(r) ==
    /\ Step(r, "return", "idle")
    /\ queue' = queue \ {r} /\ roused' = roused \ {r}
    /\ mask' = [mask EXCEPT ![r] = FALSE]
    /\ UNCHANGED <<prog, flag, loader, notice>>

-----------------------------------------------------------------------------
(* Loading and unloading.                                                  *)

Created == IF prog = "sommeil" THEN <<"thread1", "thread2">> ELSE <<"thread1">>

\* Variants of Stopped: the last created is stopped first; the thread that
\* posts is forgotten.
StoppedReversed ==
    IF prog = "sommeil" THEN <<"thread2", "thread1">> ELSE <<"thread1">>

StoppedOne == <<"thread1">>

\* skeleton_exit of module_sommeil_5 stops the waiting thread first.
Stopped == IF prog = "sommeil" THEN <<"thread1", "thread2">> ELSE <<"thread1">>

Load ==
    /\ stage = "out" /\ prog # "button"
    /\ stage' = "loading" /\ at' = 1 /\ asked' = {}
    /\ flag' = 0 /\ queue' = {} /\ roused' = {} /\ notice' = "seen"
    /\ UNCHANGED <<prog, pc, mask>>

\* kthread_create and wake_up_process.  A failure is a pointer that is not
\* null: waking that up is an oops.
Create ==
    /\ stage = "loading"
    /\ \/ /\ Step(Created[at], "ended", "top")
          /\ IF at < Len(Created) THEN at' = at + 1 /\ UNCHANGED stage
                                  ELSE at' = 1 /\ stage' = "live"
       \/ stage' = "oops" /\ UNCHANGED <<pc, at>>
    /\ UNCHANGED <<prog, flag, queue, roused, mask, asked, notice>>

Unload ==
    /\ stage = "live" /\ prog # "button"
    /\ stage' = "stopping" /\ at' = 1
    /\ UNCHANGED <<prog, flag, queue, roused, pc, mask, asked, notice>>

\* kthread_stop tells the thread, wakes it up, and waits for its end.
Stop ==
    /\ stage = "stopping" /\ stage' = "joining"
    /\ asked' = asked \cup {Stopped[at]}
    /\ roused' = roused \cup {Stopped[at]}
    /\ UNCHANGED <<prog, flag, queue, pc, mask, at, notice>>

Join ==
    /\ stage = "joining" /\ pc[Stopped[at]] = "ended"
    /\ IF at < Len(Stopped) THEN at' = at + 1 /\ stage' = "stopping"
                            ELSE at' = 1 /\ stage' = "out"
    /\ UNCHANGED <<prog, flag, queue, roused, pc, mask, asked, notice>>

-----------------------------------------------------------------------------
ThreadStep(t) ==
    \/ Top(t) \/ Slept(t)
    \/ t = "thread2" /\ (Post(t) \/ Wake(t))
    \/ t = "thread1" /\ (WaitEvent \/ Enqueue \/ Test \/ Roused(t) \/ Clear)

ReaderStep(r) == \/ Select(r) \/ PollTest(r) \/ PollClear(r) \/ PollWait(r)
                 \/ Roused(r) \/ Return(r)

Handler(i) == Post(i) \/ Wake(i)

Next == \/ \E t \in Threads : ThreadStep(t)
        \/ \E r \in Readers : ReaderStep(r)
        \/ \E i \in Irqs : Handler(i) \/ Interrupt(i)
        \/ Load \/ Create \/ Unload \/ Stop \/ Join

\* Threads, programs and handlers that have begun go on; rmmod does too.
\* Nobody has to press a button, load or unload.
Spec == /\ Init /\ [][Next]_vars
        /\ \A t \in Threads : WF_vars(ThreadStep(t))
        /\ \A r \in Readers : WF_vars(ReaderStep(r))
        /\ \A i \in Irqs : WF_vars(Handler(i))
        /\ WF_vars(Stop \/ Join)

-----------------------------------------------------------------------------
Steps == {"idle", "ended", "top", "post", "wake", "sleep", "wait", "enqueue",
          "test", "asleep", "clear", "poll_wait", "return"}

\* Every variable keeps to its values.
TypeOK ==
    /\ prog \in {"sommeil", "threads", "button"}
    /\ flag \in 0..1 /\ queue \subseteq Waiters
    /\ roused \subseteq Waiters \cup Threads
    /\ pc \in [Actors -> Steps] /\ mask \in [Readers -> BOOLEAN]
    /\ stage \in {"out", "loading", "oops", "live", "stopping", "joining"}
    /\ at \in 1..2 /\ asked \subseteq Threads
    /\ notice \in {"posted", "seen", "missed"}

\* The waiter has been woken up or is going to be.
Waking == \E p \in Posters : pc[p] = "wake"
Told(w) == w \in roused \/ Waking

\* What was posted while no waiter was blind is kept until one looks, and
\* whoever sleeps meanwhile is going to be woken up.  thread1, which looks once
\* more when it is in the queue, never sleeps over a flag that is set, whatever
\* was posted when.
NoticeKept ==
    /\ notice = "posted" =>
          flag = 1 /\ \A w \in Waiters : pc[w] = "asleep" => Told(w)
    /\ flag = 1 /\ pc["thread1"] = "asleep" => Told("thread1")

\* Such a post is seen by a waiter, or falls into a blind moment when it is
\* posted again; unless the module is unloaded.
Noticed == notice = "posted" ~> notice # "posted" \/ stage # "live"

\* Unloading ends, although thread1 may be asleep when it is told to stop and
\* leaves its wait for the flag only.
UnloadEnds == stage = "stopping" ~> stage = "out"

\* Once a module is out no thread runs its code, and none is left in the wait
\* queue, which was in its memory.  The thread that waits is never left without
\* the one that posts, which alone could end its wait.
ThreadsEnded ==
    /\ stage = "out" => queue = {} /\ \A t \in Threads : pc[t] = "ended"
    /\ /\ prog = "sommeil" /\ stage \in {"live", "stopping", "joining"}
       /\ pc["thread1"] # "ended"
       => pc["thread2"] # "ended"
=============================================================================
