----------------------------- MODULE CallService -----------------------------
(***************************************************************************)
(* What the daemon and the client program promise together of every run of *)
(* Projet/app_userspace/main.c: a command goes from its client to a queue, *)
(* to the daemon, to an answer and to somebody's screen, and never back;   *)
(* an answer is printed once; and while no two clients run at a time and   *)
(* nothing fails and nobody is too early, by the client that asked.        *)
(***************************************************************************)
EXTENDS Naturals

CONSTANTS Clients, MaxCalls

VARIABLES
    at,        \* per call, the places it is in: {} when it is done with or lost
    mine,      \* per client, its call
    printed,   \* per client, the call whose answer it printed, None before
    calm       \* clients come one at a time, and nothing fails and no one is too early
vars == <<at, mine, printed, calm>>

None == 0

Init ==
    /\ at = [n \in 1..MaxCalls |-> {"unborn"}]
    /\ mine = [c \in Clients |-> None] /\ printed = [c \in Clients |-> None]
    /\ calm = TRUE

Move(n, from, to) == at[n] = from /\ at' = [at EXCEPT ![n] = to]

Ask(c, n) ==
    /\ Move(n, {"unborn"}, {"planned"})
    /\ mine' = [mine EXCEPT ![c] = n] /\ printed' = [printed EXCEPT ![c] = None]

\* Sent, received, answered; a command may want no answer.
Go(n) ==
    /\ \/ Move(n, {"planned"}, {"queued"})
       \/ Move(n, {"queued"}, {"served"}) \/ Move(n, {"queued"}, {})
       \/ Move(n, {"served"}, {"answered"})
    /\ UNCHANGED <<mine, printed>>

Deliver(c, n) ==
    /\ Move(n, {"answered"}, {})
    /\ printed[c] = None /\ printed' = [printed EXCEPT ![c] = n]
    /\ calm' => n = mine[c]
    /\ UNCHANGED mine

\* There is no queue to send it to, or its client is killed; the daemon that
\* serves it is killed or has no queue to answer to.
Lose(n) ==
    /\ \/ Move(n, {"planned"}, {})
       \/ Move(n, {"served"}, {}) /\ ~calm'
    /\ UNCHANGED <<mine, printed>>

Disturb == ~calm' /\ UNCHANGED <<at, mine, printed>>

Next ==
    /\ calm' => calm
    /\ \/ Disturb
       \/ \E n \in 1..MaxCalls :
            \/ Go(n) \/ Lose(n)
            \/ \E c \in Clients : Ask(c, n) \/ Deliver(c, n)

Spec == Init /\ [][Next]_vars
=============================================================================
