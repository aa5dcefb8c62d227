----------------------------- MODULE FanMailbox -----------------------------
(***************************************************************************)
(* How clients (Projet/app_userspace/main.c) and the daemon's main thread  *)
(* (Projet/daemon/daemon.c) talk: two POSIX message queues, one for the    *)
(* commands of all clients and one for the answers to all of them.         *)
(*                                                                         *)
(* A queue has a name and an object.  The daemon creates the missing       *)
(* objects when it starts and unlinks the names when it stops; a process   *)
(* keeps using the object it has opened, and a killed daemon leaves names  *)
(* and contents behind.  An answer carries nothing that says whose it is:  *)
(* the call number here is a ghost.                                        *)
(***************************************************************************)
EXTENDS Integers, Sequences, FiniteSets

CONSTANTS
    Clients,    \* processes that run the client program, again and again
    Kinds,      \* "ask" (an answer follows), "tell" (setmode) and "stop"
    Cap,        \* mq_maxmsg
    MaxCalls,   \* bound: runs of the client program
    MaxStarts   \* bound: starts of the daemon

ASSUME KindsAssumption == Kinds \subseteq {"ask", "tell", "stop"}
ASSUME ClientsAssumption == IsFiniteSet(Clients)
ASSUME CapAssumption == Cap \in Nat \ {0}
ASSUME BoundsAssumption == MaxCalls \in Nat /\ MaxStarts \in Nat

VARIABLES
    income, outcome,    \* the objects each name has had: sequences of queues
    inName, outName,    \* the object a name stands for now, None if unlinked
    dpc,                \* the daemon's next step
    din, dout,          \* the objects the daemon has open
    serving,            \* the command it has received
    starts,
    cpc,                \* per client, its next step
    cin, cout,          \* per client, the objects it has open
    call,               \* per client, its command
    got,                \* per client, the call whose answer it took, or None
    calls,
    upsets              \* ghost: what has happened that calls do not expect

queues == <<income, outcome>>
names  == <<inName, outName>>
daemon == <<dpc, din, dout, serving, starts>>
client == <<cpc, cin, cout, call, got, calls>>
vars == <<queues, names, daemon, client, upsets>>

None == 0
NoCall == [id |-> None, kind |-> "tell"]

Init ==
    /\ income = <<>> /\ outcome = <<>> /\ inName = None /\ outName = None
    /\ dpc = "down" /\ din = None /\ dout = None /\ serving = NoCall
    /\ starts = 0
    /\ cpc = [c \in Clients |-> "idle"] /\ call = [c \in Clients |-> NoCall]
    /\ cin = [c \in Clients |-> None] /\ cout = [c \in Clients |-> None]
    /\ got = [c \in Clients |-> None] /\ calls = 0
    /\ upsets = {}

\* A process that ends takes what it has open along.
Down == dpc' = "down" /\ din' = None /\ dout' = None /\ serving' = NoCall
End(c) ==
    /\ cpc' = [cpc EXCEPT ![c] = "idle"]
    /\ cin' = [cin EXCEPT ![c] = None] /\ cout' = [cout EXCEPT ![c] = None]

Opening(c) == cpc[c] \in {"openIn", "openOut"}

\* The upsets: a client opens its queues while the daemon creates them; one
\* runs beside another; one asks the daemon to stop; a failure: a client or the
\* daemon is killed, or mq_open refuses the daemon, or a client that finds the
\* name.
Upsets == {"early", "crowd", "stop", "failure"}
Upset(condition, what) ==
    upsets' = upsets \cup IF condition THEN {what} ELSE {}

-----------------------------------------------------------------------------
(* The daemon.                                                             *)

Start ==
    /\ dpc = "down" /\ starts < MaxStarts
    /\ Upset(\E c \in Clients : Opening(c), "early")
    /\ starts' = starts + 1
    /\ dpc' = "openIn"
    /\ UNCHANGED <<queues, names, din, dout, serving, client>>

\* mq_open with O_CREAT: an object left behind is used as it is.  A failure is
\* reported ("Exiting"), and the daemon goes on without the queue.
OpenIncome ==
    /\ dpc = "openIn"
    /\ \/ /\ IF inName = None
             THEN income' = Append(income, <<>>) /\ inName' = Len(income) + 1
             ELSE UNCHANGED <<income, inName>>
          /\ din' = inName'
          /\ UNCHANGED upsets
       \/ /\ Upset(TRUE, "failure")
          /\ din' = None
          /\ UNCHANGED <<income, inName>>
    /\ dpc' = "openOut"
    /\ UNCHANGED <<outcome, outName, dout, serving, starts, client>>

OpenOutcome ==
    /\ dpc = "openOut"
    /\ \/ /\ IF outName = None
             THEN outcome' = Append(outcome, <<>>) /\ outName' = Len(outcome) + 1
             ELSE UNCHANGED <<outcome, outName>>
          /\ dout' = outName'
          /\ UNCHANGED upsets
       \/ /\ Upset(TRUE, "failure")
          /\ dout' = None
          /\ UNCHANGED <<outcome, outName>>
    /\ dpc' = "receive"
    /\ UNCHANGED <<income, inName, din, serving, starts, client>>

\* There is a command to receive.  Without a queue mq_receive fails at once and
\* the loop turns for ever: nothing changes any more.
Commanded == din # None /\ income[din] # <<>>

\* Variants of Receive: setmode is answered too; nothing is answered; "stop" is
\* not recognised; the command stays in the queue.
ReceiveAnswersAll ==
    /\ dpc = "receive" /\ Commanded
    /\ serving' = Head(income[din])
    /\ income' = [income EXCEPT ![din] = Tail(@)]
    /\ dpc' = CASE serving'.kind = "ask"  -> "send"
                [] serving'.kind = "tell" -> "send"
                [] serving'.kind = "stop" -> "unlinkIn"
    /\ UNCHANGED <<outcome, names, din, dout, starts, client, upsets>>

ReceiveSilent ==
    /\ dpc = "receive" /\ Commanded
    /\ serving' = Head(income[din])
    /\ income' = [income EXCEPT ![din] = Tail(@)]
    /\ dpc' = CASE serving'.kind = "ask"  -> "receive"
                [] serving'.kind = "tell" -> "receive"
                [] serving'.kind = "stop" -> "unlinkIn"
    /\ UNCHANGED <<outcome, names, din, dout, starts, client, upsets>>

ReceiveDeaf ==
    /\ dpc = "receive" /\ Commanded
    /\ serving' = Head(income[din])
    /\ income' = [income EXCEPT ![din] = Tail(@)]
    /\ dpc' = CASE serving'.kind = "ask"  -> "send"
                [] serving'.kind = "tell" -> "receive"
                [] serving'.kind = "stop" -> "receive"
    /\ UNCHANGED <<outcome, names, din, dout, starts, client, upsets>>

ReceivePeeks ==
    /\ dpc = "receive" /\ Commanded
    /\ serving' = Head(income[din])
    /\ UNCHANGED income
    /\ dpc' = CASE serving'.kind = "ask"  -> "send"
                [] serving'.kind = "tell" -> "receive"
                [] serving'.kind = "stop" -> "unlinkIn"
    /\ UNCHANGED <<outcome, names, din, dout, starts, client, upsets>>

\* mq_receive and the dispatch: a "tell" is done with, an "ask" is answered,
\* "stop" leaves the loop.
Receive ==
    /\ dpc = "receive" /\ Commanded
    /\ serving' = Head(income[din])
    /\ income' = [income EXCEPT ![din] = Tail(@)]
    /\ dpc' = CASE serving'.kind = "ask"  -> "send"
                [] serving'.kind = "tell" -> "receive"
                [] serving'.kind = "stop" -> "unlinkIn"
    /\ UNCHANGED <<outcome, names, din, dout, starts, client, upsets>>

\* mq_send blocks while the queue of answers is full, and fails at once without
\* one: the command has been served, its answer is lost.
Answer ==
    /\ dpc = "send"
    /\ IF dout = None
       THEN UNCHANGED outcome
       ELSE /\ Len(outcome[dout]) < Cap
            /\ outcome' = [outcome EXCEPT ![dout] = Append(@, serving.id)]
    /\ dpc' = "receive"
    /\ UNCHANGED <<income, names, din, dout, serving, starts, client, upsets>>

UnlinkIncome ==
    /\ dpc = "unlinkIn"
    /\ inName' = None
    /\ dpc' = "unlinkOut"
    /\ UNCHANGED <<queues, outName, din, dout, serving, starts, client, upsets>>

UnlinkOutcome ==
    /\ dpc = "unlinkOut"
    /\ outName' = None
    /\ Down
    /\ UNCHANGED <<queues, inName, starts, client, upsets>>

Kill ==
    /\ dpc # "down" /\ Upset(TRUE, "failure")
    /\ Down
    /\ UNCHANGED <<queues, names, starts, client>>

-----------------------------------------------------------------------------
(* A client.                                                               *)

Call(c, kind) ==
    /\ cpc[c] = "idle" /\ calls < MaxCalls
    /\ upsets' = upsets
         \cup (IF dpc \in {"openIn", "openOut"} THEN {"early"} ELSE {})
         \cup (IF \E d \in Clients : cpc[d] # "idle" THEN {"crowd"} ELSE {})
         \cup (IF kind = "stop" THEN {"stop"} ELSE {})
    /\ calls' = calls + 1
    /\ call' = [call EXCEPT ![c] = [id |-> calls', kind |-> kind]]
    /\ got' = [got EXCEPT ![c] = None]
    /\ cpc' = [cpc EXCEPT ![c] = "openIn"]
    /\ UNCHANGED <<queues, names, daemon, cin, cout>>

\* A failed mq_open is reported, and the client goes on without the queue: there
\* is no such name, or the queue of that name is refused.
OpenSend(c) ==
    /\ cpc[c] = "openIn"
    /\ \/ cin' = [cin EXCEPT ![c] = inName] /\ UNCHANGED upsets
       \/ /\ inName # None /\ Upset(TRUE, "failure")
          /\ cin' = [cin EXCEPT ![c] = None]
    /\ cpc' = [cpc EXCEPT ![c] = "openOut"]
    /\ UNCHANGED <<queues, names, daemon, cout, call, got, calls>>

OpenRecv(c) ==
    /\ cpc[c] = "openOut"
    /\ \/ cout' = [cout EXCEPT ![c] = outName] /\ UNCHANGED upsets
       \/ /\ outName # None /\ Upset(TRUE, "failure")
          /\ cout' = [cout EXCEPT ![c] = None]
    /\ cpc' = [cpc EXCEPT ![c] = "send"]
    /\ UNCHANGED <<queues, names, daemon, cin, call, got, calls>>

\* Variant of Send: the queue is not bounded.
SendUnbounded(c) ==
    /\ cpc[c] = "send"
    /\ income' = IF cin[c] = None THEN income
                 ELSE [income EXCEPT ![cin[c]] = Append(@, call[c])]
    /\ IF call[c].kind = "ask"
       THEN cpc' = [cpc EXCEPT ![c] = "wait"] /\ UNCHANGED <<cin, cout>>
       ELSE End(c)
    /\ UNCHANGED <<outcome, names, daemon, call, got, calls, upsets>>

\* mq_send blocks while the queue is full and fails at once without a queue;
\* its result is not looked at.
Send(c) ==
    /\ cpc[c] = "send"
    /\ IF cin[c] = None
       THEN UNCHANGED income
       ELSE /\ Len(income[cin[c]]) < Cap
            /\ income' = [income EXCEPT ![cin[c]] = Append(@, call[c])]
    /\ IF call[c].kind = "ask"
       THEN cpc' = [cpc EXCEPT ![c] = "wait"] /\ UNCHANGED <<cin, cout>>
       ELSE End(c)
    /\ UNCHANGED <<outcome, names, daemon, call, got, calls, upsets>>

\* mq_receive takes the oldest answer, whoever asked.
Take(c) ==
    /\ cpc[c] = "wait" /\ cout[c] # None
    /\ outcome[cout[c]] # <<>>
    /\ got' = [got EXCEPT ![c] = Head(outcome[cout[c]])]
    /\ outcome' = [outcome EXCEPT ![cout[c]] = Tail(@)]
    /\ End(c)
    /\ UNCHANGED <<income, names, daemon, call, calls, upsets>>

\* Without a queue of answers mq_receive fails and the client ends.
GiveUp(c) ==
    /\ cpc[c] = "wait" /\ cout[c] = None
    /\ End(c)
    /\ UNCHANGED <<queues, names, daemon, call, got, calls, upsets>>

Interrupt(c) ==
    /\ cpc[c] # "idle" /\ Upset(TRUE, "failure")
    /\ End(c)
    /\ UNCHANGED <<queues, names, daemon, call, got, calls>>

-----------------------------------------------------------------------------
DaemonStep == \/ OpenIncome \/ OpenOutcome \/ Receive \/ Answer
              \/ UnlinkIncome \/ UnlinkOutcome

ClientStep(c) == OpenSend(c) \/ OpenRecv(c) \/ Send(c) \/ Take(c) \/ GiveUp(c)

Next == \/ DaemonStep \/ Start \/ Kill
        \/ \E c \in Clients : \/ ClientStep(c) \/ Interrupt(c)
                              \/ \E kind \in Kinds : Call(c, kind)

\* A running process goes on unless a queue blocks it; nobody has to start
\* the daemon or run the client program.
Spec == /\ Init /\ [][Next]_vars
        /\ WF_vars(DaemonStep) /\ \A c \in Clients : WF_vars(ClientStep(c))

-----------------------------------------------------------------------------
DaemonSteps == {"down", "openIn", "openOut", "receive", "send", "unlinkIn",
                "unlinkOut"}
ClientSteps == {"idle", "openIn", "openOut", "send", "wait"}
CallType == [id : 1..MaxCalls, kind : {"ask", "tell", "stop"}]

\* Every variable keeps to its values; no queue holds more than mq_maxmsg.
TypeOK ==
    /\ income \in Seq(Seq(CallType)) /\ outcome \in Seq(Seq(1..MaxCalls))
    /\ \A q \in 1..Len(income) : Len(income[q]) <= Cap
    /\ \A q \in 1..Len(outcome) : Len(outcome[q]) <= Cap
    /\ inName \in 0..Len(income) /\ outName \in 0..Len(outcome)
    /\ dpc \in DaemonSteps
    /\ din \in 0..Len(income) /\ dout \in 0..Len(outcome)
    /\ serving \in CallType \cup {NoCall} /\ starts \in 0..MaxStarts
    /\ cpc \in [Clients -> ClientSteps]
    /\ cin \in [Clients -> 0..Len(income)]
    /\ cout \in [Clients -> 0..Len(outcome)]
    /\ call \in [Clients -> CallType \cup {NoCall}] /\ got \in [Clients -> 0..MaxCalls]
    /\ calls \in 0..MaxCalls /\ upsets \subseteq Upsets

\* The answer a client prints is the answer to the command it sent, as long as
\* clients run one at a time, none opens its queues while the daemon creates
\* them, nobody is killed and mq_open refuses nobody; the daemon may stop and
\* start again in between.
AnswersMatch ==
    upsets \subseteq {"stop"} =>
        \A c \in Clients : got[c] # None => got[c] = call[c].id

\* However clients and the daemon start, a client that runs alone without a
\* failure prints the answer to its own command ("CPU temp is at").
AnswersMatchAlone ==
    upsets \subseteq {"stop", "early"} =>
        \A c \in Clients : got[c] # None => got[c] = call[c].id

\* The answers the daemon owes or has given, by the call they answer, and the
\* clients that wait for one.
AskedOf(q) == {n \in 1..MaxCalls : \E i \in 1..Len(income[q]) :
                 income[q][i].kind = "ask" /\ income[q][i].id = n}
ServedNow == {n \in 1..MaxCalls : dpc = "send" /\ serving.id = n}
AnswersIn(q) == {n \in 1..MaxCalls : \E i \in 1..Len(outcome[q]) : outcome[q][i] = n}
Owed == AskedOf(din) \cup ServedNow \cup AnswersIn(dout)
Waiting == {c \in Clients : cpc[c] = "wait" /\ cout[c] = dout}

\* While the daemon serves, without failures and clients that come too early, it
\* owes or has given as many answers as clients wait for one: nobody waits in vain, and
\* no answer is left for somebody else.
NobodyInVain ==
    upsets \subseteq {"stop", "crowd"} /\ dpc \in {"receive", "send"} =>
        Cardinality(Owed) = Cardinality(Waiting)

\* As long as there are no more clients than mq_maxmsg, without failures and
\* clients that come too early, the daemon is never blocked by the queue of answers.
NeverBlocked ==
    upsets \subseteq {"stop", "crowd"} /\ Cardinality(Clients) <= Cap =>
        (dpc = "send" => Len(outcome[dout]) < Cap)

\* Both: an answer for everybody that waits, and room for it.
AnswersOwed == NobodyInVain /\ NeverBlocked

\* Where call n is.
In(n, place) ==
    CASE place = "unborn"   -> n > calls
      [] place = "planned"  -> \E c \in Clients :
                                 cpc[c] \in {"openIn", "openOut", "send"} /\ call[c].id = n
      [] place = "queued"   -> \E q \in 1..Len(income) :
                                 \E i \in 1..Len(income[q]) : income[q][i].id = n
      [] place = "served"   -> dpc = "send" /\ serving.id = n
      [] place = "answered" -> \E q \in 1..Len(outcome) :
                                 \E i \in 1..Len(outcome[q]) : outcome[q][i] = n

CallPlaces == {"unborn", "planned", "queued", "served", "answered"}
Whereabouts == [n \in 1..MaxCalls |-> {place \in CallPlaces : In(n, place)}]
Calm == upsets \subseteq {"stop"}

Service == INSTANCE CallService WITH
    at <- Whereabouts, mine <- [c \in Clients |-> call[c].id], printed <- got,
    calm <- Calm

\* Every call is in one place at a time and goes through them in order: a killed
\* and restarted daemon serves no command twice, no answer is printed twice, and
\* in calm times a client prints the answer to its own call.
CallsServed == Service!Spec

\* Every call is in one place at most: queued, being served, or answered; a
\* killed and restarted daemon serves no command twice.
Places ==
    (UNION {{<<"in", q, i>> : i \in 1..Len(income[q])} : q \in 1..Len(income)})
    \cup (UNION {{<<"out", q, i>> : i \in 1..Len(outcome[q])} : q \in 1..Len(outcome)})
IdAt(p) == IF p[1] = "in" THEN income[p[2]][p[3]].id ELSE outcome[p[2]][p[3]]
ServedOnce ==
    /\ \A p, r \in Places : IdAt(p) = IdAt(r) => p = r
    /\ dpc = "send" => \A p \in Places : IdAt(p) # serving.id

\* A client that waits gets an answer, however many run at once, unless
\* there is a failure, or somebody comes too early or stops the daemon.
CallsReturn ==
    \A c \in Clients :
        cpc[c] = "wait" ~> cpc[c] = "idle" \/ ~(upsets \subseteq {"crowd"})

\* A stop command in the daemon's queue ends it, behind any other commands,
\* unless there is a failure or somebody comes too early.
StopServed ==
    (\E i \in DOMAIN income : i = din /\ dpc \in {"receive", "send"}
        /\ \E n \in DOMAIN income[i] : income[i][n].kind = "stop")
      ~> dpc = "down" \/ ~(upsets \subseteq {"stop", "crowd"})
=============================================================================
