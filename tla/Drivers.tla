------------------------------- MODULE Drivers -------------------------------
(***************************************************************************)
(* The exercises of Pilote_ex2, and modules_Ex/module_interrupt_6, as they *)
(* are loaded, used and unloaded.  `prog' is the one at hand:              *)
(*   "ex2"   ex2_fops_base, one device over a static buffer;               *)
(*   "bus"   ex5_sysfs/skeleton_bus_platform.c, ex2 and a platform driver; *)
(*   "ex5"   ex5_sysfs/skeleton.c, bus and a class with attributes;        *)
(*   "ex3"   ex3_fops_base_2, several devices over one allocated array;    *)
(*   "bare"  ex3 with NB_Devices = 0, which nothing refuses;               *)
(*   "one"   ex6_dtb/skeleton_1.c, ex3 with the devices of a device tree;  *)
(*   "ex6"   ex6_dtb/skeleton.c, a buffer for each device;                 *)
(*   "ex7"   ex7_Op_Bloq, a device, three GPIOs and their interrupts;      *)
(*   "irq6"  module_interrupt_6, the GPIOs and interrupts alone.           *)
(* Loading acquires resources in the order of a script and may fail at any *)
(* of them; processes open a device as soon as it is registered, and read  *)
(* and write it with no lock between them.                                 *)
(***************************************************************************)
EXTENDS Naturals, Sequences, FiniteSets

CONSTANTS
    Programs,     \* the exercises looked at
    NbDevices,    \* the parameter NB_Devices of ex3, when there are any
    Children,     \* the attribute of each child in the device tree
    Users,        \* processes
    Messages,     \* what they write
    Length,       \* per message, its length
    Asks,         \* how many bytes a read asks for
    BufferSize    \* BUFFER_SIZE

AllPrograms == {"ex2", "bus", "ex5", "ex3", "bare", "one", "ex6", "ex7", "irq6"}
ASSUME ProgramsAssumption == Programs \subseteq AllPrograms
ASSUME SizesAssumption ==
    /\ NbDevices \in Nat \ {0} /\ BufferSize \in Nat \ {0}
    /\ Asks \subseteq Nat /\ Length \in [Messages -> Nat]
    /\ Children \in Seq({"on", "off"}) /\ "none" \notin Messages
    \* an index of the second device is outside of the array of sizes
    /\ NbDevices <= BufferSize /\ Len(Children) <= BufferSize

VARIABLES
    prog, stage,   \* the exercise, and where its module stands
    at,            \* the next step of its script
    todo,          \* resources still to be given back
    held,          \* resources it has
    failed,        \* a step of the script has failed
    excess,        \* something has been given back that was not held
    fault,         \* a bad memory access; nothing is said of what follows
    text, size,    \* per buffer, its message and buffer_size
    mix,           \* ghost, per buffer: whether writers have overlapped
    upc, dev, pos, \* per user: its step, its device, *ppos
    stale,         \* per user: offset_minor was unknown when idx was computed
    ask, msg,      \* per user: count of its read, message of its write
    got,           \* per user: what copy_to_user has given it
    raced, again   \* ghosts, per user: a writer was at work during its read;
                   \* it has read to the end and nobody has written since

module == <<prog, stage, at, todo, held, failed, excess>>
buffers == <<text, size, mix>>
users == <<upc, dev, pos, stale, ask, msg, got, raced, again>>
vars == <<module, fault, buffers, users>>

-----------------------------------------------------------------------------
(* Scripts.                                                                *)

R(name) == <<name, 0>>
Misc(d) == <<"misc", d>>
MiscUpTo(n) == [d \in 1..n |-> Misc(d)]
Keys3(name) == [key \in 1..3 |-> <<name, key>>]

\* A step whose failure is tested, and what is given back then; one whose
\* failure is logged; one that is not tested; one that cannot fail; one that
\* cannot succeed.
Try(r, undo) == [does |-> r, undo |-> undo, kind |-> "tested"]
Log(r)       == [does |-> r, undo |-> <<>>, kind |-> "logged"]
Trust(r)     == [does |-> r, undo |-> <<>>, kind |-> "untested"]
Set(r)       == [does |-> r, undo |-> <<>>, kind |-> "sure"]
Crash(r)     == [does |-> r, undo |-> <<>>, kind |-> "fatal"]
TryAll(rs, undo) == [i \in DOMAIN rs |-> Try(rs[i], undo)]

Ex2Init == <<Try(Misc(1), <<>>)>>
Ex2Exit == <<Misc(1)>>

BusInit == <<Try(Misc(1), <<>>), Try(R("platform"), <<Misc(1)>>),
             Try(R("file"), <<R("platform"), Misc(1)>>)>>
BusExit == <<R("file"), R("platform"), Misc(1)>>

\* Variant of Ex5Init: the last step forgets the file of the driver.
Ex5InitForgets ==
    <<Try(Misc(1), <<>>), Try(R("platform"), <<Misc(1)>>),
      Try(R("file"), <<R("platform"), Misc(1)>>),
      Trust(R("class")), Trust(R("device")),
      Try(R("group"), <<R("device"), R("class"), R("platform"), Misc(1)>>)>>

Ex5Init ==
    <<Try(Misc(1), <<>>), Try(R("platform"), <<Misc(1)>>),
      Try(R("file"), <<R("platform"), Misc(1)>>),
      Trust(R("class")), Trust(R("device")),
      Try(R("group"), <<R("device"), R("class"), R("file"), R("platform"),
                        Misc(1)>>)>>

\* Variant of Ex5Exit: in the order of creation.
Ex5ExitInOrder == <<Misc(1), R("platform"), R("file"), R("class"),
                    R("device"), R("group")>>
Ex5Exit == <<R("group"), R("device"), R("class"), R("file"), R("platform"),
             Misc(1)>>

\* offset_minor and the buffers come after the devices are registered, and
\* every failure returns at once.  With no device there is no mymisc[0] to take
\* offset_minor from; fewer than none fail at the first allocation.
LateInit(n) == <<Try(R("devices"), <<>>)>> \o TryAll(MiscUpTo(n), <<>>)
               \o <<IF n = 0 THEN Crash(R("offset")) ELSE Set(R("offset")),
                    Try(R("buffer"), <<>>), Try(R("sizes"), <<>>)>>
LateExit(n) == MiscUpTo(n) \o <<R("devices"), R("buffer"), R("sizes")>>

Ex3Init == LateInit(NbDevices)
Ex3Exit == LateExit(NbDevices)

BareInit == LateInit(0)
BareExit == LateExit(0)

CountDeviceOn == Cardinality({c \in DOMAIN Children : Children[c] = "on"})

OneInit == LateInit(CountDeviceOn)
OneExit == LateExit(CountDeviceOn)

\* Memory of devm_kzalloc is given back when probe fails and after remove;
\* devices that are registered by then stay so.
Ex6Init == <<Try(R("data"), <<>>), Try(R("devices"), <<R("data")>>)>>
           \o TryAll(MiscUpTo(CountDeviceOn), <<R("devices"), R("data")>>)
Ex6Exit == MiscUpTo(CountDeviceOn) \o <<R("devices"), R("data")>>

\* gpio_request and gpio_to_irq of each key, then the three interrupts.  irq0,
\* irq1 and irq2 are unsigned: "< 0" never sees that there is no number, and
\* loading goes on to a request_irq that refuses it.
KeysInit == [i \in 1..6 |-> IF i % 2 = 1 THEN Try(<<"gpio", (i + 1) \div 2>>, <<>>)
                                        ELSE Log(<<"number", i \div 2>>)]
            \o [key \in 1..3 |-> Log(<<"irq", key>>)]

Irq6Init == KeysInit
Irq6Exit == Keys3("gpio") \o Keys3("irq")

Ex7Init == <<Try(Misc(1), <<>>)>> \o KeysInit
Ex7Exit == Keys3("gpio") \o Keys3("irq") \o <<Misc(1)>>

Script == CASE prog = "ex2" -> Ex2Init [] prog = "bus" -> BusInit
            [] prog = "ex5" -> Ex5Init [] prog = "ex3" -> Ex3Init
            [] prog = "bare" -> BareInit
            [] prog = "one" -> OneInit [] prog = "ex6" -> Ex6Init
            [] prog = "ex7" -> Ex7Init [] prog = "irq6" -> Irq6Init
ExitScript == CASE prog = "ex2" -> Ex2Exit [] prog = "bus" -> BusExit
                [] prog = "ex5" -> Ex5Exit [] prog = "ex3" -> Ex3Exit
                [] prog = "bare" -> BareExit
                [] prog = "one" -> OneExit [] prog = "ex6" -> Ex6Exit
                [] prog = "ex7" -> Ex7Exit [] prog = "irq6" -> Irq6Exit

\* What read and write of each exercise work on: a static buffer; the shared
\* array, at an index in bytes; the device's own buffer; nothing.
Ex2Io == "static"
BusIo == "static"
Ex5Io == "static"
Ex3Io == "shared"
OneIo == "shared"
Ex6Io == "own"
Ex7Io == "nothing"
Io == CASE prog = "ex2" -> Ex2Io [] prog = "bus" -> BusIo
        [] prog = "ex5" -> Ex5Io [] prog \in {"ex3", "bare"} -> Ex3Io
        [] prog = "one" -> OneIo [] prog = "ex6" -> Ex6Io
        [] OTHER -> Ex7Io

\* A failing probe leaves the module loaded.
Platform == prog \in {"one", "ex6"}

-----------------------------------------------------------------------------
Cells == 1..(NbDevices + CountDeviceOn)
NoText == "none"
NoGot == [text |-> NoText, bytes |-> 0]
TextLength(t) == IF t = NoText THEN 0 ELSE Length[t]

Init ==
    /\ prog \in Programs /\ stage = "new" /\ at = 1 /\ todo = <<>>
    /\ held = {} /\ failed = FALSE /\ excess = FALSE /\ fault = "none"
    /\ text = [c \in Cells |-> NoText] /\ size = [c \in Cells |-> 0]
    /\ mix = [c \in Cells |-> "clean"]
    /\ upc = [u \in Users |-> "closed"] /\ dev = [u \in Users |-> 1]
    /\ pos = [u \in Users |-> 0] /\ ask = [u \in Users |-> 0]
    /\ stale = [u \in Users |-> FALSE]
    /\ msg = [u \in Users |-> NoText] /\ got = [u \in Users |-> NoGot]
    /\ raced = [u \in Users |-> FALSE] /\ again = [u \in Users |-> FALSE]

-----------------------------------------------------------------------------
(* The module.                                                             *)

Load == /\ stage = "new" /\ stage' = "loading"
        /\ UNCHANGED <<prog, at, todo, held, failed, excess, fault, buffers, users>>

\* request_irq needs the number of the interrupt; some steps never succeed.
Granted(step) == /\ step.kind # "fatal"
                 /\ step.does[1] = "irq" => <<"number", step.does[2]>> \in held

Acquire ==
    /\ stage = "loading" /\ at <= Len(Script) /\ Granted(Script[at])
    /\ held' = held \cup {Script[at].does} /\ at' = at + 1
    /\ UNCHANGED <<prog, stage, todo, failed, excess, fault, buffers, users>>

AcquireFails ==
    /\ stage = "loading" /\ at <= Len(Script) /\ failed' = TRUE
    /\ \/ /\ Script[at].kind = "tested"
          /\ stage' = "undoing" /\ todo' = Script[at].undo
          /\ UNCHANGED <<at, fault>>
       \/ /\ Script[at].kind = "logged"
          /\ at' = at + 1
          /\ UNCHANGED <<stage, todo, fault>>
       \/ /\ Script[at].kind \in {"untested", "fatal"}
          /\ fault' = "null"
          /\ UNCHANGED <<stage, at, todo>>
    /\ UNCHANGED <<prog, held, excess, buffers, users>>

Loaded == /\ stage = "loading" /\ at > Len(Script) /\ stage' = "live"
          /\ UNCHANGED <<prog, at, todo, held, failed, excess, fault, buffers, users>>

GiveBack ==
    /\ stage \in {"undoing", "unloading"} /\ todo # <<>>
    /\ todo' = Tail(todo) /\ held' = held \ {Head(todo)}
    /\ excess' = (excess \/ Head(todo) \notin held)
    /\ UNCHANGED <<prog, stage, at, failed, fault, buffers, users>>

GivenBack ==
    /\ stage \in {"undoing", "unloading"} /\ todo = <<>>
    /\ stage' = IF stage = "undoing" /\ Platform THEN "unbound" ELSE "out"
    /\ UNCHANGED <<prog, at, todo, held, failed, excess, fault, buffers, users>>

\* An open file keeps the module; a probe that failed has nothing removed.
Unload ==
    /\ stage \in {"live", "unbound"} /\ \A u \in Users : upc[u] = "closed"
    /\ stage' = "unloading"
    /\ todo' = IF stage = "live" THEN ExitScript ELSE <<>>
    /\ UNCHANGED <<prog, at, held, failed, excess, fault, buffers, users>>

-----------------------------------------------------------------------------
(* The users.                                                              *)

Cell(u) == IF Io = "static" THEN 1 ELSE dev[u]
Writing(u) == upc[u] \in {"copyIn", "setSize"}
Reading(u) == upc[u] \in {"copyOut", "return"}
Others(u) == {v \in Users \ {u} : Cell(v) = Cell(u)}

\* The code, or the structure of the device, is gone.
Freed == \/ stage = "out"
         \/ Io = "own" /\ R("devices") \notin held

CallFault == IF Freed THEN "freed" ELSE "none"

\* What happens when a call of u accesses buffer_size, or the buffer.  Its idx is
\* offset_minor - minor, times BUFFER_SIZE, for both, computed when it begins;
\* without offset_minor it is far outside of any array.
SizeFault(u) == CASE Freed -> "freed"
                  [] Io = "shared" /\ R("sizes") \notin held -> "null"
                  [] Io = "shared" /\ (dev[u] > 1 \/ stale[u]) -> "trespass"
                  [] OTHER -> "none"
TextFault(u) == CASE Freed -> "freed"
                  [] Io = "shared" /\ R("buffer") \notin held -> "null"
                  [] Io = "shared" /\ stale[u] -> "trespass"
                  [] OTHER -> "none"
Index(u) == stale' = [stale EXCEPT ![u] = Io = "shared" /\ R("offset") \notin held]
Forget(u) == stale' = [stale EXCEPT ![u] = FALSE]

Faults(f) == f # "none" /\ fault' = f /\ UNCHANGED <<buffers, users>>
Fine(f)   == f = "none" /\ UNCHANGED fault

Open(u, d) ==
    /\ upc[u] = "closed" /\ Misc(d) \in held /\ stage # "unloading"
    /\ \/ Faults(CallFault)
       \/ /\ Fine(CallFault)
          /\ upc' = [upc EXCEPT ![u] = "open"] /\ dev' = [dev EXCEPT ![u] = d]
          /\ pos' = [pos EXCEPT ![u] = 0] /\ again' = [again EXCEPT ![u] = FALSE]
          /\ UNCHANGED <<stale, ask, msg, got, raced, buffers>>
    /\ UNCHANGED module

Close(u) ==
    /\ upc[u] = "open"
    /\ upc' = [upc EXCEPT ![u] = "closed"] /\ dev' = [dev EXCEPT ![u] = 1]
    /\ pos' = [pos EXCEPT ![u] = 0] /\ again' = [again EXCEPT ![u] = FALSE]
    /\ UNCHANGED <<stale, ask, msg, got, raced, fault, buffers, module>>

\* skeleton_read computes idx,
ReadBegin(u, n) ==
    /\ upc[u] = "open" /\ Io # "nothing"
    /\ \/ Faults(CallFault)
       \/ /\ Fine(CallFault)
          /\ upc' = [upc EXCEPT ![u] = "test"] /\ ask' = [ask EXCEPT ![u] = n]
          /\ Index(u)
          /\ UNCHANGED <<dev, pos, msg, got, raced, again, buffers>>
    /\ UNCHANGED module

\* and returns 0 if fewer bytes are asked for than there are, and at the end of
\* the file.
ReadTest(u) ==
    /\ upc[u] = "test"
    /\ \/ Faults(SizeFault(u))
       \/ /\ Fine(SizeFault(u))
          /\ ask[u] >= size[Cell(u)] /\ pos[u] < size[Cell(u)]
          /\ upc' = [upc EXCEPT ![u] = "copyOut"]
          /\ raced' = [raced EXCEPT ![u] = \E v \in Others(u) : Writing(v)]
          /\ UNCHANGED <<dev, pos, stale, ask, msg, got, again, buffers>>
       \/ /\ Fine(SizeFault(u))
          /\ ask[u] < size[Cell(u)] \/ pos[u] >= size[Cell(u)]
          /\ upc' = [upc EXCEPT ![u] = "open"] /\ ask' = [ask EXCEPT ![u] = 0]
          /\ Forget(u)
          /\ UNCHANGED <<dev, pos, msg, got, raced, again, buffers>>
    /\ UNCHANGED module

\* copy_to_user (buf, buffer, buffer_size)
ReadCopy(u) ==
    /\ upc[u] = "copyOut"
    /\ \/ Faults(TextFault(u))
       \/ /\ Fine(TextFault(u))
          /\ upc' = [upc EXCEPT ![u] = "return"]
          /\ got' = [got EXCEPT ![u] = [text |-> text[Cell(u)],
                                        bytes |-> size[Cell(u)]]]
          /\ UNCHANGED <<dev, pos, stale, ask, msg, raced, again, buffers>>
    /\ UNCHANGED module

\* *ppos = buffer_size; return buffer_size
ReadReturn(u) ==
    /\ upc[u] = "return"
    /\ \/ Faults(SizeFault(u))
       \/ /\ Fine(SizeFault(u))
          /\ upc' = [upc EXCEPT ![u] = "open"]
          /\ pos' = [pos EXCEPT ![u] = size[Cell(u)]]
          /\ again' = [again EXCEPT ![u] = ~raced[u]]
          /\ ask' = [ask EXCEPT ![u] = 0] /\ got' = [got EXCEPT ![u] = NoGot]
          /\ raced' = [raced EXCEPT ![u] = FALSE] /\ Forget(u)
          /\ UNCHANGED <<dev, msg, buffers>>
    /\ UNCHANGED module

\* Variant of TooLong: a message that fills the buffer is taken.
TooLongByOne(m) == Length[m] > BufferSize
TooLong(m) == Length[m] >= BufferSize

\* skeleton_write up to the copy
WriteBegin(u, m) ==
    /\ upc[u] = "open" /\ Io # "nothing"
    /\ Length[m] > 0 /\ ~TooLong(m)
    /\ \/ Faults(CallFault)
       \/ /\ Fine(CallFault)
          /\ upc' = [upc EXCEPT ![u] = "copyIn"] /\ Index(u)
          /\ msg' = [msg EXCEPT ![u] = m] /\ pos' = [pos EXCEPT ![u] = 0]
          /\ raced' = [v \in Users |-> raced[v] \/ (v \in Others(u) /\ Reading(v))]
          /\ again' = [v \in Users |-> again[v] /\ Cell(v) # Cell(u)]
          /\ mix' = [mix EXCEPT ![Cell(u)] =
                       IF \E v \in Others(u) : Writing(v) THEN "mixed"
                       ELSE IF @ = "mixed" THEN "cleaning" ELSE @]
          /\ UNCHANGED <<dev, ask, got, text, size>>
    /\ UNCHANGED module

\* copy_from_user, and the zero after it
WriteCopy(u) ==
    LET f == IF TextFault(u) = "none" /\ Length[msg[u]] >= BufferSize
             THEN "trespass" ELSE TextFault(u)
    IN /\ upc[u] = "copyIn"
       /\ \/ Faults(f)
          \/ /\ Fine(f)
             /\ upc' = [upc EXCEPT ![u] = "setSize"]
             /\ text' = [text EXCEPT ![Cell(u)] = msg[u]]
             /\ UNCHANGED <<dev, pos, stale, ask, msg, got, raced, again, size, mix>>
       /\ UNCHANGED module

\* Variants of SizeOf: the zero at the end is forgotten, or counted twice.
SizeOfText(m) == Length[m]
SizeOfTwice(m) == Length[m] + 2
SizeOf(m) == Length[m] + 1

WriteSize(u) ==
    /\ upc[u] = "setSize"
    /\ \/ Faults(SizeFault(u))
       \/ /\ Fine(SizeFault(u))
          /\ upc' = [upc EXCEPT ![u] = "open"]
          /\ msg' = [msg EXCEPT ![u] = NoText]
          /\ size' = [size EXCEPT ![Cell(u)] = SizeOf(msg[u])]
          /\ mix' = [mix EXCEPT ![Cell(u)] = IF @ = "cleaning" THEN "clean" ELSE @]
          /\ Forget(u)
          /\ UNCHANGED <<dev, pos, ask, got, raced, again, text>>
    /\ UNCHANGED module

UserStep(u) ==
    \/ \E d \in Cells : Open(u, d)
    \/ Close(u) \/ ReadTest(u) \/ ReadCopy(u) \/ ReadReturn(u)
    \/ WriteCopy(u) \/ WriteSize(u)
    \/ \E n \in Asks : ReadBegin(u, n)
    \/ \E m \in Messages : WriteBegin(u, m)

Next == /\ fault = "none"
        /\ \/ Load \/ Acquire \/ AcquireFails \/ Loaded
           \/ GiveBack \/ GivenBack \/ Unload
           \/ \E u \in Users : UserStep(u)

Spec == Init /\ [][Next]_vars

-----------------------------------------------------------------------------
Texts == Messages \cup {NoText}
UserSteps == {"closed", "open", "test", "copyOut", "return", "copyIn", "setSize"}

\* Every variable keeps to its values; no size is larger than the buffer.
TypeOK ==
    /\ prog \in Programs
    /\ stage \in {"new", "loading", "live", "undoing", "unbound", "unloading", "out"}
    /\ at \in 1..(Len(Script) + 1)
    /\ failed \in BOOLEAN /\ excess \in BOOLEAN
    /\ fault \in {"none", "null", "trespass", "freed"}
    /\ text \in [Cells -> Texts] /\ size \in [Cells -> 0..BufferSize]
    /\ mix \in [Cells -> {"clean", "mixed", "cleaning"}]
    /\ upc \in [Users -> UserSteps] /\ dev \in [Users -> Cells]
    /\ pos \in [Users -> 0..BufferSize] /\ stale \in [Users -> BOOLEAN]
    /\ ask \in [Users -> Asks \cup {0}]
    /\ msg \in [Users -> Texts]
    /\ got \in [Users -> [text : Texts, bytes : 0..BufferSize]]
    /\ raced \in [Users -> BOOLEAN] /\ again \in [Users -> BOOLEAN]

\* What is known, not held: it need not be given back.
Facts == {R("offset")} \cup {<<"number", key>> : key \in 1..3}

\* Exercises that undo what they did when a step fails.
Tidy == {"ex2", "bus", "ex5"}

\* Nothing is left of a module that is out, whichever step of loading failed,
\* if it is one that undoes its steps, or if none failed; and no module gives
\* back what it does not have, unless it only logs that it did not get it.
Balanced ==
    /\ stage = "out" /\ (failed => prog \in Tidy) => held \subseteq Facts
    /\ excess => failed /\ prog \in {"ex7", "irq6"}

\* What a resource needs: devices their class, attributes what they are of, a
\* device of ex6 its structure (if no step failed), an interrupt its GPIO
\* (but while unloading, when the GPIO goes first).
Needs(r) ==
    CASE r = R("group")  -> {R("device")}
      [] r = R("device") -> {R("class")}
      [] r = R("file")   -> {R("platform")}
      [] r[1] = "misc" /\ Io = "own" /\ ~failed -> {R("devices")}
      [] r[1] = "irq" /\ stage # "unloading" -> {<<"gpio", r[2]>>}
      [] OTHER -> {}
NeedsMet == \A r \in held : stage # "out" => Needs(r) \subseteq held

\* A process meets bad memory only: in a module that registers devices before
\* their buffers exist, while it is being loaded or when that failed, and even
\* when it is live, in a call that began before offset_minor was known; there,
\* on the sizes of a device that is not the first; in a module whose loading
\* failed after it had registered a device; or, at loading, without a device, or
\* when class_create or device_create failed.
FaultsExplained ==
    \/ fault = "none"
    \/ fault = "null" /\ Io = "shared" /\ stage # "live"
    \/ fault = "null" /\ prog = "ex5" /\ failed /\ stage = "loading"
    \/ /\ fault = "trespass" /\ Io = "shared"
       /\ \E u \in Users : dev[u] > 1 \/ stale[u]
    \/ fault = "freed" /\ failed /\ \E i \in 1..(at - 1) : Script[i].does = Misc(1)

\* A read that met no writer gives a whole message with its zero, says how long
\* it is, stays within what was asked for, and is not a repetition; unless
\* two writers have left the text of one with the size of the other.
ReadsWhole ==
    \A u \in Users :
        upc[u] = "return" /\ ~raced[u] /\ mix[Cell(u)] = "clean" =>
            /\ got[u].bytes = TextLength(got[u].text) + 1
            /\ got[u].bytes = size[Cell(u)] /\ got[u].bytes <= ask[u]
            /\ ~again[u]
=============================================================================
