---------------------------- MODULE DriversProofs ----------------------------
(***************************************************************************)
(* For any number of processes, devices, messages and bytes: what loading  *)
(* and unloading leave behind and in which order, which bad accesses can   *)
(* happen, and what a read returns.                                        *)
(***************************************************************************)
EXTENDS Drivers, FiniteSetTheorems, SequenceTheorems, TLAPS

Names == {"misc", "platform", "file", "class", "device", "group", "data", "devices",
          "offset", "buffer", "sizes", "gpio", "number", "irq"}
Resources == Names \X Nat
Elems(s) == {s[i] : i \in 1..Len(s)}
Distinct(s) == \A i, j \in 1..Len(s) : s[i] = s[j] => i = j

\* The steps of the script before the i-th.
Before(i) == {Script[j].does : j \in 1..(i - 1)}

\* Exercises whose interrupts are only logged when they are not granted.
Logging == {"ex7", "irq6"}

ModuleOK ==
    /\ prog \in Programs
    /\ stage \in {"new", "loading", "live", "undoing", "unbound", "unloading", "out"}
    /\ at \in 1..(Len(Script) + 1)
    /\ failed \in BOOLEAN /\ excess \in BOOLEAN
    /\ fault \in {"none", "null", "trespass", "freed"}
    /\ todo \in Seq(Resources)

UsersOK ==
    /\ text \in [Cells -> Texts] /\ size \in [Cells -> 0..BufferSize]
    /\ mix \in [Cells -> {"clean", "mixed", "cleaning"}]
    /\ upc \in [Users -> UserSteps] /\ dev \in [Users -> Cells]
    /\ pos \in [Users -> 0..BufferSize] /\ stale \in [Users -> BOOLEAN]
    /\ ask \in [Users -> Asks \cup {0}]
    /\ msg \in [Users -> Texts]
    /\ got \in [Users -> [text : Texts, bytes : 0..BufferSize]]
    /\ raced \in [Users -> BOOLEAN] /\ again \in [Users -> BOOLEAN]
    /\ \A u \in Users : Writing(u) => msg[u] \in Messages /\ ~TooLong(msg[u])

\* What is held while the script runs, and once it has been run.
Forth == {"new", "loading", "live"}
ForthInv ==
    /\ held \subseteq Before(at)
    /\ stage \in Forth =>
         /\ ~excess
         /\ \A j \in 1..(at - 1) : Script[j].kind = "logged" \/ Script[j].does \in held
         /\ ~failed => Before(at) \subseteq held
         /\ failed /\ fault = "none" => prog \in Logging
    /\ stage = "live" => at = Len(Script) + 1
    /\ stage = "new" => at = 1 /\ ~failed

\* What is held, and what is still to be given back, on the way out.
Back == {"undoing", "unloading"}
BackInv ==
    /\ stage \in Back =>
         /\ Distinct(todo)
         /\ (failed => prog \in Tidy) => held \subseteq Facts \cup Elems(todo)
         /\ (failed => prog \notin Logging) => Elems(todo) \subseteq held
    /\ stage \in {"undoing", "unbound"} => failed
    /\ stage = "unbound" => Platform
    /\ excess => failed /\ prog \in Logging
    /\ stage = "out" /\ (failed => prog \in Tidy) => held \subseteq Facts

\* What needs something else is given back before it.
OrderInv ==
    stage \in Back => \A r \in held : \A k \in 1..Len(todo) :
        todo[k] \in Needs(r) => \E j \in 1..(k - 1) : todo[j] = r

\* Who has a file open, and since when.
Registered == \E i \in 1..(at - 1) : Script[i].does = Misc(1)
OpenInv ==
    \A u \in Users : upc[u] # "closed" =>
        /\ Registered /\ stage # "unloading"
        /\ stage = "out" => failed

\* One writer at a time leaves a text and its size that fit.
SizeFor(t) == IF t = NoText THEN 0 ELSE SizeOf(t)
WritesAt(u, c) == Writing(u) /\ Cell(u) = c
WriteInv ==
    /\ \A c \in Cells : mix[c] # "mixed" =>
         \A u, v \in Users : WritesAt(u, c) /\ WritesAt(v, c) => u = v
    /\ \A u \in Users : upc[u] = "setSize" /\ mix[Cell(u)] # "mixed" =>
         text[Cell(u)] = msg[u]
    /\ \A c \in Cells : mix[c] = "clean" =>
         \/ size[c] = SizeFor(text[c])
         \/ \E u \in Users : WritesAt(u, c) /\ upc[u] = "setSize"

\* What a reader that meets no writer has found.
ReadInv ==
    \A u \in Users :
        /\ Reading(u) /\ ~raced[u] =>
             /\ \A v \in Users : ~WritesAt(v, Cell(u))
             /\ 0 < size[Cell(u)] /\ size[Cell(u)] <= ask[u]
        /\ upc[u] = "return" /\ ~raced[u] =>
             got[u] = [text |-> text[Cell(u)], bytes |-> size[Cell(u)]]
        /\ again[u] => /\ upc[u] \in {"open", "test"} /\ pos[u] = size[Cell(u)]
                       /\ \A v \in Users : ~WritesAt(v, Cell(u))

-----------------------------------------------------------------------------
(* What the scripts have in common.                                        *)

Kinds == {"tested", "logged", "untested", "sure", "fatal"}
Steps == [does : Resources, undo : Seq(Resources), kind : Kinds]

\* A script s, and its way back e: together they are complete; what a failing
\* step gives back was there; the first device comes first.
Shape(s, e) ==
    /\ s \in Seq(Steps) /\ e \in Seq(Resources) /\ Distinct(e)
    /\ \A k \in 1..Len(e) : \E j \in 1..Len(s) : s[j].does = e[k]
    /\ \A j \in 1..Len(s) : s[j].does \in Facts \cup Elems(e)
    /\ \A i \in 1..Len(s) : s[i].kind = "tested" =>
         /\ Distinct(s[i].undo)
         /\ \A k \in 1..Len(s[i].undo) :
              \E j \in 1..(i - 1) : s[j].does = s[i].undo[k]
    /\ \A i \in 1..Len(s) : s[i].does[1] = "misc" =>
         \E j \in 1..i : s[j].does = Misc(1)

\* The steps of a script, and their fields.
LEMMA FieldsTry == ASSUME NEW r \in Resources, NEW u \in Seq(Resources)
  PROVE /\ Try(r, u) \in Steps /\ Try(r, u).does = r /\ Try(r, u).undo = u /\ Try(r, u).kind = "tested"
        /\ Trust(r) \in Steps /\ Trust(r).does = r /\ Trust(r).kind = "untested"
        /\ Log(r) \in Steps /\ Log(r).does = r /\ Log(r).kind = "logged"
        /\ Set(r) \in Steps /\ Set(r).does = r /\ Set(r).kind = "sure"
        /\ Crash(r) \in Steps /\ Crash(r).does = r /\ Crash(r).kind = "fatal"
  BY DEF Try, Trust, Log, Set, Crash, Steps, Kinds

LEMMA Fields ==
  \A r, u : /\ Try(r, u).does = r /\ Try(r, u).undo = u /\ Try(r, u).kind = "tested"
            /\ Log(r).does = r /\ Log(r).undo = <<>> /\ Log(r).kind = "logged"
            /\ Trust(r).does = r /\ Trust(r).undo = <<>> /\ Trust(r).kind = "untested"
            /\ Set(r).does = r /\ Set(r).undo = <<>> /\ Set(r).kind = "sure"
            /\ Crash(r).does = r /\ Crash(r).undo = <<>> /\ Crash(r).kind = "fatal"
  BY DEF Try, Log, Trust, Set, Crash

LEMMA Named ==
  /\ \A d \in Nat : Misc(d) \in Resources /\ Misc(d)[1] = "misc" /\ Misc(d)[2] = d
  /\ \A n \in Names : R(n) \in Resources /\ R(n)[1] = n /\ R(n)[2] = 0
  BY DEF Misc, R, Resources, Names

\* A step that undoes nothing.
LEMMA NoUndo == Distinct(<<>>) /\ <<>> \in Seq(Resources) /\ Len(<<>>) = 0
  BY DEF Distinct

\* The scripts of the first exercises, by their positions.
LEMMA Ex2Shape == Shape(Ex2Init, Ex2Exit)
  <1> DEFINE s == Ex2Init  e == Ex2Exit
  <1>1. Misc(1) \in Resources
    BY Named
  <1>2. /\ Len(s) = 1 /\ s[1] = Try(Misc(1), <<>>) /\ s \in Seq(Steps)
    <2>1. Try(Misc(1), <<>>) \in Steps
      BY <1>1, NoUndo, FieldsTry
    <2> QED BY <2>1 DEF Ex2Init
  <1>4. /\ Len(e) = 1 /\ e[1] = Misc(1) /\ e \in Seq(Resources)
    BY <1>1 DEF Ex2Exit
  <1>3. s[1].does = Misc(1) /\ s[1].undo = <<>>
    BY <1>2 DEF Try
  <1> QED BY <1>2, <1>3, <1>4, NoUndo DEF Shape, Distinct, Elems

LEMMA BusShape == Shape(BusInit, BusExit)
  <1> DEFINE s == BusInit  e == BusExit
             u2 == <<Misc(1)>>
             u3 == <<R("platform"), Misc(1)>>
  <1>1. Misc(1) \in Resources /\ R("platform") \in Resources /\ R("file") \in Resources
    BY Named DEF Names
  <1>2. u2 \in Seq(Resources) /\ u3 \in Seq(Resources)
    BY <1>1
  <1>3. /\ Try(Misc(1), <<>>) \in Steps /\ Try(R("platform"), u2) \in Steps
        /\ Try(R("file"), u3) \in Steps
    BY <1>1, <1>2, NoUndo, FieldsTry
  <1>4. /\ Len(s) = 3 /\ s[1] = Try(Misc(1), <<>>)
        /\ s[2] = Try(R("platform"), u2) /\ s[3] = Try(R("file"), u3)
        /\ Len(e) = 3 /\ e[1] = R("file") /\ e[2] = R("platform") /\ e[3] = Misc(1)
    BY DEF BusInit, BusExit
  <1>5. s \in Seq(Steps) /\ e \in Seq(Resources)
    BY <1>1, <1>3 DEF BusInit, BusExit
  <1>6. /\ s[1].does = Misc(1) /\ s[2].does = R("platform") /\ s[3].does = R("file")
        /\ s[1].undo = <<>> /\ s[2].undo = u2 /\ s[3].undo = u3
    BY <1>4 DEF Try
  <1>7. Distinct(e) /\ Distinct(u2) /\ Distinct(u3)
    BY <1>4 DEF Distinct, R, Misc
  <1>8. /\ \A k \in 1..3 : \E j \in 1..3 : s[j].does = e[k]
        /\ \A j \in 1..3 : \E k \in 1..3 : s[j].does = e[k]
        /\ \A i \in 1..3 : \E j \in 1..i : s[j].does = Misc(1)
    BY <1>4, <1>6
  <1>9. /\ \A k \in 1..Len(u2) : \E j \in 1..1 : s[j].does = u2[k]
        /\ \A k \in 1..Len(u3) : \E j \in 1..2 : s[j].does = u3[k]
    BY <1>6
  <1>10. \A i \in 1..3 : /\ Distinct(s[i].undo)
                         /\ \A k \in 1..Len(s[i].undo) :
                              \E j \in 1..(i - 1) : s[j].does = s[i].undo[k]
    BY <1>6, <1>7, <1>9, NoUndo
  <1>11. \A j \in 1..3 : s[j].does \in Elems(e)
    BY <1>4, <1>8 DEF Elems
  <1> QED BY <1>4, <1>5, <1>7, <1>8, <1>10, <1>11 DEF Shape

LEMMA Ex5Shape == Shape(Ex5Init, Ex5Exit)
  <1> DEFINE s == Ex5Init  e == Ex5Exit
             u2 == <<Misc(1)>>
             u3 == <<R("platform"), Misc(1)>>
             u6 == <<R("device"), R("class"), R("file"), R("platform"), Misc(1)>>
  <1>0. /\ Misc(1) \in Resources /\ R("class") \in Resources /\ R("platform") \in Resources
        /\ R("file") \in Resources /\ R("group") \in Resources /\ R("device") \in Resources
    BY Named DEF Names
  <1>1. /\ Len(s) = 6 /\ s[1] = Try(Misc(1), <<>>)
        /\ s[2] = Try(R("platform"), u2)
        /\ s[3] = Try(R("file"), u3)
        /\ s[4] = Trust(R("class")) /\ s[5] = Trust(R("device"))
        /\ s[6] = Try(R("group"), u6)
    BY DEF Ex5Init
  <1>2. /\ Len(e) = 6 /\ e[1] = R("group") /\ e[2] = R("device")
        /\ e[3] = R("class") /\ e[4] = R("file") /\ e[5] = R("platform")
        /\ e[6] = Misc(1)
    BY DEF Ex5Exit
  <1>3. e \in Seq(Resources)
    BY <1>0 DEF Ex5Exit
  <1>4. Distinct(e)
    BY <1>2 DEF Distinct, R, Misc
  <1>5. /\ <<>> \in Seq(Resources) /\ u2 \in Seq(Resources) /\ u3 \in Seq(Resources)
        /\ u6 \in Seq(Resources)
    BY <1>0
  <1>7. /\ Try(Misc(1), <<>>) \in Steps /\ Try(R("platform"), u2) \in Steps
        /\ Try(R("file"), u3) \in Steps /\ Trust(R("class")) \in Steps
        /\ Trust(R("device")) \in Steps /\ Try(R("group"), u6) \in Steps
    BY <1>0, <1>5, FieldsTry
  <1>6. s \in Seq(Steps)
    BY <1>7 DEF Ex5Init
  <1>8. /\ s[1].does = Misc(1) /\ s[2].does = R("platform") /\ s[3].does = R("file")
        /\ s[4].does = R("class") /\ s[5].does = R("device") /\ s[6].does = R("group")
        /\ s[1].undo = <<>> /\ s[2].undo = u2 /\ s[3].undo = u3 /\ s[6].undo = u6
        /\ s[4].kind = "untested" /\ s[5].kind = "untested"
    BY <1>1 DEF Try, Trust
  <1>9. \A k \in 1..6 : \E j \in 1..6 : s[j].does = e[k]
    BY <1>2, <1>8
  <1>10. \A j \in 1..6 : \E k \in 1..6 : s[j].does = e[k]
    BY <1>2, <1>8
  <1>11. \A i \in 1..6 : s[i].kind = "tested" => i \in {1, 2, 3, 6}
    BY <1>8
  <1>12. \A i \in {1, 2, 3, 6} : 
         /\ Distinct(s[i].undo)
         /\ \A k \in 1..Len(s[i].undo) :
              \E j \in 1..(i - 1) : s[j].does = s[i].undo[k]
    <2>1. Distinct(<<>>) /\ Distinct(u2) /\ Distinct(u3) /\ Distinct(u6)
      BY DEF Distinct, R, Misc
    <2>2. /\ \A k \in 1..Len(u2) : \E j \in 1..1 : s[j].does = u2[k]
          /\ \A k \in 1..Len(u3) : \E j \in 1..2 : s[j].does = u3[k]
          /\ \A k \in 1..Len(u6) : \E j \in 1..5 : s[j].does = u6[k]
      BY <1>8
    <2>3. \A k \in 1..Len(<<>>) : FALSE
      BY NoUndo
    <2> HIDE DEF s, u2, u3, u6
    <2>4. /\ Distinct(s[1].undo) /\ Distinct(s[2].undo)
          /\ Distinct(s[3].undo) /\ Distinct(s[6].undo)
      BY <1>8, <2>1
    <2>5. /\ \A k \in 1..Len(s[1].undo) : FALSE
          /\ \A k \in 1..Len(s[2].undo) : \E j \in 1..(2 - 1) : s[j].does = s[2].undo[k]
          /\ \A k \in 1..Len(s[3].undo) : \E j \in 1..(3 - 1) : s[j].does = s[3].undo[k]
          /\ \A k \in 1..Len(s[6].undo) : \E j \in 1..(6 - 1) : s[j].does = s[6].undo[k]
      BY <1>8, <2>2, <2>3
    <2>6. ASSUME NEW i \in {1, 2, 3, 6}
          PROVE  /\ Distinct(s[i].undo)
                 /\ \A k \in 1..Len(s[i].undo) :
                      \E j \in 1..(i - 1) : s[j].does = s[i].undo[k]
      <3>1. CASE i = 1
        BY <2>4, <2>5, <3>1
      <3>2. CASE i = 2
        BY <2>4, <2>5, <3>2
      <3>3. CASE i = 3
        BY <2>4, <2>5, <3>3
      <3>4. CASE i = 6
        BY <2>4, <2>5, <3>4
      <3> QED BY <3>1, <3>2, <3>3, <3>4
    <2> QED BY <2>6
  <1>13. \A i \in 1..6 : \E j \in 1..i : s[j].does = Misc(1)
    BY <1>8
  <1>14. \A j \in 1..6 : s[j].does \in Elems(e)
    BY <1>10, <1>2 DEF Elems
  <1> QED BY <1>1, <1>2, <1>3, <1>4, <1>6, <1>9, <1>11, <1>12, <1>13, <1>14 DEF Shape
LEMMA Joined ==
    ASSUME NEW S, NEW a \in Seq(S), NEW b \in Seq(S)
    PROVE  /\ a \o b \in Seq(S) /\ Len(a \o b) = Len(a) + Len(b)
           /\ \A i \in 1..Len(a) : (a \o b)[i] = a[i]
           /\ \A i \in 1..Len(b) : (a \o b)[i + Len(a)] = b[i]
  <1>1. \A i \in 1..Len(a) : i <= Len(a) /\ i \in 1..(Len(a) + Len(b))
    OBVIOUS
  <1>2. ASSUME NEW i \in 1..Len(b)
        PROVE  i + Len(a) \in 1..(Len(a) + Len(b)) /\ ~(i + Len(a) <= Len(a))
               /\ (i + Len(a)) - Len(a) = i
    OBVIOUS
  <1> QED BY <1>1, <1>2, ConcatProperties

\* The n devices between the steps before and after them.
LEMMA Devices ==
    ASSUME NEW n \in Nat
    PROVE  /\ MiscUpTo(n) \in Seq(Resources) /\ Len(MiscUpTo(n)) = n
           /\ \A d \in 1..n : MiscUpTo(n)[d] = Misc(d)
           /\ \A u \in Seq(Resources) :
                /\ TryAll(MiscUpTo(n), u) \in Seq(Steps)
                /\ Len(TryAll(MiscUpTo(n), u)) = n
                /\ \A d \in 1..n : TryAll(MiscUpTo(n), u)[d] = Try(Misc(d), u)
  <1>1. \A d \in 1..n : Misc(d) \in Resources
    BY Named
  <1>2. MiscUpTo(n) \in Seq(Resources) /\ Len(MiscUpTo(n)) = n /\ DOMAIN MiscUpTo(n) = 1..n
    BY <1>1 DEF MiscUpTo
  <1>3. \A d \in 1..n : MiscUpTo(n)[d] = Misc(d)
    BY DEF MiscUpTo
  <1>4. ASSUME NEW u \in Seq(Resources)
        PROVE  /\ TryAll(MiscUpTo(n), u) \in Seq(Steps)
               /\ Len(TryAll(MiscUpTo(n), u)) = n
               /\ \A d \in 1..n : TryAll(MiscUpTo(n), u)[d] = Try(Misc(d), u)
    <2>1. \A d \in 1..n : Try(Misc(d), u) \in Steps
      BY <1>1, FieldsTry
    <2>2. TryAll(MiscUpTo(n), u) = [d \in 1..n |-> Try(Misc(d), u)]
      BY <1>2, <1>3 DEF TryAll
    <2> QED BY <2>1, <2>2
  <1> QED BY <1>2, <1>3, <1>4

\* The scripts that begin with the devices, step by step, and their way back.
LateIs(n, s, e) ==
    /\ s \in Seq(Steps) /\ Len(s) = n + 4
    /\ e \in Seq(Resources) /\ Len(e) = n + 3
    /\ s[1].does = R("devices") /\ s[n + 2].does = R("offset")
    /\ s[n + 3].does = R("buffer") /\ s[n + 4].does = R("sizes")
    /\ \A d \in 1..n : s[d + 1].does = Misc(d)
    /\ \A i \in 1..Len(s) : s[i].undo = <<>> /\ s[i].kind \in {"tested", "sure", "fatal"}
    /\ \A d \in 1..n : e[d] = Misc(d)
    /\ e[n + 1] = R("devices") /\ e[n + 2] = R("buffer") /\ e[n + 3] = R("sizes")
    /\ \A i \in 1..Len(s) : i \in {1, n + 2, n + 3, n + 4} \/ \E d \in 1..n : i = d + 1
    /\ \A k \in 1..Len(e) : k \in 1..n \/ k \in {n + 1, n + 2, n + 3}

\* What a sequence of n elements becomes between one and three others.
LEMMA Between ==
    ASSUME NEW S, NEW n \in Nat, NEW m \in Seq(S), Len(m) = n,
           NEW a \in S, NEW x \in S, NEW y \in S, NEW z \in S,
           NEW s, s = <<a>> \o m \o <<x, y, z>>
    PROVE  /\ s \in Seq(S) /\ Len(s) = n + 4
           /\ s[1] = a
           /\ \A d \in 1..n : s[d + 1] = m[d]
           /\ s[n + 2] = x /\ s[n + 3] = y /\ s[n + 4] = z
  <1> DEFINE f == <<a>> \o m  g == <<x, y, z>>
  <1>1. f \in Seq(S) /\ Len(f) = n + 1 /\ f[1] = a /\ \A d \in 1..n : f[d + 1] = m[d]
    OBVIOUS
  <1>2. g \in Seq(S) /\ Len(g) = 3 /\ g[1] = x /\ g[2] = y /\ g[3] = z
    OBVIOUS
  <1>3. s = f \o g
    OBVIOUS
  <1> HIDE DEF f, g
  <1>4. s \in Seq(S) /\ Len(s) = n + 4
    BY <1>1, <1>2, <1>3
  <1>5. \A i \in 1..(n + 1) : s[i] = f[i]
    BY <1>1, <1>2, <1>3
  <1>6. s[n + 2] = g[1] /\ s[n + 3] = g[2] /\ s[n + 4] = g[3]
    <2>1. \A k \in 1..Len(g) : s[Len(f) + k] = g[k]
      BY <1>1, <1>2, <1>3
    <2>2. s[(n + 1) + 1] = g[1] /\ s[(n + 1) + 2] = g[2] /\ s[(n + 1) + 3] = g[3]
      BY <1>1, <1>2, <2>1
    <2> QED BY <2>2
  <1>7. \A d \in 1..n : s[d + 1] = m[d]
    BY <1>1, <1>5
  <1> QED BY <1>1, <1>2, <1>4, <1>5, <1>6, <1>7

\* They are what their definition says.
LEMMA LateScript ==
    ASSUME NEW n \in Nat
    PROVE  LateIs(n, LateInit(n), LateExit(n))
  <1> DEFINE s == LateInit(n)  e == LateExit(n)
             m == TryAll(MiscUpTo(n), <<>>)
             offset == IF n = 0 THEN Crash(R("offset")) ELSE Set(R("offset"))
             tail == <<offset, Try(R("buffer"), <<>>), Try(R("sizes"), <<>>)>>
             b == MiscUpTo(n)
             rest == <<R("devices"), R("buffer"), R("sizes")>>
  <1>1. /\ R("devices") \in Resources /\ R("offset") \in Resources
        /\ R("buffer") \in Resources /\ R("sizes") \in Resources
    BY Named DEF Names
  <1>2. /\ Try(R("devices"), <<>>) \in Steps /\ offset \in Steps
        /\ Try(R("buffer"), <<>>) \in Steps /\ Try(R("sizes"), <<>>) \in Steps
    BY <1>1, NoUndo, FieldsTry
  <1>0. /\ offset.does = R("offset") /\ offset.undo = <<>>
        /\ offset.kind \in {"sure", "fatal"}
    BY Fields
  <1>14. LateInit(n) = <<Try(R("devices"), <<>>)>> \o m \o tail
    BY DEF LateInit
  <1>3. /\ m \in Seq(Steps) /\ Len(m) = n /\ \A d \in 1..n : m[d] = Try(Misc(d), <<>>)
        /\ b \in Seq(Resources) /\ Len(b) = n /\ \A d \in 1..n : b[d] = Misc(d)
    BY Devices, NoUndo
  <1>4. /\ <<Try(R("devices"), <<>>)>> \in Seq(Steps) /\ tail \in Seq(Steps) /\ rest \in Seq(Resources)
    BY <1>1, <1>2
  <1> HIDE DEF m, b, offset
  <1>5. /\ s \in Seq(Steps) /\ Len(s) = n + 4
        /\ s[1] = Try(R("devices"), <<>>)
        /\ \A d \in 1..n : s[d + 1] = Try(Misc(d), <<>>)
        /\ s[n + 2] = offset /\ s[n + 3] = Try(R("buffer"), <<>>)
        /\ s[n + 4] = Try(R("sizes"), <<>>)
    <2>1. /\ s \in Seq(Steps) /\ Len(s) = n + 4
          /\ s[1] = Try(R("devices"), <<>>)
          /\ \A d \in 1..n : s[d + 1] = m[d]
          /\ s[n + 2] = offset /\ s[n + 3] = Try(R("buffer"), <<>>)
          /\ s[n + 4] = Try(R("sizes"), <<>>)
      <3> HIDE DEF s
      <3>1. s = <<Try(R("devices"), <<>>)>> \o m
                  \o <<offset, Try(R("buffer"), <<>>), Try(R("sizes"), <<>>)>>
        BY <1>14 DEF s
      <3>2. m \in Seq(Steps) /\ Len(m) = n
        BY <1>3
      <3> QED BY <1>2, <3>1, <3>2, Between
    <2>2. \A d \in 1..n : m[d] = Try(Misc(d), <<>>)
      BY <1>3
    <2> QED BY <2>1, <2>2
  <1>6. /\ e \in Seq(Resources) /\ Len(e) = n + 3
        /\ \A d \in 1..n : e[d] = Misc(d)
        /\ e[n + 1] = R("devices") /\ e[n + 2] = R("buffer") /\ e[n + 3] = R("sizes")
    BY <1>3, <1>4 DEF LateExit, b
  <1>7. /\ \A i \in 1..Len(s) : i \in {1, n + 2, n + 3, n + 4} \/ \E d \in 1..n : i = d + 1
        /\ \A k \in 1..Len(e) : k \in 1..n \/ k \in {n + 1, n + 2, n + 3}
    <2>1. ASSUME NEW i \in 1..Len(s), i \notin {1, n + 2, n + 3, n + 4} PROVE \E d \in 1..n : i = d + 1
      <3>1. i - 1 \in 1..n /\ i = (i - 1) + 1
        BY <1>5, <2>1
      <3> QED BY <3>1
    <2> QED BY <2>1, <1>6
  <1> HIDE DEF s, e
  <1>8. /\ s[1].does = R("devices") /\ s[n + 2].does = R("offset")
        /\ s[n + 3].does = R("buffer") /\ s[n + 4].does = R("sizes")
        /\ \A d \in 1..n : s[d + 1].does = Misc(d)
    BY <1>0, <1>5, Fields
  <1>9. \A i \in 1..Len(s) : s[i].undo = <<>> /\ s[i].kind \in {"tested", "sure", "fatal"}
    <2>1. ASSUME NEW d \in 1..n PROVE s[d + 1].undo = <<>> /\ s[d + 1].kind = "tested"
      <3>1. s[d + 1] = Try(Misc(d), <<>>)
        BY <1>5
      <3> QED BY <3>1, Fields
    <2>2. \A i \in {1, n + 2, n + 3, n + 4} : s[i].undo = <<>> /\ s[i].kind \in {"tested", "sure", "fatal"}
      BY <1>0, <1>5, Fields
    <2> QED BY <1>7, <2>1, <2>2
  <1>10. LateIs(n, s, e)
    BY <1>5, <1>6, <1>7, <1>8, <1>9 DEF LateIs
  <1> QED BY <1>10 DEF s, e

LEMMA LateShape ==
    ASSUME NEW n \in Nat
    PROVE  Shape(LateInit(n), LateExit(n))
  <1> DEFINE s == LateInit(n)  e == LateExit(n)
  <1>1. LateIs(n, s, e)
    BY LateScript
  <1> HIDE DEF s, e
  <1>5. /\ s \in Seq(Steps) /\ Len(s) = n + 4
    BY <1>1 DEF LateIs
  <1>6. /\ e \in Seq(Resources) /\ Len(e) = n + 3
        /\ \A d \in 1..n : e[d] = Misc(d)
        /\ e[n + 1] = R("devices") /\ e[n + 2] = R("buffer") /\ e[n + 3] = R("sizes")
    BY <1>1 DEF LateIs
  <1>7. /\ \A i \in 1..Len(s) : i \in {1, n + 2, n + 3, n + 4} \/ \E d \in 1..n : i = d + 1
        /\ \A k \in 1..Len(e) : k \in 1..n \/ k \in {n + 1, n + 2, n + 3}
    BY <1>1 DEF LateIs
  <1>8. /\ s[1].does = R("devices") /\ s[n + 2].does = R("offset")
        /\ s[n + 3].does = R("buffer") /\ s[n + 4].does = R("sizes")
        /\ \A d \in 1..n : s[d + 1].does = Misc(d)
    BY <1>1 DEF LateIs
  <1>9. \A i \in 1..Len(s) : s[i].undo = <<>>
    BY <1>1 DEF LateIs
  <1>10. Distinct(e)
    <2>1. \A k, l \in 1..n : Misc(k) = Misc(l) => k = l
      BY DEF Misc
    <2>2. \A k \in 1..n : Misc(k) \notin {R("devices"), R("buffer"), R("sizes")}
      BY DEF Misc, R
    <2>3. R("devices") # R("buffer") /\ R("devices") # R("sizes") /\ R("buffer") # R("sizes")
      BY DEF R
    <2>4. ASSUME NEW k \in 1..Len(e), NEW l \in 1..Len(e), e[k] = e[l] PROVE k = l
      <3>1. CASE k \in 1..n
        BY <1>6, <1>7, <2>1, <2>2, <2>4, <3>1
      <3>2. CASE k \notin 1..n
        BY <1>6, <1>7, <2>2, <2>3, <2>4, <3>2
      <3> QED BY <3>1, <3>2
    <2> QED BY <2>4 DEF Distinct
  <1>11. \A k \in 1..Len(e) : \E j \in 1..Len(s) : s[j].does = e[k]
    <2>1. ASSUME NEW k \in 1..n PROVE \E j \in 1..Len(s) : s[j].does = e[k]
      <3>1. k + 1 \in 1..Len(s) /\ s[k + 1].does = e[k]
        BY <1>5, <1>6, <1>8
      <3> QED BY <3>1
    <2>2. /\ 1 \in 1..Len(s) /\ s[1].does = e[n + 1]
          /\ n + 3 \in 1..Len(s) /\ s[n + 3].does = e[n + 2]
          /\ n + 4 \in 1..Len(s) /\ s[n + 4].does = e[n + 3]
      BY <1>5, <1>6, <1>8
    <2> QED BY <1>7, <2>1, <2>2
  <1>12. \A j \in 1..Len(s) : s[j].does = R("offset") \/ \E k \in 1..Len(e) : s[j].does = e[k]
    <2>1. ASSUME NEW d \in 1..n PROVE \E k \in 1..Len(e) : s[d + 1].does = e[k]
      <3>1. d \in 1..Len(e) /\ s[d + 1].does = e[d]
        BY <1>6, <1>8
      <3> QED BY <3>1
    <2>2. /\ n + 1 \in 1..Len(e) /\ s[1].does = e[n + 1]
          /\ n + 2 \in 1..Len(e) /\ s[n + 3].does = e[n + 2]
          /\ n + 3 \in 1..Len(e) /\ s[n + 4].does = e[n + 3]
      BY <1>5, <1>6, <1>8
    <2> QED BY <1>7, <1>8, <2>1, <2>2
  <1>13. \A i \in 1..Len(s) : s[i].does[1] = "misc" => \E j \in 1..i : s[j].does = Misc(1)
    BY <1>5, <1>7, <1>8, Named DEF Names
  <1>14. \A j \in 1..Len(s) : s[j].does \in Facts \cup Elems(e)
    BY <1>12 DEF Elems, Facts
  <1>15. \A i \in 1..Len(s) : Distinct(s[i].undo) /\ \A k \in 1..Len(s[i].undo) :
            \E j \in 1..(i - 1) : s[j].does = s[i].undo[k]
    BY <1>9, NoUndo
  <1>16. Shape(s, e)
    BY <1>5, <1>6, <1>10, <1>11, <1>13, <1>14, <1>15 DEF Shape
  <1> QED BY <1>16 DEF s, e

Ex6Is(n, s, e) ==
    /\ s \in Seq(Steps) /\ Len(s) = n + 2
    /\ e \in Seq(Resources) /\ Len(e) = n + 2
    /\ s[1].does = R("data") /\ s[2].does = R("devices")
    /\ \A d \in 1..n : s[d + 2].does = Misc(d)
    /\ s[1].undo = <<>> /\ s[2].undo = <<R("data")>>
    /\ \A i \in 1..Len(s) : /\ s[i].kind = "tested"
                            /\ i > 2 => s[i].undo = <<R("devices"), R("data")>>
    /\ \A d \in 1..n : e[d] = Misc(d)
    /\ e[n + 1] = R("devices") /\ e[n + 2] = R("data")
    /\ \A i \in 1..Len(s) : i \in {1, 2} \/ \E d \in 1..n : i = d + 2
    /\ \A k \in 1..Len(e) : k \in 1..n \/ k \in {n + 1, n + 2}

\* The script of ex6 is what its definition says, and so is its way back.
LEMMA Ex6Script ==
    ASSUME CountDeviceOn \in Nat
    PROVE  Ex6Is(CountDeviceOn, Ex6Init, Ex6Exit)
  <1> DEFINE n == CountDeviceOn
             s == Ex6Init  e == Ex6Exit
             back == <<R("devices"), R("data")>>
             m == TryAll(MiscUpTo(n), back)
             b == MiscUpTo(n)
             head == <<Try(R("data"), <<>>), Try(R("devices"), <<R("data")>>)>>
  <1>1. /\ R("devices") \in Resources /\ R("data") \in Resources
        /\ back \in Seq(Resources) /\ <<R("data")>> \in Seq(Resources)
    BY Named DEF Names
  <1>2. Try(R("data"), <<>>) \in Steps /\ Try(R("devices"), <<R("data")>>) \in Steps
    BY <1>1, NoUndo, FieldsTry
  <1>3. /\ m \in Seq(Steps) /\ Len(m) = n /\ \A d \in 1..n : m[d] = Try(Misc(d), back)
        /\ b \in Seq(Resources) /\ Len(b) = n /\ \A d \in 1..n : b[d] = Misc(d)
    BY <1>1, Devices
  <1>4. /\ head \in Seq(Steps) /\ Len(head) = 2 /\ head[1] = Try(R("data"), <<>>)
        /\ head[2] = Try(R("devices"), <<R("data")>>)
    BY <1>2
  <1>15. s = head \o m
    BY DEF Ex6Init
  <1> HIDE DEF m, b, head
  <1>5. /\ s \in Seq(Steps) /\ Len(s) = n + 2
        /\ s[1] = Try(R("data"), <<>>) /\ s[2] = Try(R("devices"), <<R("data")>>)
        /\ \A d \in 1..n : s[d + 2] = Try(Misc(d), back)
    <2>1. /\ s \in Seq(Steps) /\ Len(s) = Len(head) + Len(m)
          /\ \A i \in 1..Len(head) : s[i] = head[i]
          /\ \A i \in 1..Len(m) : s[i + Len(head)] = m[i]
      <3>1. /\ head \o m \in Seq(Steps) /\ Len(head \o m) = Len(head) + Len(m)
            /\ \A i \in 1..Len(head) : (head \o m)[i] = head[i]
            /\ \A i \in 1..Len(m) : (head \o m)[i + Len(head)] = m[i]
        <4>1. head \in Seq(Steps) /\ m \in Seq(Steps)
          BY <1>3, <1>4
        <4> QED BY <4>1, Joined
      <3> QED BY <1>15, <3>1, Zenon
    <2>2. s[1] = head[1] /\ s[2] = head[2]
      BY <1>4, <2>1
    <2>3. \A d \in 1..n : s[d + 2] = m[d]
      BY <1>3, <1>4, <2>1
    <2>4. Len(s) = n + 2
      BY <1>3, <1>4, <2>1
    <2>5. \A d \in 1..n : s[d + 2] = Try(Misc(d), back)
      BY <1>3, <2>3
    <2> HIDE DEF s
    <2> QED BY <1>4, <2>1, <2>2, <2>4, <2>5
  <1>6. /\ e \in Seq(Resources) /\ Len(e) = n + 2
        /\ \A d \in 1..n : e[d] = Misc(d)
        /\ e[n + 1] = R("devices") /\ e[n + 2] = R("data")
    BY <1>1, <1>3 DEF Ex6Exit, b
  <1>7. /\ \A i \in 1..Len(s) : i \in {1, 2} \/ \E d \in 1..n : i = d + 2
        /\ \A k \in 1..Len(e) : k \in 1..n \/ k \in {n + 1, n + 2}
    <2>1. ASSUME NEW i \in 1..Len(s), i \notin {1, 2} PROVE \E d \in 1..n : i = d + 2
      <3>1. i - 2 \in 1..n /\ i = (i - 2) + 2
        BY <1>5, <2>1
      <3> QED BY <3>1
    <2> QED BY <2>1, <1>6
  <1> HIDE DEF s, e, back
  <1>8. /\ s[1].does = R("data") /\ s[2].does = R("devices")
        /\ \A d \in 1..n : s[d + 2].does = Misc(d)
    BY <1>5, Fields
  <1>9. s[1].undo = <<>> /\ s[2].undo = <<R("data")>>
    BY <1>5, Fields
  <1>10. \A i \in 1..Len(s) : /\ s[i].kind = "tested"
                              /\ i > 2 => s[i].undo = back
    <2>1. ASSUME NEW d \in 1..n PROVE s[d + 2].undo = back /\ s[d + 2].kind = "tested"
      <3>1. s[d + 2] = Try(Misc(d), back)
        BY <1>5
      <3> QED BY <3>1, Fields
    <2>2. \A i \in {1, 2} : s[i].kind = "tested" /\ ~(i > 2)
      BY <1>5, Fields
    <2> QED BY <1>7, <2>1, <2>2
  <1>11. Ex6Is(n, s, e)
    BY <1>5, <1>6, <1>7, <1>8, <1>9, <1>10 DEF Ex6Is, back
  <1> QED BY <1>11 DEF s, e

LEMMA Ex6Shape ==
    ASSUME CountDeviceOn \in Nat
    PROVE  Shape(Ex6Init, Ex6Exit)
  <1> DEFINE n == CountDeviceOn
             s == Ex6Init  e == Ex6Exit
             back == <<R("devices"), R("data")>>
  <1>1. Ex6Is(n, s, e)
    BY Ex6Script
  <1> HIDE DEF s, e, back
  <1>5. /\ s \in Seq(Steps) /\ Len(s) = n + 2
    BY <1>1 DEF Ex6Is
  <1>6. /\ e \in Seq(Resources) /\ Len(e) = n + 2
        /\ \A d \in 1..n : e[d] = Misc(d)
        /\ e[n + 1] = R("devices") /\ e[n + 2] = R("data")
    BY <1>1 DEF Ex6Is
  <1>7. /\ \A i \in 1..Len(s) : i \in {1, 2} \/ \E d \in 1..n : i = d + 2
        /\ \A k \in 1..Len(e) : k \in 1..n \/ k \in {n + 1, n + 2}
    BY <1>1 DEF Ex6Is
  <1>8. /\ s[1].does = R("data") /\ s[2].does = R("devices")
        /\ \A d \in 1..n : s[d + 2].does = Misc(d)
    BY <1>1 DEF Ex6Is
  <1>9. Distinct(e)
    <2>1. \A k, l \in 1..n : Misc(k) = Misc(l) => k = l
      BY DEF Misc
    <2>2. \A k \in 1..n : Misc(k) \notin {R("devices"), R("data")}
      BY DEF Misc, R
    <2>3. R("devices") # R("data")
      BY DEF R
    <2>4. ASSUME NEW k \in 1..Len(e), NEW l \in 1..Len(e), e[k] = e[l] PROVE k = l
      <3>1. CASE k \in 1..n
        BY <1>6, <1>7, <2>1, <2>2, <2>4, <3>1
      <3>2. CASE k \notin 1..n
        BY <1>6, <1>7, <2>2, <2>3, <2>4, <3>2
      <3> QED BY <3>1, <3>2
    <2> QED BY <2>4 DEF Distinct
  <1>10. \A k \in 1..Len(e) : \E j \in 1..Len(s) : s[j].does = e[k]
    <2>1. ASSUME NEW k \in 1..n PROVE \E j \in 1..Len(s) : s[j].does = e[k]
      <3>1. k + 2 \in 1..Len(s) /\ s[k + 2].does = e[k]
        BY <1>5, <1>6, <1>8
      <3> QED BY <3>1
    <2>2. /\ 2 \in 1..Len(s) /\ s[2].does = e[n + 1]
          /\ 1 \in 1..Len(s) /\ s[1].does = e[n + 2]
      BY <1>5, <1>6, <1>8
    <2> QED BY <1>7, <2>1, <2>2
  <1>11. \A j \in 1..Len(s) : \E k \in 1..Len(e) : s[j].does = e[k]
    <2>1. ASSUME NEW d \in 1..n PROVE \E k \in 1..Len(e) : s[d + 2].does = e[k]
      <3>1. d \in 1..Len(e) /\ s[d + 2].does = e[d]
        BY <1>6, <1>8
      <3> QED BY <3>1
    <2>2. /\ n + 1 \in 1..Len(e) /\ s[2].does = e[n + 1]
          /\ n + 2 \in 1..Len(e) /\ s[1].does = e[n + 2]
      BY <1>5, <1>6, <1>8
    <2> QED BY <1>7, <2>1, <2>2
  <1>12. \A i \in 1..Len(s) :
           /\ Distinct(s[i].undo)
           /\ \A k \in 1..Len(s[i].undo) :
                \E j \in 1..(i - 1) : s[j].does = s[i].undo[k]
    <2>1. s[1].undo = <<>> /\ s[2].undo = <<R("data")>>
      BY <1>1 DEF Ex6Is
    <2>3. Distinct(<<R("data")>>) /\ Distinct(back)
      BY DEF Distinct, R, back
    <2>4. ASSUME NEW i \in 1..Len(s), i \notin {1, 2}
          PROVE  \A k \in 1..Len(back) : \E j \in 1..(i - 1) : s[j].does = back[k]
      <3>1. 1 \in 1..(i - 1) /\ 2 \in 1..(i - 1)
        BY <2>4, <1>5
      <3>2. Len(back) = 2 /\ back[1] = s[2].does /\ back[2] = s[1].does
        BY <1>8 DEF back
      <3> QED BY <3>1, <3>2
    <2>5. \A k \in 1..Len(<<R("data")>>) : \E j \in 1..1 : s[j].does = <<R("data")>>[k]
      BY <1>8
    <2>6. \A i \in 1..Len(s) : i \notin {1, 2} => s[i].undo = back
      BY <1>1, <1>5 DEF Ex6Is, back
    <2> QED BY <2>1, <2>3, <2>4, <2>5, <2>6, NoUndo
  <1>13. \A i \in 1..Len(s) : s[i].does[1] = "misc" => \E j \in 1..i : s[j].does = Misc(1)
    <2>1. \A i \in {1, 2} : s[i].does[1] # "misc"
      BY <1>8, Named DEF Names
    <2>2. ASSUME NEW i \in 1..Len(s), i \notin {1, 2} PROVE \E j \in 1..i : s[j].does = Misc(1)
      <3>1. n >= 1 /\ 3 \in 1..i /\ s[3].does = Misc(1)
        BY <1>5, <1>8, <2>2
      <3> QED BY <3>1
    <2> QED BY <2>1, <2>2
  <1>14. \A j \in 1..Len(s) : s[j].does \in Elems(e)
    BY <1>11 DEF Elems
  <1> QED BY <1>5, <1>6, <1>9, <1>10, <1>12, <1>13, <1>14 DEF Shape, s, e

\* The steps of three keys, one by one.
LEMMA KeysScript ==
    /\ KeysInit \in Seq(Steps) /\ Len(KeysInit) = 9
    /\ KeysInit[1] = Try(<<"gpio", 1>>, <<>>) /\ KeysInit[2] = Log(<<"number", 1>>)
    /\ KeysInit[3] = Try(<<"gpio", 2>>, <<>>) /\ KeysInit[4] = Log(<<"number", 2>>)
    /\ KeysInit[5] = Try(<<"gpio", 3>>, <<>>) /\ KeysInit[6] = Log(<<"number", 3>>)
    /\ KeysInit[7] = Log(<<"irq", 1>>) /\ KeysInit[8] = Log(<<"irq", 2>>)
    /\ KeysInit[9] = Log(<<"irq", 3>>)
  <1> DEFINE a == [i \in 1..6 |-> IF i % 2 = 1 THEN Try(<<"gpio", (i + 1) \div 2>>, <<>>)
                                  ELSE Log(<<"number", i \div 2>>)]
             b == [key \in 1..3 |-> Log(<<"irq", key>>)]
  <1>1. \A key \in 1..3 : /\ <<"gpio", key>> \in Resources
                          /\ <<"number", key>> \in Resources
                          /\ <<"irq", key>> \in Resources
    BY DEF Resources, Names
  <1>2. \A key \in 1..3 : /\ Try(<<"gpio", key>>, <<>>) \in Steps
                          /\ Log(<<"number", key>>) \in Steps
                          /\ Log(<<"irq", key>>) \in Steps
    BY <1>1, NoUndo, FieldsTry
  <1>3. /\ a[1] = Try(<<"gpio", 1>>, <<>>) /\ a[2] = Log(<<"number", 1>>)
        /\ a[3] = Try(<<"gpio", 2>>, <<>>) /\ a[4] = Log(<<"number", 2>>)
        /\ a[5] = Try(<<"gpio", 3>>, <<>>) /\ a[6] = Log(<<"number", 3>>)
        /\ b[1] = Log(<<"irq", 1>>) /\ b[2] = Log(<<"irq", 2>>) /\ b[3] = Log(<<"irq", 3>>)
    OBVIOUS
  <1>4. \A i \in 1..6 : a[i] \in Steps
    <2> HIDE DEF a, b
    <2>1. \A i \in 1..6 : i \in {1, 2, 3, 4, 5, 6}
      OBVIOUS
    <2>2. \A i \in {1, 2, 3, 4, 5, 6} : a[i] \in Steps
      BY <1>2, <1>3
    <2> QED BY <2>1, <2>2
  <1>5. a \in Seq(Steps) /\ b \in Seq(Steps)
    BY <1>2, <1>4
  <1>6. Len(a) = 6 /\ Len(b) = 3
    OBVIOUS
  <1>7. KeysInit = a \o b
    BY DEF KeysInit
  <1> HIDE DEF a, b
  <1> DEFINE c == a \o b
  <1>8. /\ c \in Seq(Steps) /\ Len(c) = Len(a) + Len(b)
        /\ \A i \in 1..Len(a) : c[i] = a[i]
        /\ \A i \in 1..Len(b) : c[i + Len(a)] = b[i]
    BY <1>5, Joined
  <1>9. KeysInit = c
    BY <1>7
  <1> HIDE DEF c
  <1>10. c \in Seq(Steps) /\ Len(c) = 9 /\ KeysInit = c
    BY <1>6, <1>8, <1>9
  <1>11. /\ \A i \in 1..6 : c[i] = a[i]
         /\ \A i \in 1..3 : c[i + 6] = b[i]
    BY <1>6, <1>8
  <1>12. /\ c[1] = a[1] /\ c[2] = a[2] /\ c[3] = a[3] /\ c[4] = a[4] /\ c[5] = a[5]
         /\ c[6] = a[6] /\ c[1 + 6] = b[1] /\ c[2 + 6] = b[2] /\ c[3 + 6] = b[3]
    BY <1>11
  <1>13. c[7] = b[1] /\ c[8] = b[2] /\ c[9] = b[3]
    BY <1>12
  <1> QED BY <1>3, <1>10, <1>12, <1>13

\* What the two exercises with interrupts give back.
KeysExit == Keys3("gpio") \o Keys3("irq")
LEMMA KeysBack ==
    /\ KeysExit \in Seq(Resources) /\ Len(KeysExit) = 6
    /\ KeysExit[1] = <<"gpio", 1>> /\ KeysExit[2] = <<"gpio", 2>> /\ KeysExit[3] = <<"gpio", 3>>
    /\ KeysExit[4] = <<"irq", 1>> /\ KeysExit[5] = <<"irq", 2>> /\ KeysExit[6] = <<"irq", 3>>
  <1> DEFINE a == Keys3("gpio")  b == Keys3("irq")
  <1>1. \A key \in 1..3 : <<"gpio", key>> \in Resources /\ <<"irq", key>> \in Resources
    BY DEF Resources, Names
  <1>2. a \in Seq(Resources) /\ b \in Seq(Resources)
    BY <1>1 DEF Keys3
  <1>3. /\ Len(a) = 3 /\ Len(b) = 3
        /\ a[1] = <<"gpio", 1>> /\ a[2] = <<"gpio", 2>> /\ a[3] = <<"gpio", 3>>
        /\ b[1] = <<"irq", 1>> /\ b[2] = <<"irq", 2>> /\ b[3] = <<"irq", 3>>
    BY DEF Keys3
  <1> HIDE DEF a, b
  <1>4. /\ a \o b \in Seq(Resources) /\ Len(a \o b) = Len(a) + Len(b)
        /\ \A i \in 1..Len(a) : (a \o b)[i] = a[i]
        /\ \A i \in 1..Len(b) : (a \o b)[i + Len(a)] = b[i]
    BY <1>2, Joined
  <1>5. KeysExit = a \o b
    BY DEF KeysExit, a, b
  <1> QED BY <1>3, <1>4, <1>5

\* None of them undoes anything or registers a device.
LEMMA KeysPlain ==
    \A i \in 1..9 : /\ KeysInit[i].undo = <<>> /\ KeysInit[i].does[1] # "misc"
                    /\ KeysInit[i].kind \in {"tested", "logged"}
  <1>1. \A i \in {1, 2, 3, 4, 5, 6, 7, 8, 9} :
          /\ KeysInit[i].undo = <<>> /\ KeysInit[i].does[1] # "misc"
          /\ KeysInit[i].kind \in {"tested", "logged"}
    BY KeysScript, Fields
  <1>2. 1..9 = {1, 2, 3, 4, 5, 6, 7, 8, 9}
    OBVIOUS
  <1> QED BY <1>1, <1>2

\* Its way back gives back all that is not a mere fact.
LEMMA Irq6Shape == Shape(Irq6Init, Irq6Exit)
  <1> DEFINE s == Irq6Init  e == Irq6Exit
  <1>1. /\ s \in Seq(Steps) /\ Len(s) = 9
        /\ s[1].does = <<"gpio", 1>> /\ s[2].does = <<"number", 1>>
        /\ s[3].does = <<"gpio", 2>> /\ s[4].does = <<"number", 2>>
        /\ s[5].does = <<"gpio", 3>> /\ s[6].does = <<"number", 3>>
        /\ s[7].does = <<"irq", 1>> /\ s[8].does = <<"irq", 2>> /\ s[9].does = <<"irq", 3>>
    BY KeysScript, Fields DEF Irq6Init
  <1>2. \A i \in {1, 2, 3, 4, 5, 6, 7, 8, 9} : s[i].undo = <<>>
    BY KeysScript, Fields DEF Irq6Init
  <1>3. /\ e \in Seq(Resources) /\ Len(e) = 6
        /\ e[1] = <<"gpio", 1>> /\ e[2] = <<"gpio", 2>> /\ e[3] = <<"gpio", 3>>
        /\ e[4] = <<"irq", 1>> /\ e[5] = <<"irq", 2>> /\ e[6] = <<"irq", 3>>
    BY KeysBack DEF Irq6Exit, KeysExit
  <1>4. 1..9 = {1, 2, 3, 4, 5, 6, 7, 8, 9} /\ 1..6 = {1, 2, 3, 4, 5, 6}
    OBVIOUS
  <1> HIDE DEF s, e
  <1>5. Distinct(e)
    BY <1>3, <1>4 DEF Distinct
  <1>6. \A k \in {1, 2, 3, 4, 5, 6} : \E j \in {1, 2, 3, 4, 5, 6, 7, 8, 9} : s[j].does = e[k]
    BY <1>1, <1>3
  <1>7. \A j \in {1, 3, 5, 7, 8, 9} : \E k \in {1, 2, 3, 4, 5, 6} : s[j].does = e[k]
    BY <1>1, <1>3
  <1>8. \A j \in {2, 4, 6} : s[j].does \in Facts
    <2>1. \A key \in 1..3 : <<"number", key>> \in Facts
      BY DEF Facts
    <2>2. <<"number", 1>> \in Facts /\ <<"number", 2>> \in Facts /\ <<"number", 3>> \in Facts
      BY <2>1
    <2> QED BY <1>1, <2>2
  <1>9. \A i \in {1, 2, 3, 4, 5, 6, 7, 8, 9} : s[i].does[1] # "misc"
    BY <1>1
  <1>10. \A j \in 1..9 : s[j].does \in Facts \cup Elems(e)
    BY <1>3, <1>4, <1>7, <1>8 DEF Elems
  <1>11. \A i \in 1..9 : s[i].undo = <<>> /\ s[i].does[1] # "misc"
    BY <1>2, <1>4, <1>9
  <1>12. \A k \in 1..6 : \E j \in 1..9 : s[j].does = e[k]
    BY <1>4, <1>6
  <1>13. \A i \in 1..9 : Distinct(s[i].undo) /\ \A k \in 1..Len(s[i].undo) :
            \E j \in 1..(i - 1) : s[j].does = s[i].undo[k]
    <2>1. ASSUME NEW i \in 1..9
          PROVE  Distinct(s[i].undo) /\ Len(s[i].undo) = 0
      BY <1>11, NoUndo, Zenon
    <2>2. 1..0 = {}
      OBVIOUS
    <2> QED BY <2>1, <2>2, Zenon
  <1>14. Shape(s, e)
    BY <1>1, <1>3, <1>5, <1>10, <1>11, <1>12, <1>13 DEF Shape
  <1> QED BY <1>14 DEF s, e

\* ex7 has a device before the keys, and gives it back after them.
Ex7Is(s, e) ==
    /\ s \in Seq(Steps) /\ Len(s) = 10 /\ s[1] = Try(Misc(1), <<>>)
    /\ \A i \in 1..9 : s[i + 1] = KeysInit[i]
    /\ e \in Seq(Resources) /\ Len(e) = 7 /\ e[7] = Misc(1)
    /\ \A i \in 1..6 : e[i] = KeysExit[i]

LEMMA Ex7Script == Ex7Is(Ex7Init, Ex7Exit)
  <1> DEFINE s == Ex7Init  e == Ex7Exit
             h == <<Try(Misc(1), <<>>)>>
             t == <<Misc(1)>>
  <1>1. Misc(1) \in Resources /\ Misc(1)[1] = "misc"
    BY Named
  <1>2. Try(Misc(1), <<>>) \in Steps
    BY <1>1, NoUndo, FieldsTry
  <1>3. h \in Seq(Steps) /\ t \in Seq(Resources)
    BY <1>1, <1>2
  <1>4. h[1] = Try(Misc(1), <<>>) /\ Len(h) = 1 /\ t[1] = Misc(1) /\ Len(t) = 1
    OBVIOUS
  <1>5. s = h \o KeysInit /\ e = KeysExit \o t
    BY DEF Ex7Init, Ex7Exit, KeysExit
  <1>6. KeysInit \in Seq(Steps) /\ KeysExit \in Seq(Resources)
    BY KeysScript, KeysBack
  <1> HIDE DEF h, t, s, e
  <1>7. /\ h \o KeysInit \in Seq(Steps) /\ Len(h \o KeysInit) = Len(h) + Len(KeysInit)
        /\ \A i \in 1..Len(h) : (h \o KeysInit)[i] = h[i]
        /\ \A i \in 1..Len(KeysInit) : (h \o KeysInit)[i + Len(h)] = KeysInit[i]
    BY <1>3, <1>6, Joined
  <1>8. /\ KeysExit \o t \in Seq(Resources) /\ Len(KeysExit \o t) = Len(KeysExit) + Len(t)
        /\ \A i \in 1..Len(KeysExit) : (KeysExit \o t)[i] = KeysExit[i]
        /\ \A i \in 1..Len(t) : (KeysExit \o t)[i + Len(KeysExit)] = t[i]
    BY <1>3, <1>6, Joined
  <1>9. /\ s \in Seq(Steps) /\ Len(s) = 10 /\ s[1] = h[1]
        /\ \A i \in 1..9 : s[i + 1] = KeysInit[i]
    <2>1. /\ s \in Seq(Steps) /\ Len(s) = Len(h) + Len(KeysInit)
          /\ \A i \in 1..Len(h) : s[i] = h[i]
          /\ \A i \in 1..Len(KeysInit) : s[i + Len(h)] = KeysInit[i]
      BY <1>5, <1>7
    <2>2. Len(KeysInit) = 9
      BY KeysScript
    <2> QED BY <1>4, <2>1, <2>2
  <1>10. /\ e \in Seq(Resources) /\ Len(e) = 7 /\ e[7] = Misc(1)
         /\ \A i \in 1..6 : e[i] = KeysExit[i]
    <2>1. /\ e \in Seq(Resources) /\ Len(e) = Len(KeysExit) + Len(t)
          /\ \A i \in 1..Len(KeysExit) : e[i] = KeysExit[i]
          /\ \A i \in 1..Len(t) : e[i + Len(KeysExit)] = t[i]
      BY <1>5, <1>8
    <2>2. Len(KeysExit) = 6
      BY KeysBack
    <2>3. e[1 + 6] = t[1]
      BY <1>4, <2>1, <2>2
    <2> QED BY <1>4, <2>1, <2>2, <2>3
  <1>11. Ex7Is(s, e)
    BY <1>4, <1>9, <1>10 DEF Ex7Is
  <1> QED BY <1>11 DEF s, e

LEMMA Ex7Shape == Shape(Ex7Init, Ex7Exit)
  <1> DEFINE s == Ex7Init  e == Ex7Exit
  <1>1. Misc(1)[1] = "misc"
    BY Named
  <1>2. Ex7Is(s, e)
    BY Ex7Script
  <1> HIDE DEF s, e
  <1>9. /\ s \in Seq(Steps) /\ Len(s) = 10
        /\ \A i \in 1..9 : s[i + 1] = KeysInit[i]
    BY <1>2 DEF Ex7Is
  <1>10. /\ e \in Seq(Resources) /\ Len(e) = 7 /\ e[7] = Misc(1)
         /\ \A i \in 1..6 : e[i] = KeysExit[i]
    BY <1>2 DEF Ex7Is
  <1>11. /\ \A i \in 1..10 : i = 1 \/ \E j \in 1..9 : i = j + 1
         /\ \A k \in 1..7 : k = 7 \/ k \in 1..6
    <2>1. ASSUME NEW i \in 1..10, i # 1 PROVE i - 1 \in 1..9 /\ i = (i - 1) + 1
      BY <2>1
    <2> QED BY <2>1
  <1>12. /\ Len(KeysInit) = 9 /\ Len(KeysExit) = 6 /\ Distinct(KeysExit)
         /\ \A k \in 1..6 : \E j \in 1..9 : KeysInit[j].does = KeysExit[k]
         /\ \A j \in 1..9 : KeysInit[j].does \in Facts \cup Elems(KeysExit)
         /\ \A i \in 1..9 : KeysInit[i].undo = <<>> /\ KeysInit[i].does[1] # "misc"
    BY Irq6Shape, KeysScript, KeysBack, KeysPlain DEF Shape, Irq6Init, Irq6Exit, KeysExit
  <1>13. s[1].does = Misc(1) /\ s[1].undo = <<>>
    BY <1>2, Fields DEF Ex7Is
  <1>14. \A i \in 1..10 : s[i].undo = <<>>
    BY <1>9, <1>11, <1>12, <1>13
  <1>15. \A i \in 1..10 : Distinct(s[i].undo) /\ \A k \in 1..Len(s[i].undo) :
            \E j \in 1..(i - 1) : s[j].does = s[i].undo[k]
    BY <1>14, NoUndo
  <1>16. \A k \in 1..6 : KeysExit[k] # Misc(1)
    <2>1. \A k \in 1..6 : KeysExit[k][1] # "misc"
      BY <1>12
    <2> QED BY <1>1, <2>1
  <1>17. Distinct(e)
    BY <1>10, <1>11, <1>12, <1>16 DEF Distinct
  <1>18. \A k \in 1..7 : \E j \in 1..10 : s[j].does = e[k]
    <2>1. ASSUME NEW k \in 1..6 PROVE \E j \in 1..10 : s[j].does = e[k]
      <3>1. PICK j \in 1..9 : KeysInit[j].does = KeysExit[k]
        BY <1>12
      <3>2. j + 1 \in 1..10 /\ s[j + 1].does = e[k]
        <4>1. s[j + 1] = KeysInit[j] /\ e[k] = KeysExit[k]
          BY <1>9, <1>10
        <4> QED BY <3>1, <4>1
      <3> QED BY <3>2
    <2> QED BY <1>10, <1>11, <1>13, <2>1
  <1>19. \A j \in 1..10 : s[j].does \in Facts \cup Elems(e)
    <2>1. Elems(KeysExit) \subseteq Elems(e) /\ Misc(1) \in Elems(e)
      BY <1>10, <1>12 DEF Elems
    <2> QED BY <1>9, <1>11, <1>12, <1>13, <2>1
  <1>20. \A i \in 1..10 : 1 \in 1..i
    <2> HIDE DEF s, e
    <2> QED OBVIOUS
  <1>21. Shape(s, e)
    BY <1>9, <1>10, <1>13, <1>15, <1>17, <1>18, <1>19, <1>20 DEF Shape
  <1> QED BY <1>21 DEF s, e

\* Devices are counted.
LEMMA CountIsNat == CountDeviceOn \in Nat /\ NbDevices \in Nat
  <1>1. DOMAIN Children = 1..Len(Children) /\ Len(Children) \in Nat
    BY SizesAssumption
  <1>2. IsFiniteSet(DOMAIN Children)
    BY <1>1, FS_Interval
  <1>3. {c \in DOMAIN Children : Children[c] = "on"} \subseteq DOMAIN Children
    OBVIOUS
  <1> QED BY <1>2, <1>3, FS_Subset, FS_CardinalityType, SizesAssumption DEF CountDeviceOn

\* Every script and its way back have that shape.
LEMMA ScriptShape ==
    ASSUME prog \in AllPrograms
    PROVE  Shape(Script, ExitScript)
  <1>2. Shape(OneInit, OneExit) /\ Shape(Ex3Init, Ex3Exit) /\ Shape(BareInit, BareExit)
    BY CountIsNat, LateShape DEF OneInit, OneExit, Ex3Init, Ex3Exit, BareInit, BareExit
  <1> QED BY CountIsNat, <1>2, Ex2Shape, BusShape, Ex5Shape, Ex6Shape, Ex7Shape, Irq6Shape
          DEF AllPrograms, Script, ExitScript

-----------------------------------------------------------------------------
(* What each script has of its own.                                        *)

LEMMA Ex5Steps ==
    /\ Len(Ex5Init) = 6
    /\ \A i \in 1..6 : Ex5Init[i].kind \in {"tested", "untested"}
    /\ \A i \in 1..6 : Ex5Init[i].kind = "tested" =>
         \A j \in 1..(i - 1) : Ex5Init[j].does \in Elems(Ex5Init[i].undo)
  <1> DEFINE s == Ex5Init
             u2 == <<Misc(1)>>
             u3 == <<R("platform"), Misc(1)>>
             u6 == <<R("device"), R("class"), R("file"), R("platform"), Misc(1)>>
  <1>1. /\ Len(s) = 6 /\ s[1] = Try(Misc(1), <<>>)
        /\ s[2] = Try(R("platform"), u2)
        /\ s[3] = Try(R("file"), u3)
        /\ s[4] = Trust(R("class")) /\ s[5] = Trust(R("device"))
        /\ s[6] = Try(R("group"), u6)
    BY DEF Ex5Init
  <1>2. /\ Misc(1) \in Elems(u2) /\ Misc(1) \in Elems(u3) /\ R("platform") \in Elems(u3)
        /\ Misc(1) \in Elems(u6) /\ R("platform") \in Elems(u6) /\ R("file") \in Elems(u6)
        /\ R("class") \in Elems(u6) /\ R("device") \in Elems(u6)
    BY DEF Elems
  <1> HIDE DEF s, u2, u3, u6
  <1>3. /\ s[1].does = Misc(1) /\ s[2].does = R("platform") /\ s[3].does = R("file")
        /\ s[4].does = R("class") /\ s[5].does = R("device")
        /\ s[2].undo = u2 /\ s[3].undo = u3 /\ s[6].undo = u6
        /\ s[4].kind = "untested" /\ s[5].kind = "untested"
    BY <1>1, Fields
  <1>4. 1..6 = {1, 2, 3, 4, 5, 6} /\ 1..5 = {1, 2, 3, 4, 5} /\ 1..2 = {1, 2} /\ 1..1 = {1} /\ 1..0 = {}
    OBVIOUS
  <1>5. /\ \A j \in 1..1 : s[j].does \in Elems(u2)
        /\ \A j \in 1..2 : s[j].does \in Elems(u3)
        /\ \A j \in 1..5 : s[j].does \in Elems(u6)
    BY <1>2, <1>3, <1>4
  <1>6. \A i \in {1, 2, 3, 4, 5, 6} : s[i].kind \in {"tested", "untested"}
    BY <1>1, Fields
  <1>7. \A i \in {1, 2, 3, 4, 5, 6} : s[i].kind = "tested" =>
          \A j \in 1..(i - 1) : s[j].does \in Elems(s[i].undo)
    BY <1>3, <1>4, <1>5
  <1> QED BY <1>1, <1>4, <1>6, <1>7 DEF s

LEMMA BusSteps ==
    /\ Len(BusInit) = 3
    /\ \A i \in 1..3 : BusInit[i].kind = "tested"
    /\ \A i \in 1..3 :
         \A j \in 1..(i - 1) : BusInit[j].does \in Elems(BusInit[i].undo)
  <1> DEFINE s == BusInit
             u2 == <<Misc(1)>>
             u3 == <<R("platform"), Misc(1)>>
  <1>1. /\ Len(s) = 3 /\ s[1] = Try(Misc(1), <<>>)
        /\ s[2] = Try(R("platform"), u2) /\ s[3] = Try(R("file"), u3)
    BY DEF BusInit
  <1>2. Misc(1) \in Elems(u2) /\ Misc(1) \in Elems(u3) /\ R("platform") \in Elems(u3)
    BY DEF Elems
  <1> HIDE DEF s, u2, u3
  <1>3. /\ s[1].does = Misc(1) /\ s[2].does = R("platform")
        /\ s[2].undo = u2 /\ s[3].undo = u3
    BY <1>1, Fields
  <1>4. 1..3 = {1, 2, 3} /\ 1..2 = {1, 2} /\ 1..1 = {1} /\ 1..0 = {}
    OBVIOUS
  <1>5. /\ \A j \in 1..1 : s[j].does \in Elems(u2)
        /\ \A j \in 1..2 : s[j].does \in Elems(u3)
    BY <1>2, <1>3, <1>4
  <1>6. \A i \in {1, 2, 3} : s[i].kind = "tested"
    BY <1>1, Fields
  <1>7. \A i \in {1, 2, 3} : \A j \in 1..(i - 1) : s[j].does \in Elems(s[i].undo)
    BY <1>3, <1>4, <1>5
  <1> QED BY <1>1, <1>4, <1>6, <1>7 DEF s

\* Exercises over one allocated array.
Sharing == {"ex3", "bare", "one"}

\* Their scripts are those of some number of devices.
LEMMA SharingScript ==
    ASSUME prog \in Sharing
    PROVE  \E n \in Nat : Script = LateInit(n) /\ ExitScript = LateExit(n)
  <1>1. CASE prog = "ex3"
    BY <1>1, CountIsNat DEF Script, ExitScript, Ex3Init, Ex3Exit
  <1>2. CASE prog = "bare"
    BY <1>2 DEF Script, ExitScript, BareInit, BareExit
  <1>3. CASE prog = "one"
    BY <1>3, CountIsNat DEF Script, ExitScript, OneInit, OneExit
  <1> QED BY <1>1, <1>2, <1>3 DEF Sharing

\* Only interrupts are logged, only a class and its device are not tested, and
\* only a first device that is not there ends it all.
LEMMA ScriptKinds ==
    ASSUME prog \in AllPrograms
    PROVE  \A i \in 1..Len(Script) : /\ Script[i].kind = "logged" => prog \in Logging
                                     /\ Script[i].kind = "untested" => prog = "ex5"
                                     /\ Script[i].kind = "fatal" => prog \in Sharing
  <1>1. CASE prog = "ex2"
    <2>1. Len(Ex2Init) = 1 /\ Ex2Init[1].kind = "tested"
      BY DEF Ex2Init, Try
    <2>2. Script = Ex2Init
      BY <1>1 DEF Script
    <2>3. \A i \in 1..1 : i = 1
      OBVIOUS
    <2> QED BY <2>1, <2>2, <2>3
  <1>2. CASE prog = "bus"
    BY <1>2, BusSteps DEF Script
  <1>3. CASE prog = "ex5"
    BY <1>3, Ex5Steps DEF Script
  <1>4. CASE prog \in Sharing
    <2>1. PICK n \in Nat : Script = LateInit(n)
      BY <1>4, SharingScript
    <2> QED BY <1>4, <2>1, LateScript DEF LateIs
  <1>5. CASE prog = "ex6"
    BY <1>5, CountIsNat, Ex6Script DEF Ex6Is, Script
  <1>6. CASE prog = "ex7"
    <2>1. \A i \in 1..10 : Ex7Init[i].kind \in {"tested", "logged"}
      <3>1. Ex7Init[1].kind = "tested"
        BY Ex7Script, Fields DEF Ex7Is
      <3>2. ASSUME NEW i \in 2..10 PROVE Ex7Init[i].kind \in {"tested", "logged"}
        <4>1. i - 1 \in 1..9 /\ (i - 1) + 1 = i
          OBVIOUS
        <4>2. Ex7Init[(i - 1) + 1] = KeysInit[i - 1]
          BY <4>1, Ex7Script DEF Ex7Is
        <4> QED BY <4>1, <4>2, KeysPlain
      <3> QED BY <3>1, <3>2
    <2> QED BY <1>6, <2>1, Ex7Script DEF Ex7Is, Script, Logging
  <1>7. CASE prog = "irq6"
    BY <1>7, KeysScript, KeysPlain DEF Script, Irq6Init, Logging
  <1> QED BY <1>1, <1>2, <1>3, <1>4, <1>5, <1>6, <1>7 DEF AllPrograms, Sharing

\* The exercises that undo their steps undo all of them.
LEMMA TidyUndo ==
    ASSUME prog \in Tidy
    PROVE  \A i \in 1..Len(Script) : Script[i].kind = "tested" =>
             \A j \in 1..(i - 1) : Script[j].does \in Elems(Script[i].undo)
  <1>1. CASE prog = "ex2"
    <2>1. Len(Ex2Init) = 1
      BY DEF Ex2Init
    <2>2. Script = Ex2Init
      BY <1>1 DEF Script
    <2>3. \A i \in 1..1 : \A j \in 1..(i - 1) : FALSE
      OBVIOUS
    <2> QED BY <2>1, <2>2, <2>3
  <1>2. CASE prog = "bus"
    BY <1>2, BusSteps DEF Script
  <1>3. CASE prog = "ex5"
    BY <1>3, Ex5Steps DEF Script
  <1> QED BY <1>1, <1>2, <1>3 DEF Tidy

\* The exercises that share an array acquire it and its sizes.
LEMMA SharedSteps ==
    ASSUME prog \in Sharing
    PROVE  \A r \in {R("offset"), R("buffer"), R("sizes")} :
             \E i \in 1..Len(Script) : Script[i].does = r
  <1>1. PICK n \in Nat : Script = LateInit(n)
    BY SharingScript
  <1>2. /\ Len(Script) = n + 4 /\ Script[n + 2].does = R("offset")
        /\ Script[n + 3].does = R("buffer") /\ Script[n + 4].does = R("sizes")
    BY <1>1, LateScript DEF LateIs
  <1>3. n + 2 \in 1..(n + 4) /\ n + 3 \in 1..(n + 4) /\ n + 4 \in 1..(n + 4)
    OBVIOUS
  <1> QED BY <1>2, <1>3

\* A device of ex6 comes after the structure of the devices.
LEMMA OwnSteps ==
    ASSUME prog = "ex6"
    PROVE  \A i \in 1..Len(Script) : Script[i].does[1] = "misc" =>
             \E j \in 1..(i - 1) : Script[j].does = R("devices")
  <1>1. /\ Script[1].does[1] # "misc" /\ Script[2].does = R("devices")
        /\ Script[2].does[1] # "misc"
    BY CountIsNat, Ex6Script, Named DEF Ex6Is, Script, Names
  <1>2. ASSUME NEW i \in 1..Len(Script), i \notin {1, 2} PROVE 2 \in 1..(i - 1)
    <2>1. Len(Script) \in Nat
      BY CountIsNat, Ex6Script DEF Ex6Is, Script
    <2> QED BY <1>2, <2>1
  <1> QED BY <1>1, <1>2

-----------------------------------------------------------------------------
(* Buffers and users.                                                      *)

UsersInv == UsersOK /\ WriteInv /\ ReadInv

LEMMA OneIsCell == 1 \in Cells
  BY CountIsNat, SizesAssumption DEF Cells

LEMMA CellIsCell ==
    ASSUME UsersOK
    PROVE  \A u \in Users : Cell(u) \in Cells
  BY OneIsCell DEF UsersOK, Cell

LEMMA IoKept == prog' = prog => Io' = Io
  BY DEF Io, Ex2Io, BusIo, Ex5Io, Ex3Io, OneIo, Ex6Io, Ex7Io

LEMMA NoneIsNoMessage == NoText \notin Messages /\ \A m \in Messages : Length[m] \in Nat
  BY SizesAssumption DEF NoText

\* What the steps of users work with, once their module is aside.
LEMMA CellKept ==
    ASSUME prog' = prog, dev' = dev
    PROVE  \A u \in Users : Cell(u)' = Cell(u)
  BY IoKept DEF Cell

LEMMA UsersInit == Init => UsersInv
  <1> SUFFICES ASSUME Init PROVE UsersInv
    OBVIOUS
  <1>1. UsersOK
    BY OneIsCell, SizesAssumption DEF Init, UsersOK, Texts, UserSteps, NoGot, Writing
  <1>2. WriteInv
    BY DEF Init, WriteInv, WritesAt, Writing, SizeFor
  <1>3. ReadInv
    BY DEF Init, ReadInv, Reading
  <1> QED BY <1>1, <1>2, <1>3 DEF UsersInv

LEMMA UsersStutter ==
    ASSUME UsersInv, UNCHANGED <<prog, buffers, users>>
    PROVE  UsersInv'
  <1>1. \A u \in Users : Cell(u)' = Cell(u)
    BY CellKept DEF users
  <1>2. \A u \in Users : Writing(u)' = Writing(u) /\ Reading(u)' = Reading(u)
    BY DEF users, Writing, Reading
  <1>3. \A u \in Users, c \in Cells : WritesAt(u, c)' = WritesAt(u, c)
    BY <1>1, <1>2 DEF WritesAt
  <1>4. UsersOK'
    BY <1>2 DEF UsersInv, UsersOK, buffers, users
  <1>5. WriteInv'
    BY <1>1, <1>3 DEF UsersInv, WriteInv, buffers, users
  <1>6. ReadInv'
    BY <1>1, <1>2, <1>3, CellIsCell DEF UsersInv, ReadInv, buffers, users
  <1> QED BY <1>4, <1>5, <1>6 DEF UsersInv

\* A new file meets no writer that it was not known to meet.
LEMMA OpenKeeps ==
    ASSUME UsersInv, NEW u \in Users, NEW d \in Cells, Open(u, d)
    PROVE  UsersInv'
  <1>0. UNCHANGED <<module, buffers>> /\ upc[u] = "closed"
    BY DEF Open, Faults
  <1>1. CASE UNCHANGED users
    BY <1>0, <1>1, UsersStutter DEF module
  <1>2. CASE /\ upc' = [upc EXCEPT ![u] = "open"] /\ dev' = [dev EXCEPT ![u] = d]
             /\ pos' = [pos EXCEPT ![u] = 0] /\ again' = [again EXCEPT ![u] = FALSE]
             /\ UNCHANGED <<stale, ask, msg, got, raced>>
    <2> USE UsersInv DEF UsersInv
    <2>2. /\ upc'[u] = "open" /\ again'[u] = FALSE
          /\ \A v \in Users \ {u} : /\ upc'[v] = upc[v] /\ dev'[v] = dev[v]
                                    /\ pos'[v] = pos[v] /\ again'[v] = again[v]
      BY <1>2 DEF UsersOK
    <2>3. /\ ~Writing(u) /\ ~Writing(u)' /\ ~Reading(u)'
          /\ \A v \in Users \ {u} : /\ Cell(v)' = Cell(v) /\ (Writing(v)' <=> Writing(v))
                                    /\ (Reading(v)' <=> Reading(v))
      BY <1>0, <2>2, IoKept DEF Writing, Reading, Cell, module
    <2>1. UsersOK'
      <3>1. \A v \in Users : Writing(v)' => (msg[v] \in Messages /\ ~TooLong(msg[v]))'
        BY <1>2, <2>3 DEF UsersOK, TooLong
      <3>2. /\ upc' \in [Users -> UserSteps] /\ dev' \in [Users -> Cells]
            /\ pos' \in [Users -> 0..BufferSize] /\ again' \in [Users -> BOOLEAN]
        BY <1>2, SizesAssumption DEF UsersOK, UserSteps
      <3> QED BY <1>0, <1>2, <3>1, <3>2 DEF UsersOK, buffers
    <2>4. \A v \in Users, c \in Cells : WritesAt(v, c)' <=> WritesAt(v, c)
      BY <2>3 DEF WritesAt
    <2>5. WriteInv'
      <3>1. \A v \in Users : upc'[v] = "setSize" => upc[v] = "setSize" /\ v # u
        BY <2>2
      <3>2. \A v \in Users, c \in Cells : WritesAt(v, c) /\ upc[v] = "setSize" => v # u
        BY <1>0
      <3> QED BY <1>0, <1>2, <2>2, <2>3, <2>4, <3>1, <3>2 DEF WriteInv, buffers
    <2>6. ReadInv'
      <3>1. ASSUME NEW v \in Users \ {u} PROVE Cell(v)' = Cell(v) /\ Cell(v) \in Cells
        BY <2>3, CellIsCell
      <3> QED BY <1>0, <1>2, <2>2, <2>3, <2>4, <3>1 DEF ReadInv, buffers
    <2> QED BY <2>1, <2>5, <2>6
  <1> QED BY <1>1, <1>2 DEF Open, Faults

LEMMA CloseKeeps ==
    ASSUME UsersInv, NEW u \in Users, Close(u)
    PROVE  UsersInv'
  <1>0. /\ UNCHANGED <<module, buffers>> /\ upc[u] = "open"
        /\ upc' = [upc EXCEPT ![u] = "closed"] /\ dev' = [dev EXCEPT ![u] = 1]
        /\ pos' = [pos EXCEPT ![u] = 0] /\ again' = [again EXCEPT ![u] = FALSE]
        /\ UNCHANGED <<stale, ask, msg, got, raced>>
    BY DEF Close
  <1> USE UsersInv DEF UsersInv
  <1>2. /\ upc'[u] = "closed" /\ again'[u] = FALSE
        /\ \A v \in Users \ {u} : /\ upc'[v] = upc[v] /\ dev'[v] = dev[v]
                                  /\ pos'[v] = pos[v] /\ again'[v] = again[v]
    BY <1>0 DEF UsersOK
  <1>3. /\ ~Writing(u) /\ ~Writing(u)' /\ ~Reading(u)'
        /\ \A v \in Users \ {u} : /\ Cell(v)' = Cell(v) /\ (Writing(v)' <=> Writing(v))
                                  /\ (Reading(v)' <=> Reading(v))
    BY <1>0, <1>2, IoKept DEF Writing, Reading, Cell, module
  <1>1. UsersOK'
    <2>1. \A v \in Users : Writing(v)' => (msg[v] \in Messages /\ ~TooLong(msg[v]))'
      BY <1>0, <1>3 DEF UsersOK, TooLong
    <2>2. /\ upc' \in [Users -> UserSteps] /\ dev' \in [Users -> Cells]
          /\ pos' \in [Users -> 0..BufferSize] /\ again' \in [Users -> BOOLEAN]
      BY <1>0, OneIsCell, SizesAssumption DEF UsersOK, UserSteps
    <2> QED BY <1>0, <2>1, <2>2 DEF UsersOK, buffers
  <1>4. \A v \in Users, c \in Cells : WritesAt(v, c)' <=> WritesAt(v, c)
    BY <1>3 DEF WritesAt
  <1>5. WriteInv'
    <2>1. \A v \in Users : upc'[v] = "setSize" => upc[v] = "setSize" /\ v # u
      BY <1>2
    <2>2. \A v \in Users, c \in Cells : WritesAt(v, c) /\ upc[v] = "setSize" => v # u
      BY <1>0
    <2> QED BY <1>0, <1>2, <1>3, <1>4, <2>1, <2>2 DEF WriteInv, buffers
  <1>6. ReadInv'
    <2>1. ASSUME NEW v \in Users \ {u} PROVE Cell(v)' = Cell(v) /\ Cell(v) \in Cells
      BY <1>3, CellIsCell
    <2> QED BY <1>0, <1>2, <1>3, <1>4, <2>1 DEF ReadInv, buffers
  <1> QED BY <1>1, <1>5, <1>6

\* A step between the open file and the test of a read disturbs nobody.
LEMMA MarkKeeps ==
    ASSUME UsersInv, NEW u \in Users, upc[u] \in {"open", "test"},
           NEW step \in {"open", "test"}, upc' = [upc EXCEPT ![u] = step],
           UNCHANGED <<module, buffers, dev, pos, msg, got, raced, again>>,
           ask' \in [Users -> Asks \cup {0}], \A v \in Users \ {u} : ask'[v] = ask[v],
           stale' \in [Users -> BOOLEAN]
    PROVE  UsersInv'
  <1> USE UsersInv DEF UsersInv
  <1>1. upc'[u] = step /\ \A v \in Users \ {u} : upc'[v] = upc[v]
    BY DEF UsersOK
  <1>2. \A v \in Users : /\ Cell(v)' = Cell(v) /\ (Writing(v)' <=> Writing(v))
                         /\ Reading(v)' <=> Reading(v)
    BY <1>1, CellKept DEF Writing, Reading, module
  <1>3. \A v \in Users, c \in Cells : WritesAt(v, c)' <=> WritesAt(v, c)
    BY <1>2 DEF WritesAt
  <1>4. UsersOK'
    <2>1. upc' \in [Users -> UserSteps]
      BY DEF UsersOK, UserSteps
    <2>2. \A v \in Users : Writing(v)' => (msg[v] \in Messages /\ ~TooLong(msg[v]))'
      BY <1>2 DEF UsersOK, TooLong
    <2> QED BY <2>1, <2>2 DEF UsersOK, buffers
  <1>5. WriteInv'
    <2>1. \A v \in Users : upc'[v] = "setSize" <=> upc[v] = "setSize"
      BY <1>1
    <2> QED BY <1>2, <1>3, <2>1 DEF WriteInv, buffers
  <1>6. ReadInv'
    <2>1. \A v \in Users : Cell(v) \in Cells /\ (Reading(v) => v # u)
      BY CellIsCell DEF Reading
    <2>2. \A v \in Users : /\ upc'[v] = "return" <=> upc[v] = "return"
                           /\ upc[v] \in {"open", "test"} => upc'[v] \in {"open", "test"}
      BY <1>1
    <2> QED BY <1>2, <1>3, <2>1, <2>2 DEF ReadInv, buffers
  <1> QED BY <1>4, <1>5, <1>6

LEMMA ReadBeginKeeps ==
    ASSUME UsersInv, NEW u \in Users, NEW n \in Asks, ReadBegin(u, n)
    PROVE  UsersInv'
  <1>0. UNCHANGED <<module, buffers>> /\ upc[u] = "open"
    BY DEF ReadBegin, Faults
  <1>1. CASE UNCHANGED users
    BY <1>0, <1>1, UsersStutter DEF module
  <1>2. CASE /\ upc' = [upc EXCEPT ![u] = "test"] /\ ask' = [ask EXCEPT ![u] = n]
             /\ Index(u) /\ UNCHANGED <<dev, pos, msg, got, raced, again>>
    <2>1. ask' \in [Users -> Asks \cup {0}] /\ stale' \in [Users -> BOOLEAN]
      BY <1>2 DEF UsersInv, UsersOK, Index
    <2> QED BY <1>0, <1>2, <2>1, MarkKeeps
  <1> QED BY <1>1, <1>2 DEF ReadBegin, Faults

\* A reader notes the writers at work on its buffer.
LEMMA ReadTestKeeps ==
    ASSUME UsersInv, NEW u \in Users, ReadTest(u)
    PROVE  UsersInv'
  <1>0. UNCHANGED <<module, buffers>> /\ upc[u] = "test"
    BY DEF ReadTest, Faults
  <1>1. CASE UNCHANGED users
    BY <1>0, <1>1, UsersStutter DEF module
  <1>2. CASE /\ ask[u] >= size[Cell(u)] /\ pos[u] < size[Cell(u)]
             /\ upc' = [upc EXCEPT ![u] = "copyOut"]
             /\ raced' = [raced EXCEPT ![u] = \E v \in Others(u) : Writing(v)]
             /\ UNCHANGED <<dev, pos, stale, ask, msg, got, again>>
    <2> USE UsersInv DEF UsersInv
    <2>1. UsersOK'
      BY <1>0, <1>2 DEF UsersOK, buffers, Writing, UserSteps
    <2>2. /\ upc'[u] = "copyOut"
          /\ raced'[u] = \E v \in Others(u) : Writing(v)
          /\ \A v \in Users \ {u} : /\ upc'[v] = upc[v] /\ raced'[v] = raced[v]
      BY <1>2 DEF UsersOK
    <2>3. /\ ~Writing(u) /\ ~Writing(u)'
          /\ \A v \in Users : Cell(v)' = Cell(v)
          /\ \A v \in Users \ {u} : (Writing(v)' <=> Writing(v)) /\ (Reading(v)' <=> Reading(v))
      BY <1>0, <1>2, <2>2, CellKept DEF Writing, Reading, module
    <2>4. \A v \in Users, c \in Cells : WritesAt(v, c)' <=> WritesAt(v, c)
      BY <2>3 DEF WritesAt
    <2>5. WriteInv'
      <3>1. \A v \in Users : upc'[v] = "setSize" <=> upc[v] = "setSize"
        BY <1>0, <2>2
      <3> QED BY <1>0, <1>2, <2>3, <2>4, <3>1 DEF WriteInv, buffers
    <2>6. ReadInv'
      <3>1. \A v \in Users : Cell(v)' = Cell(v) /\ Cell(v) \in Cells
        BY <2>3, CellIsCell
      <3>2. ~raced'[u] => \A v \in Users : ~WritesAt(v, Cell(u))
        BY <2>2, <2>3 DEF WritesAt, Others
      <3>3. 0 < size[Cell(u)] /\ size[Cell(u)] <= ask[u]
        <4>1. size[Cell(u)] \in 0..BufferSize /\ pos[u] \in 0..BufferSize
          BY <3>1 DEF UsersOK
        <4>2. ask[u] \in Asks \cup {0} /\ Asks \subseteq Nat /\ BufferSize \in Nat
          BY SizesAssumption DEF UsersOK
        <4> QED BY <1>2, <4>1, <4>2
      <3>4. again[u] => pos[u] = size[Cell(u)]
        BY DEF ReadInv
      <3>5. ~again[u]
        BY <1>2, <3>1, <3>4, SizesAssumption DEF UsersOK
      <3>6. ASSUME NEW v \in Users
            PROVE  (/\ Reading(v) /\ ~raced[v] =>
                        /\ \A w \in Users : ~WritesAt(w, Cell(v))
                        /\ 0 < size[Cell(v)] /\ size[Cell(v)] <= ask[v]
                    /\ upc[v] = "return" /\ ~raced[v] =>
                        got[v] = [text |-> text[Cell(v)], bytes |-> size[Cell(v)]]
                    /\ again[v] => /\ upc[v] \in {"open", "test"} /\ pos[v] = size[Cell(v)]
                                   /\ \A w \in Users : ~WritesAt(w, Cell(v)))'
        <4>1. CASE v = u
          BY <1>0, <1>2, <2>2, <2>4, <3>1, <3>2, <3>3, <3>5, <4>1 DEF buffers
        <4>2. CASE v # u
          BY <1>0, <1>2, <2>2, <2>3, <2>4, <3>1, <4>2 DEF ReadInv, buffers
        <4> QED BY <4>1, <4>2
      <3> QED BY <3>6 DEF ReadInv
    <2> QED BY <2>1, <2>5, <2>6
  <1>3. CASE /\ upc' = [upc EXCEPT ![u] = "open"] /\ ask' = [ask EXCEPT ![u] = 0]
             /\ stale' = [stale EXCEPT ![u] = FALSE]
             /\ UNCHANGED <<dev, pos, msg, got, raced, again>>
    <2>1. ask' \in [Users -> Asks \cup {0}] /\ stale' \in [Users -> BOOLEAN]
      BY <1>3 DEF UsersInv, UsersOK
    <2> QED BY <1>0, <1>3, <2>1, MarkKeeps
  <1> QED BY <1>1, <1>2, <1>3 DEF ReadTest, Faults, Forget

LEMMA ReadCopyKeeps ==
    ASSUME UsersInv, NEW u \in Users, ReadCopy(u)
    PROVE  UsersInv'
  <1>0. UNCHANGED <<module, buffers>> /\ upc[u] = "copyOut"
    BY DEF ReadCopy, Faults
  <1>1. CASE UNCHANGED users
    BY <1>0, <1>1, UsersStutter DEF module
  <1>2. CASE /\ upc' = [upc EXCEPT ![u] = "return"]
             /\ got' = [got EXCEPT ![u] = [text |-> text[Cell(u)], bytes |-> size[Cell(u)]]]
             /\ UNCHANGED <<dev, pos, stale, ask, msg, raced, again>>
    <2> USE UsersInv DEF UsersInv
    <2>1. UsersOK'
      BY <1>0, <1>2, CellIsCell DEF UsersOK, buffers, Writing, UserSteps
    <2>2. /\ upc'[u] = "return" /\ got'[u] = [text |-> text[Cell(u)], bytes |-> size[Cell(u)]]
          /\ \A v \in Users \ {u} : upc'[v] = upc[v] /\ got'[v] = got[v]
      BY <1>2 DEF UsersOK
    <2>3. /\ \A v \in Users : Cell(v)' = Cell(v) /\ (Reading(v)' <=> Reading(v))
          /\ \A v \in Users : Writing(v)' <=> Writing(v)
      BY <1>0, <1>2, <2>2, CellKept DEF Writing, Reading, module
    <2>4. \A v \in Users, c \in Cells : WritesAt(v, c)' <=> WritesAt(v, c)
      BY <2>3 DEF WritesAt
    <2>5. WriteInv'
      <3>1. \A v \in Users : upc'[v] = "setSize" <=> upc[v] = "setSize"
        BY <1>0, <2>2
      <3> QED BY <1>0, <1>2, <2>3, <2>4, <3>1 DEF WriteInv, buffers
    <2>6. ReadInv'
      <3>1. \A v \in Users : Cell(v)' = Cell(v) /\ Cell(v) \in Cells
        BY <2>3, CellIsCell
      <3>2. \A v \in Users : upc'[v] \in {"open", "test"} <=> upc[v] \in {"open", "test"}
        BY <1>0, <2>2
      <3> QED BY <1>0, <1>2, <2>2, <2>3, <2>4, <3>1, <3>2 DEF ReadInv, buffers
    <2> QED BY <2>1, <2>5, <2>6
  <1> QED BY <1>1, <1>2 DEF ReadCopy, Faults

\* Having read without a writer, the position is the size.
LEMMA ReadReturnKeeps ==
    ASSUME UsersInv, NEW u \in Users, ReadReturn(u)
    PROVE  UsersInv'
  <1>0. UNCHANGED <<module, buffers>> /\ upc[u] = "return"
    BY DEF ReadReturn, Faults
  <1>1. CASE UNCHANGED users
    BY <1>0, <1>1, UsersStutter DEF module
  <1>2. CASE /\ upc' = [upc EXCEPT ![u] = "open"]
             /\ pos' = [pos EXCEPT ![u] = size[Cell(u)]]
             /\ again' = [again EXCEPT ![u] = ~raced[u]]
             /\ ask' = [ask EXCEPT ![u] = 0] /\ got' = [got EXCEPT ![u] = NoGot]
             /\ raced' = [raced EXCEPT ![u] = FALSE] /\ Forget(u)
             /\ UNCHANGED <<dev, msg>>
    <2> USE UsersInv DEF UsersInv
    <2>1. UsersOK'
      <3>1. /\ upc' \in [Users -> UserSteps] /\ pos' \in [Users -> 0..BufferSize]
            /\ again' \in [Users -> BOOLEAN] /\ raced' \in [Users -> BOOLEAN]
        BY <1>2, CellIsCell DEF UsersOK, UserSteps
      <3>2. stale' \in [Users -> BOOLEAN]
        BY <1>2 DEF UsersOK, Forget
      <3>3. /\ ask' \in [Users -> Asks \cup {0}]
            /\ got' \in [Users -> [text : Texts, bytes : 0..BufferSize]]
        BY <1>2, SizesAssumption DEF UsersOK, NoGot, Texts
      <3>4. \A v \in Users : Writing(v)' => (msg[v] \in Messages /\ ~TooLong(msg[v]))'
        <4>1. \A v \in Users : Writing(v)' => Writing(v)
          BY <1>0, <1>2 DEF UsersOK, Writing
        <4> QED BY <1>2, <4>1 DEF UsersOK, TooLong
      <3> QED BY <1>0, <1>2, <3>1, <3>2, <3>3, <3>4 DEF UsersOK, buffers
    <2>2. /\ upc'[u] = "open" /\ pos'[u] = size[Cell(u)] /\ (again'[u] <=> ~raced[u])
          /\ \A v \in Users \ {u} : /\ upc'[v] = upc[v] /\ got'[v] = got[v]
                                    /\ pos'[v] = pos[v] /\ again'[v] = again[v]
                                    /\ ask'[v] = ask[v] /\ raced'[v] = raced[v]
      BY <1>2 DEF UsersOK
    <2>3. /\ \A v \in Users : Cell(v)' = Cell(v) /\ (Writing(v)' <=> Writing(v))
          /\ \A v \in Users \ {u} : Reading(v)' <=> Reading(v)
          /\ Reading(u) /\ ~Reading(u)'
      BY <1>0, <1>2, <2>2, CellKept DEF Writing, Reading, module
    <2>4. \A v \in Users, c \in Cells : WritesAt(v, c)' <=> WritesAt(v, c)
      BY <2>3 DEF WritesAt
    <2>5. WriteInv'
      <3>1. \A v \in Users : upc'[v] = "setSize" <=> upc[v] = "setSize"
        BY <1>0, <2>2
      <3> QED BY <1>0, <1>2, <2>3, <2>4, <3>1 DEF WriteInv, buffers
    <2>6. ReadInv'
      <3>1. \A v \in Users : Cell(v)' = Cell(v) /\ Cell(v) \in Cells
        BY <2>3, CellIsCell
      <3>2. ASSUME NEW v \in Users
            PROVE  (/\ Reading(v) /\ ~raced[v] =>
                        /\ \A w \in Users : ~WritesAt(w, Cell(v))
                        /\ 0 < size[Cell(v)] /\ size[Cell(v)] <= ask[v]
                    /\ upc[v] = "return" /\ ~raced[v] =>
                        got[v] = [text |-> text[Cell(v)], bytes |-> size[Cell(v)]]
                    /\ again[v] => /\ upc[v] \in {"open", "test"} /\ pos[v] = size[Cell(v)]
                                   /\ \A w \in Users : ~WritesAt(w, Cell(v)))'
        <4>1. CASE v = u
          <5>1. ~raced[u] => \A w \in Users : ~WritesAt(w, Cell(u))
            BY <2>3 DEF ReadInv
          <5> QED BY <1>0, <1>2, <2>2, <2>3, <2>4, <3>1, <4>1, <5>1 DEF buffers
        <4>2. CASE v # u
          BY <1>0, <1>2, <2>2, <2>3, <2>4, <3>1, <4>2 DEF ReadInv, buffers
        <4> QED BY <4>1, <4>2
      <3> QED BY <3>2 DEF ReadInv
    <2> QED BY <2>1, <2>5, <2>6
  <1> QED BY <1>1, <1>2 DEF ReadReturn, Faults

\* A writer marks the readers of its buffer, and other writers.
LEMMA WriteBeginKeeps ==
    ASSUME UsersInv, NEW u \in Users, NEW m \in Messages, WriteBegin(u, m)
    PROVE  UsersInv'
  <1>0. UNCHANGED <<module, text, size>> /\ upc[u] = "open" /\ ~TooLong(m)
    BY DEF WriteBegin, Faults, buffers
  <1>1. CASE UNCHANGED <<buffers, users>>
    BY <1>0, <1>1, UsersStutter DEF module
  <1>2. CASE /\ upc' = [upc EXCEPT ![u] = "copyIn"] /\ Index(u)
             /\ msg' = [msg EXCEPT ![u] = m] /\ pos' = [pos EXCEPT ![u] = 0]
             /\ raced' = [v \in Users |-> raced[v] \/ (v \in Others(u) /\ Reading(v))]
             /\ again' = [v \in Users |-> again[v] /\ Cell(v) # Cell(u)]
             /\ mix' = [mix EXCEPT ![Cell(u)] =
                          IF \E v \in Others(u) : Writing(v) THEN "mixed"
                          ELSE IF @ = "mixed" THEN "cleaning" ELSE @]
             /\ UNCHANGED <<dev, ask, got>>
    <2> USE UsersInv DEF UsersInv
    <2>2. /\ upc'[u] = "copyIn" /\ msg'[u] = m
          /\ \A v \in Users \ {u} : /\ upc'[v] = upc[v] /\ msg'[v] = msg[v]
                                    /\ pos'[v] = pos[v]
      BY <1>2 DEF UsersOK
    <2>3. /\ \A v \in Users : Cell(v)' = Cell(v) /\ (Reading(v)' <=> Reading(v))
          /\ \A v \in Users \ {u} : Writing(v)' <=> Writing(v)
          /\ ~Writing(u) /\ Writing(u)' /\ ~Reading(u)
      BY <1>0, <1>2, <2>2, CellKept DEF Writing, Reading, module
    <2>4. /\ \A v \in Users \ {u}, c \in Cells : WritesAt(v, c)' <=> WritesAt(v, c)
          /\ \A c \in Cells : WritesAt(u, c)' <=> c = Cell(u)
      BY <2>3 DEF WritesAt
    <2>1. UsersOK'
      <3>1. \A v \in Users : Writing(v)' => (msg[v] \in Messages /\ ~TooLong(msg[v]))'
        BY <1>0, <2>2, <2>3 DEF UsersOK, TooLong
      <3>2. /\ upc' \in [Users -> UserSteps] /\ pos' \in [Users -> 0..BufferSize]
            /\ msg' \in [Users -> Texts]
        BY <1>2, SizesAssumption DEF UsersOK, UserSteps, Texts
      <3>3. /\ raced' \in [Users -> BOOLEAN] /\ again' \in [Users -> BOOLEAN]
            /\ stale' \in [Users -> BOOLEAN]
        BY <1>2 DEF UsersOK, Index
      <3>4. mix' \in [Cells -> {"clean", "mixed", "cleaning"}]
        <4>1. mix \in [Cells -> {"clean", "mixed", "cleaning"}] /\ Cell(u) \in Cells
          BY CellIsCell DEF UsersOK
        <4>2. CASE \E v \in Others(u) : Writing(v)
          BY <1>2, <4>1, <4>2
        <4>3. CASE ~ \E v \in Others(u) : Writing(v)
          BY <1>2, <4>1, <4>3
        <4> QED BY <4>2, <4>3
      <3> QED BY <1>0, <1>2, <3>1, <3>2, <3>3, <3>4 DEF UsersOK
    <2>5. /\ \A c \in Cells : c # Cell(u) => mix'[c] = mix[c]
          /\ mix'[Cell(u)] # "mixed" => \A v \in Others(u) : ~Writing(v)
          /\ mix'[Cell(u)] = "clean" => mix[Cell(u)] = "clean"
      <3>1. mix \in [Cells -> {"clean", "mixed", "cleaning"}] /\ Cell(u) \in Cells
        BY CellIsCell DEF UsersOK
      <3>2. CASE \E v \in Others(u) : Writing(v)
        BY <1>2, <3>1, <3>2
      <3>3. CASE ~ \E v \in Others(u) : Writing(v)
        BY <1>2, <3>1, <3>3
      <3> QED BY <3>2, <3>3
    <2>6. mix'[Cell(u)] # "mixed" => \A v \in Users \ {u} : ~WritesAt(v, Cell(u))
      BY <2>5 DEF WritesAt, Others
    <2>7. WriteInv'
      <3>1. \A c \in Cells : mix'[c] # "mixed" =>
              \A v, w \in Users : WritesAt(v, c)' /\ WritesAt(w, c)' => v = w
        BY <2>4, <2>5, <2>6, CellIsCell DEF WriteInv
      <3>2. ASSUME NEW v \in Users, upc'[v] = "setSize", mix'[Cell(v)] # "mixed"
            PROVE  text'[Cell(v)] = msg'[v]
        <4>1. v # u /\ upc[v] = "setSize" /\ msg'[v] = msg[v]
          BY <2>2, <3>2
        <4>2. Cell(v) # Cell(u)
          BY <2>6, <3>2, <4>1 DEF WritesAt, Writing
        <4> QED BY <1>0, <2>5, <3>2, <4>1, <4>2, CellIsCell DEF WriteInv
      <3>3. ASSUME NEW c \in Cells, mix'[c] = "clean"
            PROVE  \/ size'[c] = SizeFor(text[c])'
                   \/ \E v \in Users : WritesAt(v, c)' /\ upc'[v] = "setSize"
        <4>1. mix[c] = "clean"
          BY <2>5, <3>3
        <4>2. CASE size[c] = SizeFor(text[c])
          BY <1>0, <4>2
        <4>3. CASE \E v \in Users : WritesAt(v, c) /\ upc[v] = "setSize"
          BY <1>0, <2>2, <2>4, <4>3
        <4> QED BY <4>1, <4>2, <4>3 DEF WriteInv
      <3> QED BY <2>3, <3>1, <3>2, <3>3 DEF WriteInv
    <2>8. ReadInv'
      <3>1. \A v \in Users : /\ raced'[v] <=> raced[v] \/ (v \in Others(u) /\ Reading(v))
                             /\ again'[v] <=> again[v] /\ Cell(v) # Cell(u)
        BY <1>2
      <3>2. ASSUME NEW v \in Users
            PROVE  (/\ Reading(v) /\ ~raced[v] =>
                        /\ \A w \in Users : ~WritesAt(w, Cell(v))
                        /\ 0 < size[Cell(v)] /\ size[Cell(v)] <= ask[v]
                    /\ upc[v] = "return" /\ ~raced[v] =>
                        got[v] = [text |-> text[Cell(v)], bytes |-> size[Cell(v)]]
                    /\ again[v] => /\ upc[v] \in {"open", "test"} /\ pos[v] = size[Cell(v)]
                                   /\ \A w \in Users : ~WritesAt(w, Cell(v)))'
        <4>1. CASE v = u
          BY <2>2, <2>3, <3>1, <4>1
        <4>2. CASE v # u /\ Cell(v) = Cell(u)
          <5>1. ~again'[v] /\ (Reading(v) => raced'[v]) /\ (upc'[v] = "return" => Reading(v))
            BY <2>2, <3>1, <4>2 DEF Others, Reading
          <5> QED BY <2>3, <4>2, <5>1
        <4>3. CASE v # u /\ Cell(v) # Cell(u)
          <5>1. (raced'[v] <=> raced[v]) /\ (again'[v] <=> again[v]) /\ Cell(v) \in Cells
            BY <3>1, <4>3, CellIsCell DEF Others
          <5>2. \A w \in Users : WritesAt(w, Cell(v))' <=> WritesAt(w, Cell(v))
            BY <2>3, <2>4, <4>3, <5>1 DEF WritesAt
          <5> QED BY <1>0, <1>2, <2>2, <2>3, <4>3, <5>1, <5>2 DEF ReadInv
        <4> QED BY <4>1, <4>2, <4>3
      <3> QED BY <3>2 DEF ReadInv
    <2> QED BY <2>1, <2>7, <2>8
  <1> QED BY <1>1, <1>2 DEF WriteBegin, Faults

\* No reader that the copy disturbs is unmarked.
LEMMA WriteCopyKeeps ==
    ASSUME UsersInv, NEW u \in Users, WriteCopy(u)
    PROVE  UsersInv'
  <1>0. UNCHANGED <<module, size, mix>> /\ upc[u] = "copyIn"
    BY DEF WriteCopy, Faults, buffers
  <1>1. CASE UNCHANGED <<buffers, users>>
    BY <1>0, <1>1, UsersStutter DEF module
  <1>2. CASE /\ upc' = [upc EXCEPT ![u] = "setSize"]
             /\ text' = [text EXCEPT ![Cell(u)] = msg[u]]
             /\ UNCHANGED <<dev, pos, stale, ask, msg, got, raced, again>>
    <2> USE UsersInv DEF UsersInv
    <2>2. /\ upc'[u] = "setSize" /\ text'[Cell(u)] = msg[u]
          /\ \A v \in Users \ {u} : upc'[v] = upc[v]
          /\ \A c \in Cells : c # Cell(u) => text'[c] = text[c]
      BY <1>2, CellIsCell DEF UsersOK
    <2>3. \A v \in Users : /\ Cell(v)' = Cell(v) /\ (Reading(v)' <=> Reading(v))
                           /\ Writing(v)' <=> Writing(v)
      BY <1>0, <1>2, <2>2, CellKept DEF Writing, Reading, module
    <2>4. /\ \A v \in Users, c \in Cells : WritesAt(v, c)' <=> WritesAt(v, c)
          /\ WritesAt(u, Cell(u)) /\ Cell(u) \in Cells
      BY <1>0, <2>3, CellIsCell DEF WritesAt, Writing
    <2>1. UsersOK'
      <3>1. \A v \in Users : Writing(v)' => (msg[v] \in Messages /\ ~TooLong(msg[v]))'
        BY <1>2, <2>3 DEF UsersOK, TooLong
      <3>2. upc' \in [Users -> UserSteps] /\ text' \in [Cells -> Texts]
        BY <1>2 DEF UsersOK, UserSteps
      <3> QED BY <1>0, <1>2, <3>1, <3>2 DEF UsersOK
    <2>7. WriteInv'
      <3>1. \A c \in Cells : mix'[c] # "mixed" =>
              \A v, w \in Users : WritesAt(v, c)' /\ WritesAt(w, c)' => v = w
        BY <1>0, <2>4 DEF WriteInv
      <3>2. ASSUME NEW v \in Users, upc'[v] = "setSize", mix'[Cell(v)] # "mixed"
            PROVE  text'[Cell(v)] = msg'[v]
        <4>1. CASE v = u
          BY <1>2, <2>2, <4>1
        <4>2. CASE v # u
          <5>1. upc[v] = "setSize" /\ WritesAt(v, Cell(v)) /\ Cell(v) \in Cells
            BY <2>2, <3>2, <4>2, CellIsCell DEF WritesAt, Writing
          <5>2. Cell(v) # Cell(u)
            BY <1>0, <2>4, <3>2, <4>2, <5>1 DEF WriteInv
          <5> QED BY <1>0, <1>2, <2>2, <3>2, <5>1, <5>2 DEF WriteInv
        <4> QED BY <4>1, <4>2
      <3>3. ASSUME NEW c \in Cells, mix'[c] = "clean"
            PROVE  \/ size'[c] = SizeFor(text[c])'
                   \/ \E v \in Users : WritesAt(v, c)' /\ upc'[v] = "setSize"
        <4>1. CASE c = Cell(u)
          BY <2>2, <2>4, <4>1
        <4>2. CASE c # Cell(u)
          <5>1. text'[c] = text[c] /\ mix[c] = "clean"
            BY <1>0, <2>2, <3>3, <4>2
          <5>2. CASE size[c] = SizeFor(text[c])
            BY <1>0, <5>1, <5>2
          <5>3. CASE \E v \in Users : WritesAt(v, c) /\ upc[v] = "setSize"
            BY <1>0, <2>2, <2>4, <5>3
          <5> QED BY <5>1, <5>2, <5>3 DEF WriteInv
        <4> QED BY <4>1, <4>2
      <3> QED BY <2>3, <3>1, <3>2, <3>3 DEF WriteInv
    <2>8. ReadInv'
      <3>1. ~Reading(u) /\ ~again[u]
        BY <1>0 DEF Reading, ReadInv
      <3>2. ASSUME NEW v \in Users
            PROVE  (/\ Reading(v) /\ ~raced[v] =>
                        /\ \A w \in Users : ~WritesAt(w, Cell(v))
                        /\ 0 < size[Cell(v)] /\ size[Cell(v)] <= ask[v]
                    /\ upc[v] = "return" /\ ~raced[v] =>
                        got[v] = [text |-> text[Cell(v)], bytes |-> size[Cell(v)]]
                    /\ again[v] => /\ upc[v] \in {"open", "test"} /\ pos[v] = size[Cell(v)]
                                   /\ \A w \in Users : ~WritesAt(w, Cell(v)))'
        <4>1. CASE v = u
          BY <1>2, <2>2, <2>3, <3>1, <4>1
        <4>2. CASE v # u
          <5>1. /\ Cell(v) \in Cells
                /\ \A w \in Users : WritesAt(w, Cell(v))' <=> WritesAt(w, Cell(v))
            BY <2>4, CellIsCell, <2>3
          <5>2. upc[v] = "return" /\ ~raced[v] => text'[Cell(v)] = text[Cell(v)]
            <6>1. upc[v] = "return" => Reading(v)
              BY DEF Reading
            <6> QED BY <2>2, <2>4, <5>1, <6>1 DEF ReadInv
          <5>3. /\ upc'[v] = upc[v] /\ Cell(v)' = Cell(v) /\ (Reading(v)' <=> Reading(v))
                /\ got'[v] = got[v] /\ raced'[v] = raced[v] /\ again'[v] = again[v]
                /\ pos'[v] = pos[v] /\ ask'[v] = ask[v] /\ size' = size
            BY <1>0, <1>2, <2>2, <2>3, <4>2
          <5>4. /\ Reading(v) /\ ~raced[v] =>
                      /\ \A w \in Users : ~WritesAt(w, Cell(v))
                      /\ 0 < size[Cell(v)] /\ size[Cell(v)] <= ask[v]
                /\ upc[v] = "return" /\ ~raced[v] =>
                      got[v] = [text |-> text[Cell(v)], bytes |-> size[Cell(v)]]
                /\ again[v] => /\ upc[v] \in {"open", "test"} /\ pos[v] = size[Cell(v)]
                               /\ \A w \in Users : ~WritesAt(w, Cell(v))
            BY DEF ReadInv
          <5>5. \A w \in Users : WritesAt(w, Cell(v))' <=> WritesAt(w, Cell(v))
            BY <5>1
          <5> QED BY <5>2, <5>3, <5>4, <5>5
        <4> QED BY <4>1, <4>2
      <3> QED BY <3>2 DEF ReadInv
    <2> QED BY <2>1, <2>7, <2>8
  <1> QED BY <1>1, <1>2 DEF WriteCopy, Faults, buffers

\* The size that a lone writer leaves fits its text.
LEMMA WriteSizeKeeps ==
    ASSUME UsersInv, NEW u \in Users, WriteSize(u)
    PROVE  UsersInv'
  <1>0. UNCHANGED <<module, text>> /\ upc[u] = "setSize"
    BY DEF WriteSize, Faults, buffers
  <1>1. CASE UNCHANGED <<buffers, users>>
    BY <1>0, <1>1, UsersStutter DEF module
  <1>2. CASE /\ upc' = [upc EXCEPT ![u] = "open"]
             /\ msg' = [msg EXCEPT ![u] = NoText]
             /\ size' = [size EXCEPT ![Cell(u)] = SizeOf(msg[u])]
             /\ mix' = [mix EXCEPT ![Cell(u)] = IF @ = "cleaning" THEN "clean" ELSE @]
             /\ Forget(u) /\ UNCHANGED <<dev, pos, ask, got, raced, again>>
    <2> USE UsersInv DEF UsersInv
    <2>0. /\ mix \in [Cells -> {"clean", "mixed", "cleaning"}] /\ Cell(u) \in Cells
          /\ size \in [Cells -> 0..BufferSize]
          /\ msg[u] \in Messages /\ ~TooLong(msg[u])
      BY <1>0, CellIsCell DEF UsersOK, Writing
    <2>2. /\ upc'[u] = "open" /\ size'[Cell(u)] = SizeOf(msg[u])
          /\ \A v \in Users \ {u} : upc'[v] = upc[v] /\ msg'[v] = msg[v]
          /\ \A c \in Cells : c # Cell(u) => size'[c] = size[c] /\ mix'[c] = mix[c]
          /\ mix'[Cell(u)] = IF mix[Cell(u)] = "cleaning" THEN "clean" ELSE mix[Cell(u)]
      BY <1>2, <2>0 DEF UsersOK
    <2>3. /\ \A v \in Users : Cell(v)' = Cell(v) /\ (Reading(v)' <=> Reading(v))
          /\ \A v \in Users \ {u} : Writing(v)' <=> Writing(v)
          /\ Writing(u) /\ ~Writing(u)' /\ ~Reading(u)
      BY <1>0, <1>2, <2>2, CellKept DEF Writing, Reading, module
    <2>4. /\ \A v \in Users, c \in Cells : WritesAt(v, c)' <=> v # u /\ WritesAt(v, c)
          /\ WritesAt(u, Cell(u))
      BY <2>3 DEF WritesAt
    <2>1. UsersOK'
      <3>1. \A v \in Users : Writing(v)' => (msg[v] \in Messages /\ ~TooLong(msg[v]))'
        BY <2>2, <2>3 DEF UsersOK, TooLong
      <3>2. upc' \in [Users -> UserSteps] /\ msg' \in [Users -> Texts]
        BY <1>2 DEF UsersOK, UserSteps, Texts
      <3>3. size' \in [Cells -> 0..BufferSize]
        <4>1. SizeOf(msg[u]) \in 0..BufferSize
          BY <2>0, NoneIsNoMessage, SizesAssumption DEF SizeOf, TooLong
        <4> QED BY <1>2, <2>0, <4>1
      <3>4. /\ mix' \in [Cells -> {"clean", "mixed", "cleaning"}]
            /\ stale' \in [Users -> BOOLEAN]
        BY <1>2, <2>0 DEF UsersOK, Forget
      <3> QED BY <1>0, <1>2, <3>1, <3>2, <3>3, <3>4 DEF UsersOK
    <2>7. WriteInv'
      <3>1. \A c \in Cells : mix'[c] # "mixed" =>
              \A v, w \in Users : WritesAt(v, c)' /\ WritesAt(w, c)' => v = w
        BY <2>2, <2>4 DEF WriteInv
      <3>2. ASSUME NEW v \in Users, upc'[v] = "setSize", mix'[Cell(v)] # "mixed"
            PROVE  text'[Cell(v)] = msg'[v]
        <4>1. v # u /\ upc[v] = "setSize" /\ msg'[v] = msg[v] /\ Cell(v) \in Cells
          BY <2>2, <3>2, CellIsCell
        <4>2. mix[Cell(v)] # "mixed"
          BY <2>2, <3>2, <4>1
        <4> QED BY <1>0, <4>1, <4>2 DEF WriteInv
      <3>3. ASSUME NEW c \in Cells, mix'[c] = "clean"
            PROVE  \/ size'[c] = SizeFor(text[c])'
                   \/ \E v \in Users : WritesAt(v, c)' /\ upc'[v] = "setSize"
        <4>1. CASE c = Cell(u)
          <5>1. mix[c] # "mixed"
            BY <2>2, <3>3, <4>1
          <5>2. text[c] = msg[u]
            BY <1>0, <4>1, <5>1 DEF WriteInv
          <5>3. SizeFor(text[c])' = SizeFor(msg[u])
            BY <1>0, <5>2
          <5>4. SizeFor(msg[u]) = SizeOf(msg[u])
            BY <2>0, NoneIsNoMessage DEF SizeFor
          <5> QED BY <2>2, <4>1, <5>3, <5>4
        <4>2. CASE c # Cell(u)
          <5>1. size'[c] = size[c] /\ mix[c] = "clean"
            BY <2>2, <3>3, <4>2
          <5>2. CASE size[c] = SizeFor(text[c])
            BY <1>0, <5>1, <5>2
          <5>3. CASE \E v \in Users : WritesAt(v, c) /\ upc[v] = "setSize"
            <6>1. PICK v \in Users : WritesAt(v, c) /\ upc[v] = "setSize"
              BY <5>3
            <6>2. v # u
              BY <4>2, <6>1 DEF WritesAt
            <6> QED BY <2>2, <2>4, <6>1, <6>2
          <5> QED BY <5>1, <5>2, <5>3 DEF WriteInv
        <4> QED BY <4>1, <4>2
      <3> QED BY <2>3, <3>1, <3>2, <3>3 DEF WriteInv
    <2>8. ReadInv'
      <3>1. ~again[u]
        BY <1>0 DEF ReadInv
      <3>2. ASSUME NEW v \in Users
            PROVE  (/\ Reading(v) /\ ~raced[v] =>
                        /\ \A w \in Users : ~WritesAt(w, Cell(v))
                        /\ 0 < size[Cell(v)] /\ size[Cell(v)] <= ask[v]
                    /\ upc[v] = "return" /\ ~raced[v] =>
                        got[v] = [text |-> text[Cell(v)], bytes |-> size[Cell(v)]]
                    /\ again[v] => /\ upc[v] \in {"open", "test"} /\ pos[v] = size[Cell(v)]
                                   /\ \A w \in Users : ~WritesAt(w, Cell(v)))'
        <4>0. Cell(v) \in Cells /\ (upc[v] = "return" => Reading(v))
          BY CellIsCell DEF Reading
        <4>1. CASE v = u
          BY <1>2, <2>2, <2>3, <3>1, <4>1
        <4>2. CASE v # u /\ Cell(v) = Cell(u)
          <5>1. ~again[v] /\ (Reading(v) => raced[v])
            BY <2>4, <4>2 DEF ReadInv
          <5> QED BY <1>2, <2>2, <2>3, <4>0, <4>2, <5>1
        <4>3. CASE v # u /\ Cell(v) # Cell(u)
          <5>1. \A w \in Users : WritesAt(w, Cell(v))' <=> w # u /\ WritesAt(w, Cell(v))
            BY <2>3, <2>4, <4>0
          <5> QED BY <1>0, <1>2, <2>2, <2>3, <4>0, <4>3, <5>1 DEF ReadInv
        <4> QED BY <4>1, <4>2, <4>3
      <3> QED BY <3>2 DEF ReadInv
    <2> QED BY <2>1, <2>7, <2>8
  <1> QED BY <1>1, <1>2 DEF WriteSize, Faults, buffers

\* A step of a user leaves the module alone, a step of the module the users.
LEMMA UserLeaves ==
    ASSUME NEW u \in Users, UserStep(u)
    PROVE  UNCHANGED module
  BY DEF UserStep, Open, Close, ReadBegin, ReadTest, ReadCopy, ReadReturn, WriteBegin, WriteCopy,
         WriteSize

ModuleStep == \/ Load \/ Acquire \/ AcquireFails \/ Loaded
              \/ GiveBack \/ GivenBack \/ Unload

LEMMA ModuleLeaves == ModuleStep => UNCHANGED <<prog, buffers, users>>
  BY DEF ModuleStep, Load, Acquire, AcquireFails, Loaded, GiveBack, GivenBack, Unload

LEMMA UsersStep ==
    ASSUME UsersInv, Next
    PROVE  UsersInv'
  <1>1. CASE ModuleStep
    BY <1>1, ModuleLeaves, UsersStutter
  <1>2. ASSUME NEW u \in Users, UserStep(u) PROVE UsersInv'
    <2>1. CASE \E d \in Cells : Open(u, d)
      BY <2>1, OpenKeeps
    <2>2. CASE Close(u)
      BY <2>2, CloseKeeps
    <2>3. CASE \E n \in Asks : ReadBegin(u, n)
      BY <2>3, ReadBeginKeeps
    <2>4. CASE ReadCopy(u)
      BY <2>4, ReadCopyKeeps
    <2>5. CASE ReadReturn(u)
      BY <2>5, ReadReturnKeeps
    <2>6. CASE \E m \in Messages : WriteBegin(u, m)
      BY <2>6, WriteBeginKeeps
    <2>7. CASE WriteCopy(u)
      BY <2>7, WriteCopyKeeps
    <2>8. CASE WriteSize(u)
      BY <2>8, WriteSizeKeeps
    <2>9. CASE ReadTest(u)
      BY <2>9, ReadTestKeeps
    <2> QED BY <1>2, <2>1, <2>2, <2>3, <2>4, <2>5, <2>6, <2>7, <2>8, <2>9 DEF UserStep
  <1> QED BY <1>1, <1>2 DEF Next, ModuleStep

\* What a reader found is a message, as no writer is at work.
LEMMA ReadsWholeHolds == UsersInv => ReadsWhole
  <1> SUFFICES ASSUME UsersInv,
                      NEW u \in Users, upc[u] = "return", ~raced[u], mix[Cell(u)] = "clean"
               PROVE  /\ got[u].bytes = TextLength(got[u].text) + 1
                      /\ got[u].bytes = size[Cell(u)] /\ got[u].bytes <= ask[u]
                      /\ ~again[u]
    BY DEF ReadsWhole
  <1> USE UsersInv DEF UsersInv
  <1>1. Cell(u) \in Cells
    BY CellIsCell
  <1>2. /\ \A v \in Users : ~WritesAt(v, Cell(u))
        /\ 0 < size[Cell(u)] /\ size[Cell(u)] <= ask[u]
        /\ got[u] = [text |-> text[Cell(u)], bytes |-> size[Cell(u)]]
        /\ ~again[u]
    BY DEF ReadInv, Reading
  <1>3. size[Cell(u)] = SizeFor(text[Cell(u)])
    BY <1>1, <1>2 DEF WriteInv
  <1>4. text[Cell(u)] # NoText
    BY <1>2, <1>3 DEF SizeFor
  <1>5. SizeFor(text[Cell(u)]) = TextLength(text[Cell(u)]) + 1
    BY <1>4 DEF SizeFor, SizeOf, TextLength
  <1> QED BY <1>2, <1>3, <1>5

-----------------------------------------------------------------------------
(* The module, its resources and its faults.                               *)

ModuleInv == ModuleOK /\ ForthInv /\ BackInv

LEMMA ScriptKept == prog' = prog => Script' = Script /\ ExitScript' = ExitScript
  BY DEF Script, ExitScript

\* One step more.
LEMMA BeforeNext ==
    ASSUME NEW i \in Nat \ {0}
    PROVE  Before(i + 1) = Before(i) \cup {Script[i].does}
  <1>1. 1..((i + 1) - 1) = 1..(i - 1) \cup {i}
    OBVIOUS
  <1> QED BY <1>1 DEF Before

\* What remains when the first of a list without repetitions is removed.
LEMMA TailElems ==
    ASSUME NEW S, NEW s \in Seq(S), s # <<>>, Distinct(s)
    PROVE  /\ Elems(s) = {Head(s)} \cup Elems(Tail(s))
           /\ Distinct(Tail(s)) /\ Head(s) \notin Elems(Tail(s))
           /\ Tail(s) \in Seq(S) /\ Head(s) \in S
  <1>1. /\ Tail(s) \in Seq(S) /\ Len(s) \in Nat \ {0} /\ Len(Tail(s)) = Len(s) - 1
        /\ Head(s) = s[1] /\ Head(s) \in S
    OBVIOUS
  <1>2. \A i \in 1..Len(Tail(s)) : i + 1 \in 1..Len(s) /\ Tail(s)[i] = s[i + 1]
    OBVIOUS
  <1>3. \A i \in 1..Len(s) : i = 1 \/ (i - 1 \in 1..Len(Tail(s)) /\ s[i] = Tail(s)[i - 1])
    <2>1. ASSUME NEW i \in 1..Len(s), i # 1
          PROVE  i - 1 \in 1..Len(Tail(s)) /\ s[i] = Tail(s)[i - 1]
      <3>1. i - 1 \in 1..Len(Tail(s)) /\ (i - 1) + 1 = i
        BY <1>1, <2>1
      <3> QED BY <1>2, <3>1
    <2> QED BY <2>1
  <1>4. Elems(s) = {Head(s)} \cup Elems(Tail(s))
    <2>1. 1 \in 1..Len(s)
      BY <1>1
    <2>2. \A i \in 1..Len(Tail(s)) : Tail(s)[i] \in Elems(Tail(s))
      BY DEF Elems
    <2>3. \A i \in 1..Len(s) : s[i] \in Elems(s)
      BY DEF Elems
    <2>4. ASSUME NEW x \in Elems(s) PROVE x = Head(s) \/ x \in Elems(Tail(s))
      <3>1. PICK i \in 1..Len(s) : x = s[i]
        BY <2>4 DEF Elems
      <3> QED BY <1>1, <1>3, <2>2, <3>1
    <2>5. ASSUME NEW x \in Elems(Tail(s)) PROVE x \in Elems(s)
      <3>1. PICK i \in 1..Len(Tail(s)) : x = Tail(s)[i]
        BY <2>5 DEF Elems
      <3> QED BY <1>2, <2>3, <3>1
    <2>6. Head(s) \in Elems(s)
      BY <1>1, <2>1, <2>3
    <2> QED BY <2>4, <2>5, <2>6
  <1>5. Distinct(Tail(s)) /\ Head(s) \notin Elems(Tail(s))
    <2>1. ASSUME NEW i \in 1..Len(Tail(s)), NEW j \in 1..Len(Tail(s)), Tail(s)[i] = Tail(s)[j]
          PROVE  i = j
      <3>1. i + 1 = j + 1
        BY <1>2, <2>1 DEF Distinct
      <3> QED BY <3>1, <1>1
    <2>2. ASSUME NEW i \in 1..Len(Tail(s)), Tail(s)[i] = Head(s) PROVE FALSE
      <3>1. i + 1 = 1
        BY <1>1, <1>2, <2>2 DEF Distinct
      <3> QED BY <3>1, <1>1
    <2> QED BY <2>1, <2>2 DEF Distinct, Elems
  <1> QED BY <1>1, <1>4, <1>5

\* What every script has, of the program at hand.
LEMMA ScriptFacts ==
    ASSUME prog \in Programs
    PROVE  /\ Script \in Seq(Steps) /\ Len(Script) \in Nat /\ ExitScript \in Seq(Resources)
           /\ Distinct(ExitScript)
           /\ \A k \in 1..Len(ExitScript) : \E j \in 1..Len(Script) : Script[j].does = ExitScript[k]
           /\ \A j \in 1..Len(Script) : Script[j].does \in Facts \cup Elems(ExitScript)
           /\ \A i \in 1..Len(Script) :
                /\ Script[i].kind = "tested" =>
                     /\ Distinct(Script[i].undo) /\ Script[i].undo \in Seq(Resources)
                     /\ \A k \in 1..Len(Script[i].undo) :
                          \E j \in 1..(i - 1) : Script[j].does = Script[i].undo[k]
                /\ Script[i].does[1] = "misc" => \E j \in 1..i : Script[j].does = Misc(1)
                /\ Script[i].kind = "logged" => prog \in Logging
                /\ Script[i].kind = "untested" => prog = "ex5"
                /\ Script[i].kind = "fatal" => prog \in Sharing
  <1>1. prog \in AllPrograms
    BY ProgramsAssumption
  <1>2. Shape(Script, ExitScript)
    BY <1>1, ScriptShape
  <1>3. Script \in Seq(Steps) /\ \A i \in 1..Len(Script) : Script[i].undo \in Seq(Resources)
    <2>1. Script \in Seq(Steps)
      BY <1>2 DEF Shape
    <2>2. \A i \in 1..Len(Script) : Script[i] \in Steps
      BY <2>1
    <2> QED BY <2>1, <2>2 DEF Steps
  <1>4. Len(Script) \in Nat
    BY <1>3
  <1> QED BY <1>1, <1>2, <1>3, <1>4, ScriptKinds DEF Shape

LEMMA ModuleInit == Init => ModuleInv
  <1> SUFFICES ASSUME Init PROVE ModuleInv
    OBVIOUS
  <1>1. prog \in Programs /\ Len(Script) \in Nat
    BY ScriptFacts DEF Init
  <1>2. Before(1) = {}
    BY DEF Before
  <1>3. ModuleOK
    <2>1. 1 \in 1..(Len(Script) + 1)
      BY <1>1
    <2>2. <<>> \in Seq(Resources)
      BY NoUndo
    <2> QED BY <1>1, <2>1, <2>2 DEF Init, ModuleOK
  <1>4. ForthInv
    BY <1>2 DEF Init, ForthInv, Forth
  <1>5. BackInv
    BY DEF Init, BackInv, Back
  <1> QED BY <1>3, <1>4, <1>5 DEF ModuleInv

\* A step that is not the module's may only show a fault.
LEMMA ModuleStutter ==
    ASSUME ModuleInv, UNCHANGED module, fault = "none",
           fault' \in {"none", "null", "trespass", "freed"}
    PROVE  ModuleInv'
  <1>1. Script' = Script /\ ExitScript' = ExitScript
    BY ScriptKept DEF module
  <1>2. ModuleOK'
    BY <1>1 DEF ModuleInv, ModuleOK, module
  <1>3. at \in Nat /\ Before(at)' = Before(at)
    <2>1. at \in Nat /\ Len(Script) \in Nat
      BY ScriptFacts DEF ModuleInv, ModuleOK
    <2> QED BY <1>1, <2>1 DEF Before, module
  <1>4. ForthInv'
    BY <1>1, <1>3 DEF ModuleInv, ForthInv, module
  <1>5. BackInv'
    BY DEF ModuleInv, BackInv, module, Distinct, Elems, Platform
  <1> QED BY <1>2, <1>4, <1>5 DEF ModuleInv

LEMMA LoadKeeps == ASSUME ModuleInv, Load PROVE ModuleInv'
  <1> USE DEF Load, ModuleInv
  <1>1. Script' = Script /\ Before(at)' = Before(at)
    BY ScriptKept DEF Before
  <1>2. ModuleOK'
    BY <1>1 DEF ModuleOK
  <1>3. ForthInv'
    BY <1>1 DEF ForthInv, Forth
  <1>4. BackInv'
    BY DEF BackInv, Back
  <1> QED BY <1>2, <1>3, <1>4

LEMMA AcquireKeeps == ASSUME ModuleInv, Acquire PROVE ModuleInv'
  <1> USE DEF Acquire, ModuleInv
  <1>1. Script' = Script /\ Len(Script) \in Nat /\ at \in Nat \ {0} /\ at \in 1..Len(Script)
    BY ScriptKept, ScriptFacts DEF ModuleOK
  <1>2. Before(at)' = Before(at) \cup {Script[at].does}
    <2>1. Before(at)' = Before(at + 1)
      BY <1>1 DEF Before
    <2> QED BY <1>1, <2>1, BeforeNext
  <1>3. ModuleOK'
    BY <1>1 DEF ModuleOK
  <1>4. ForthInv'
    <2>1. \A j \in 1..(at' - 1) : j \in 1..(at - 1) \/ j = at
      BY <1>1
    <2>2. stage = "loading" /\ stage' = "loading" /\ held \subseteq held'
          /\ Script[at].does \in held'
      OBVIOUS
    <2>3. \A j \in 1..(at' - 1) : Script[j].kind = "logged" \/ Script[j].does \in held'
      BY <2>1, <2>2 DEF ForthInv, Forth
    <2>4. held' \subseteq Before(at)' /\ (~failed => Before(at)' \subseteq held')
      BY <1>2, <2>2 DEF ForthInv, Forth
    <2> QED BY <1>1, <2>2, <2>3, <2>4 DEF ForthInv, Forth
  <1>5. BackInv'
    BY DEF BackInv, Back
  <1> QED BY <1>3, <1>4, <1>5

LEMMA AcquireFailsKeeps ==
    ASSUME ModuleInv, AcquireFails, fault = "none"
    PROVE  ModuleInv'
  <1> USE DEF ModuleInv
  <1>0. /\ stage = "loading" /\ at \in 1..Len(Script) /\ failed' = TRUE
        /\ UNCHANGED <<prog, held, excess>> /\ at \in Nat \ {0} /\ Len(Script) \in Nat
        /\ Script' = Script /\ prog \in Programs
    BY ScriptKept, ScriptFacts DEF ModuleOK, AcquireFails
  <1>1. held \subseteq Before(at) /\ ~excess
        /\ \A j \in 1..(at - 1) : Script[j].kind = "logged" \/ Script[j].does \in held
    BY <1>0 DEF ForthInv, Forth
  <1>2. CASE /\ Script[at].kind = "tested"
             /\ stage' = "undoing" /\ todo' = Script[at].undo
             /\ UNCHANGED <<at, fault>>
    <2>1. /\ Distinct(todo') /\ todo' \in Seq(Resources)
          /\ \A k \in 1..Len(todo') : \E j \in 1..(at - 1) : Script[j].does = todo'[k]
      BY <1>0, <1>2, ScriptFacts
    <2>2. ModuleOK'
      BY <1>0, <1>2, <2>1 DEF ModuleOK
    <2>3. ForthInv'
      <3>1. Before(at)' = Before(at)
        BY <1>0, <1>2 DEF Before
      <3> QED BY <1>0, <1>1, <1>2, <3>1 DEF ForthInv, Forth
    <2>4. prog \in Tidy => held \subseteq Elems(todo')
      BY <1>0, <1>1, <1>2, TidyUndo DEF Before
    <2>5. prog \notin Logging => Elems(todo') \subseteq held
      <3>1. ASSUME prog \notin Logging, NEW k \in 1..Len(todo') PROVE todo'[k] \in held
        <4>1. PICK j \in 1..(at - 1) : Script[j].does = todo'[k]
          BY <2>1
        <4>2. Script[j].kind # "logged"
          BY <1>0, <3>1, ScriptFacts
        <4> QED BY <1>1, <4>1, <4>2
      <3> QED BY <3>1 DEF Elems
    <2>6. Distinct(todo)' /\ Elems(todo)' = Elems(todo')
      BY <2>1 DEF Distinct, Elems
    <2>7. BackInv'
      BY <1>0, <1>1, <1>2, <2>4, <2>5, <2>6 DEF BackInv, Back
    <2> QED BY <2>2, <2>3, <2>7
  <1>3. CASE /\ Script[at].kind = "logged" /\ at' = at + 1
             /\ UNCHANGED <<stage, todo, fault>>
    <2>1. Before(at)' = Before(at) \cup {Script[at].does}
      <3>1. Before(at)' = Before(at + 1)
        BY <1>0, <1>3 DEF Before
      <3> QED BY <1>0, <3>1, BeforeNext
    <2>2. ModuleOK'
      BY <1>0, <1>3 DEF ModuleOK
    <2>3. prog \in Logging
      BY <1>0, <1>3, ScriptFacts
    <2>4. ForthInv'
      <3>1. \A j \in 1..(at' - 1) : j \in 1..(at - 1) \/ j = at
        BY <1>0, <1>3
      <3>2. \A j \in 1..(at' - 1) : Script[j].kind = "logged" \/ Script[j].does \in held
        BY <1>1, <1>3, <3>1
      <3> QED BY <1>0, <1>1, <1>3, <2>1, <2>3, <3>2 DEF ForthInv, Forth
    <2>5. BackInv'
      BY <1>0, <1>1, <1>3 DEF BackInv, Back
    <2> QED BY <2>2, <2>4, <2>5
  <1>4. CASE /\ Script[at].kind \in {"untested", "fatal"} /\ fault' = "null"
             /\ UNCHANGED <<stage, at, todo>>
    <2>1. ModuleOK'
      BY <1>0, <1>4 DEF ModuleOK
    <2>2. ForthInv'
      <3>1. Before(at)' = Before(at)
        BY <1>0, <1>4 DEF Before
      <3> QED BY <1>0, <1>1, <1>4, <3>1 DEF ForthInv, Forth
    <2>3. BackInv'
      BY <1>0, <1>1, <1>4 DEF BackInv, Back
    <2> QED BY <2>1, <2>2, <2>3
  <1> QED BY <1>2, <1>3, <1>4 DEF AcquireFails

LEMMA LoadedKeeps == ASSUME ModuleInv, Loaded PROVE ModuleInv'
  <1> USE DEF Loaded, ModuleInv
  <1>1. /\ Script' = Script /\ Before(at)' = Before(at) /\ at = Len(Script) + 1
    <2>1. Script' = Script /\ Before(at)' = Before(at)
      BY ScriptKept DEF Before
    <2> QED BY <2>1, ScriptFacts DEF ModuleOK
  <1>2. ModuleOK'
    BY <1>1 DEF ModuleOK
  <1>3. ForthInv'
    BY <1>1 DEF ForthInv, Forth
  <1>4. BackInv'
    BY DEF BackInv, Back
  <1> QED BY <1>2, <1>3, <1>4

LEMMA GiveBackKeeps == ASSUME ModuleInv, GiveBack PROVE ModuleInv'
  <1> USE DEF GiveBack, ModuleInv
  <1>1. /\ Script' = Script /\ Before(at)' = Before(at)
        /\ todo \in Seq(Resources) /\ Distinct(todo) /\ stage \in Back
    BY ScriptKept DEF Before, ModuleOK, BackInv, Back
  <1>2. /\ Elems(todo) = {Head(todo)} \cup Elems(Tail(todo))
        /\ Distinct(Tail(todo)) /\ Head(todo) \notin Elems(Tail(todo))
        /\ Tail(todo) \in Seq(Resources)
    BY <1>1, TailElems
  <1>3. ModuleOK'
    BY <1>1, <1>2 DEF ModuleOK
  <1>4. ForthInv'
    BY <1>1 DEF ForthInv, Forth
  <1>5. BackInv'
    <2>1. Distinct(todo)' /\ Elems(todo)' = Elems(Tail(todo))
      BY <1>2 DEF Distinct, Elems
    <2>2. (failed => prog \in Tidy) => held' \subseteq Facts \cup Elems(Tail(todo))
      BY <1>1, <1>2 DEF BackInv
    <2>3. (failed => prog \notin Logging) => Elems(Tail(todo)) \subseteq held'
      BY <1>1, <1>2 DEF BackInv
    <2>4. excess' => failed /\ prog \in Logging
      BY <1>1, <1>2 DEF BackInv
    <2> QED BY <1>1, <2>1, <2>2, <2>3, <2>4 DEF BackInv, Back
  <1> QED BY <1>3, <1>4, <1>5

LEMMA GivenBackKeeps == ASSUME ModuleInv, GivenBack PROVE ModuleInv'
  <1> USE DEF GivenBack, ModuleInv
  <1>1. /\ Script' = Script /\ Before(at)' = Before(at) /\ Elems(todo) = {}
        /\ stage \in Back /\ stage' \in {"unbound", "out"}
    BY ScriptKept DEF Before, Elems, Back
  <1>2. ModuleOK'
    BY <1>1 DEF ModuleOK
  <1>3. ForthInv'
    BY <1>1 DEF ForthInv, Forth
  <1>4. BackInv'
    BY <1>1 DEF BackInv, Back, Platform
  <1> QED BY <1>2, <1>3, <1>4

LEMMA UnloadKeeps == ASSUME ModuleInv, Unload, fault = "none" PROVE ModuleInv'
  <1> USE DEF Unload, ModuleInv
  <1>1. /\ Script' = Script /\ Before(at)' = Before(at) /\ stage' = "unloading"
        /\ prog \in Programs
    BY ScriptKept DEF Before, ModuleOK
  <1>2. ExitScript \in Seq(Resources) /\ Distinct(ExitScript)
    BY <1>1, ScriptFacts
  <1>3. Distinct(<<>>) /\ <<>> \in Seq(Resources) /\ Elems(<<>>) = {}
    BY NoUndo DEF Elems
  <1>4. ModuleOK'
    BY <1>1, <1>2, <1>3 DEF ModuleOK
  <1>5. ForthInv'
    BY <1>1 DEF ForthInv, Forth
  <1>6. Distinct(todo)' /\ Elems(todo)' = Elems(todo')
    <2>1. Distinct(todo')
      BY <1>2, <1>3
    <2> QED BY <2>1 DEF Distinct, Elems
  <1>7. CASE stage = "live"
    <2>1. todo' = ExitScript
      BY <1>7
    <2>2. held \subseteq Facts \cup Elems(ExitScript)
      BY <1>1, <1>7, ScriptFacts DEF ForthInv, Forth, Before
    <2>3. (failed => prog \notin Logging) => Elems(ExitScript) \subseteq held
      <3>1. ASSUME failed => prog \notin Logging, NEW k \in 1..Len(ExitScript)
            PROVE  ExitScript[k] \in held
        <4>1. PICK j \in 1..Len(Script) : Script[j].does = ExitScript[k]
          BY <1>1, ScriptFacts
        <4>2. Before(at) \subseteq held /\ at = Len(Script) + 1 /\ Len(Script) \in Nat
          BY <1>1, <1>7, <3>1, ScriptFacts DEF ForthInv, Forth
        <4>3. Script[j].does \in Before(at)
          BY <4>2 DEF Before
        <4> QED BY <4>1, <4>2, <4>3
      <3> QED BY <3>1 DEF Elems
    <2> QED BY <1>1, <1>4, <1>5, <1>6, <1>7, <2>1, <2>2, <2>3 DEF BackInv, Back
  <1>8. CASE stage = "unbound"
    <2>1. todo' = <<>> /\ failed /\ prog \notin Tidy
      BY <1>8 DEF BackInv, Platform, Tidy
    <2> QED BY <1>1, <1>3, <1>4, <1>5, <1>6, <1>8, <2>1 DEF BackInv, Back
  <1> QED BY <1>7, <1>8

LEMMA ModuleKept ==
    ASSUME ModuleInv, UsersInv, Next
    PROVE  ModuleInv'
  <1>0. fault = "none"
    BY DEF Next
  <1>1. CASE ModuleStep
    BY <1>0, <1>1, LoadKeeps, AcquireKeeps, AcquireFailsKeeps, LoadedKeeps, GiveBackKeeps,
       GivenBackKeeps, UnloadKeeps DEF ModuleStep
  <1>2. ASSUME NEW u \in Users, UserStep(u) PROVE ModuleInv'
    <2>1. UNCHANGED module
      BY <1>2, UserLeaves
    <2>2. fault' \in {"none", "null", "trespass", "freed"}
      BY <1>0, <1>2 DEF UserStep, Open, Close, ReadBegin, ReadTest, ReadCopy, ReadReturn,
         WriteBegin, WriteCopy, WriteSize, Faults, Fine, SizeFault, TextFault, CallFault
    <2> QED BY <1>0, <2>1, <2>2, ModuleStutter
  <1> QED BY <1>1, <1>2 DEF Next, ModuleStep

-----------------------------------------------------------------------------
(* Who has a file open, and what may go wrong then.                        *)

\* A device that is held has been registered, and the first with it.
LEMMA HeldIsRegistered ==
    ASSUME ModuleInv, NEW d \in Cells, Misc(d) \in held
    PROVE  Registered /\ (stage = "out" => failed)
  <1> USE DEF ModuleInv
  <1>1. Misc(d)[1] = "misc" /\ Misc(d) \notin Facts
    BY DEF Misc, Facts, R
  <1>2. prog \in Programs /\ Len(Script) \in Nat /\ at \in 1..(Len(Script) + 1)
    BY ScriptFacts DEF ModuleOK
  <1>3. PICK i \in 1..(at - 1) : Script[i].does = Misc(d)
    BY DEF ForthInv, Before
  <1>4. i \in 1..Len(Script) /\ Script[i].does[1] = "misc"
    BY <1>1, <1>2, <1>3
  <1>5. PICK j \in 1..i : Script[j].does = Misc(1)
    BY <1>2, <1>4, ScriptFacts
  <1>6. j \in 1..(at - 1)
    BY <1>2, <1>3, <1>5
  <1>7. Registered
    BY <1>5, <1>6 DEF Registered
  <1> QED BY <1>1, <1>7 DEF BackInv

LEMMA OpenInit == Init => OpenInv
  BY DEF Init, OpenInv

LEMMA OpenKept ==
    ASSUME ModuleInv, UsersInv, OpenInv, Next
    PROVE  OpenInv'
  <1>1. CASE ModuleStep
    <2>1. upc' = upc /\ Script' = Script /\ at \in Nat
         /\ (at' = at \/ at' = at + 1)
      <3>1. UNCHANGED <<prog, buffers, users>>
        BY <1>1, ModuleLeaves
      <3>2. at \in Nat
        BY ScriptFacts DEF ModuleInv, ModuleOK
      <3>3. at' = at \/ at' = at + 1
        BY <1>1 DEF ModuleStep, Load, Acquire, AcquireFails, Loaded, GiveBack, GivenBack, Unload
      <3> QED BY <3>1, <3>2, <3>3, ScriptKept DEF users
    <2>2. Registered => Registered'
      <3>1. ASSUME NEW i \in 1..(at - 1) PROVE i \in 1..(at' - 1)
        <4>1. CASE at' = at
          BY <4>1
        <4>2. CASE at' = at + 1
          <5>1. at \in Nat /\ i \in Nat /\ 1 <= i /\ i <= at - 1
            BY <2>1
          <5> QED BY <4>2, <5>1
        <4> QED BY <2>1, <4>1, <4>2
      <3> QED BY <2>1, <3>1 DEF Registered
    <2>3. ASSUME NEW u \in Users, upc[u] # "closed"
          PROVE  stage' # "unloading" /\ (stage' = "out" => failed')
      <3>1. stage # "unloading" /\ (stage = "out" => failed)
        BY <2>3 DEF OpenInv
      <3>2. CASE GivenBack
        BY <3>1, <3>2 DEF GivenBack, ModuleInv, BackInv
      <3>3. CASE ~GivenBack
        BY <1>1, <2>3, <3>1, <3>3
           DEF ModuleStep, Load, Acquire, AcquireFails, Loaded, GiveBack, Unload
      <3> QED BY <3>2, <3>3
    <2> QED BY <2>1, <2>2, <2>3 DEF OpenInv
  <1>2. ASSUME NEW u \in Users, UserStep(u) PROVE OpenInv'
    <2>1. UNCHANGED module /\ Registered' = Registered
      BY <1>2, UserLeaves, ScriptKept DEF Registered, module
    <2>2. CASE \E d \in Cells : Open(u, d)
      <3>1. PICK d \in Cells : Open(u, d)
        BY <2>2
      <3>2. Registered /\ stage # "unloading" /\ (stage = "out" => failed)
        BY <3>1, HeldIsRegistered DEF Open
      <3> QED BY <2>1, <3>2 DEF OpenInv, module
    <2>3. CASE ~\E d \in Cells : Open(u, d)
      <3>1. upc[u] # "closed" /\ \A v \in Users \ {u} : upc'[v] = upc[v]
        <4>1. upc \in [Users -> UserSteps]
          BY DEF UsersInv, UsersOK
        <4> QED BY <1>2, <2>3, <4>1 DEF UserStep, Close, ReadBegin, ReadTest, ReadCopy, ReadReturn,
                WriteBegin, WriteCopy, WriteSize, Faults, users
      <3> QED BY <2>1, <3>1 DEF OpenInv, module
    <2> QED BY <2>2, <2>3
  <1> QED BY <1>1, <1>2 DEF Next, ModuleStep

\* Once the module is live, everything that its script acquires is there.
LEMMA LiveHasAll ==
    ASSUME ModuleInv, Io = "shared", stage = "live"
    PROVE  {R("offset"), R("buffer"), R("sizes")} \subseteq held
  <1> USE DEF ModuleInv
  <1>1. prog \in Sharing /\ prog \in Programs
    BY ProgramsAssumption
       DEF Sharing, ModuleOK, AllPrograms, Io, Ex2Io, BusIo, Ex5Io, Ex3Io, OneIo, Ex6Io, Ex7Io
  <1>2. at = Len(Script) + 1 /\ Len(Script) \in Nat
    BY <1>1, ScriptFacts DEF ForthInv
  <1>3. \A j \in 1..Len(Script) : Script[j].does \in held
    BY <1>1, <1>2, ScriptFacts DEF ForthInv, Forth, Logging, Sharing
  <1> QED BY <1>1, <1>3, SharedSteps

\* The structures of ex6 go only when its loading has failed, or when it is
\* unloaded.
LEMMA FreedExplained ==
    ASSUME ModuleInv, Registered, stage # "unloading", stage = "out" => failed, Freed
    PROVE  failed
  <1> USE DEF ModuleInv
  <1>1. CASE stage = "out"
    BY <1>1
  <1>2. CASE Io = "own" /\ R("devices") \notin held /\ stage # "out"
    <2>1. prog = "ex6" /\ prog \in Programs
      BY <1>2, ProgramsAssumption
         DEF ModuleOK, AllPrograms, Io, Ex2Io, BusIo, Ex5Io, Ex3Io, OneIo, Ex6Io, Ex7Io
    <2>2. PICK i \in 1..(at - 1) : Script[i].does = Misc(1)
      BY DEF Registered
    <2>3. at \in 1..(Len(Script) + 1) /\ Len(Script) \in Nat
      BY <2>1, ScriptFacts DEF ModuleOK
    <2>4. i \in 1..Len(Script) /\ Script[i].does[1] = "misc"
      BY <2>2, <2>3, Named
    <2>5. PICK j \in 1..(i - 1) : Script[j].does = R("devices")
      BY <2>1, <2>4, OwnSteps
    <2>6. j \in 1..(at - 1)
      BY <2>2, <2>3, <2>5
    <2>7. R("devices") \in Before(at)
      BY <2>5, <2>6 DEF Before
    <2>8. stage \notin Forth => failed
      BY <1>2 DEF ModuleOK, BackInv, Forth
    <2> QED BY <1>2, <2>7, <2>8 DEF ForthInv
  <1> QED BY <1>1, <1>2 DEF Freed

\* A step to a bad access has one of the causes listed.
LEMMA FaultsKept ==
    ASSUME ModuleInv, UsersInv, OpenInv, Next
    PROVE  FaultsExplained'
  <1>0. fault = "none"
    BY DEF Next
  <1>1. CASE ModuleStep
    <2>1. CASE fault' = "none"
      BY <2>1 DEF FaultsExplained
    <2>2. CASE fault' # "none"
      <3>1. AcquireFails /\ stage = "loading" /\ failed' = TRUE
            /\ Script[at].kind \in {"untested", "fatal"}
            /\ fault' = "null" /\ stage' = stage /\ prog' = prog /\ at <= Len(Script)
        BY <1>0, <1>1, <2>2 DEF ModuleStep, Load, Acquire, AcquireFails, Loaded, GiveBack,
           GivenBack, Unload
      <3>2. prog = "ex5" \/ prog \in Sharing
        <4>1. at \in 1..Len(Script)
          BY <3>1, ScriptFacts DEF ModuleInv, ModuleOK
        <4>2. /\ Script[at].kind = "untested" => prog = "ex5"
              /\ Script[at].kind = "fatal" => prog \in Sharing
          BY <4>1, ScriptFacts DEF ModuleInv, ModuleOK
        <4> QED BY <3>1, <4>2
      <3>3. prog \in Sharing => Io' = "shared"
        BY <3>1 DEF Sharing, Io, Ex3Io, OneIo
      <3> QED BY <3>1, <3>2, <3>3 DEF FaultsExplained
    <2> QED BY <2>1, <2>2
  <1>2. ASSUME NEW u \in Users, UserStep(u), fault' # "none" PROVE FaultsExplained'
    <2>1. UNCHANGED <<module, buffers, users>>
      BY <1>0, <1>2, UserLeaves
         DEF UserStep, Open, Close, ReadBegin, ReadTest, ReadCopy, ReadReturn,
             WriteBegin, WriteCopy, WriteSize, Faults, Fine
    <2>2. Script' = Script /\ Io' = Io /\ Registered' = Registered
      BY <2>1, ScriptKept, IoKept DEF module, Registered
    <2>3. /\ fault' = "freed" => Freed
          /\ fault' = "null" => Io = "shared" /\ (R("sizes") \notin held \/ R("buffer") \notin held)
          /\ fault' = "trespass" => Io = "shared" /\ (dev[u] > 1 \/ stale[u])
          /\ fault' \in {"freed", "null", "trespass"}
      <3>1. \A m \in Messages : Length[m] \in Nat
        BY NoneIsNoMessage
      <3>2. upc[u] = "copyIn" => ~(Length[msg[u]] >= BufferSize)
        BY DEF UsersInv, UsersOK, Writing, TooLong
      <3> QED BY <1>0, <1>2, <3>2 DEF UserStep, Open, Close, ReadBegin, ReadTest, ReadCopy, ReadReturn,
              WriteBegin, WriteCopy, WriteSize, Faults, Fine, SizeFault, TextFault, CallFault
    <2>4. Registered /\ stage # "unloading" /\ (stage = "out" => failed)
      <3>1. CASE upc[u] = "closed"
        <4>1. PICK d \in Cells : Open(u, d)
          BY <1>2, <3>1 DEF UserStep, Close, ReadBegin, ReadTest, ReadCopy, ReadReturn, WriteBegin,
             WriteCopy, WriteSize
        <4> QED BY <4>1, HeldIsRegistered DEF Open
      <3>2. CASE upc[u] # "closed"
        BY <3>2 DEF OpenInv
      <3> QED BY <3>1, <3>2
    <2>5. CASE fault' = "freed"
      BY <2>1, <2>2, <2>3, <2>4, <2>5, FreedExplained DEF FaultsExplained, Registered, module
    <2>6. CASE fault' = "null"
      BY <2>1, <2>2, <2>3, <2>6, LiveHasAll DEF FaultsExplained, module
    <2>7. CASE fault' = "trespass"
      BY <2>1, <2>2, <2>3, <2>7 DEF FaultsExplained, users
    <2> QED BY <2>3, <2>5, <2>6, <2>7
  <1>3. CASE fault' = "none"
    BY <1>3 DEF FaultsExplained
  <1> QED BY <1>1, <1>2, <1>3 DEF Next, ModuleStep

-----------------------------------------------------------------------------
(* What resources need, and the order of the scripts.                      *)

\* Needs (r), but that what `off' names needs nothing.
NeedsOf(r, off) ==
    CASE r = R("group")  -> {R("device")}
      [] r = R("device") -> {R("class")}
      [] r = R("file")   -> {R("platform")}
      [] r[1] = "misc" /\ "misc" \notin off -> {R("devices")}
      [] r[1] = "irq" /\ "irq" \notin off -> {<<"gpio", r[2]>>}
      [] OTHER -> {}

\* A script s and its way back e, in the order that needs ask for.
Forward(s, off) ==
    \A i \in 1..Len(s) : \A n \in NeedsOf(s[i].does, off) :
       \E j \in 1..(i - 1) : s[j].does = n /\ s[j].kind # "logged"
Backward(s, l, e, off) ==
    \A h \in 1..l, k \in 1..Len(e) :
       e[k] \in NeedsOf(s[h].does, off) => \E j \in 1..(k - 1) : e[j] = s[h].does
Sorted(s, e, off) ==
    /\ Forward(s, off)
    /\ \A i \in 1..Len(s) : s[i].kind = "tested" => Backward(s, i - 1, s[i].undo, {"misc"})
    /\ Backward(s, Len(s), e, off \cup {"irq"})

LEMMA NeedsTable == ASSUME NEW off
  PROVE  /\ NeedsOf(R("group"), off) = {R("device")}
         /\ NeedsOf(R("device"), off) = {R("class")}
         /\ NeedsOf(R("file"), off) = {R("platform")}
         /\ \A d \in Nat : NeedsOf(Misc(d), off) = IF "misc" \in off THEN {} ELSE {R("devices")}
         /\ \A key \in Nat : NeedsOf(<<"irq", key>>, off) =
                IF "irq" \in off THEN {} ELSE {<<"gpio", key>>}
         /\ \A key \in Nat : /\ NeedsOf(<<"gpio", key>>, off) = {}
                             /\ NeedsOf(<<"number", key>>, off) = {}
         /\ \A n \in {"platform", "class", "data", "devices", "offset", "buffer", "sizes"} :
              NeedsOf(R(n), off) = {}
  <1>2. /\ NeedsOf(R("group"), off) = {R("device")}
        /\ NeedsOf(R("device"), off) = {R("class")}
        /\ NeedsOf(R("file"), off) = {R("platform")}
    BY DEF NeedsOf, R
  <1>3. ASSUME NEW d \in Nat
        PROVE  NeedsOf(Misc(d), off) = IF "misc" \in off THEN {} ELSE {R("devices")}
    BY DEF NeedsOf, R, Misc
  <1>4. ASSUME NEW d \in Nat
        PROVE  /\ NeedsOf(<<"irq", d>>, off) =
                    IF "irq" \in off THEN {} ELSE {<<"gpio", d>>}
               /\ NeedsOf(<<"gpio", d>>, off) = {} /\ NeedsOf(<<"number", d>>, off) = {}
    BY DEF NeedsOf, R
  <1>5. ASSUME NEW n \in {"platform", "class", "data", "devices", "offset", "buffer", "sizes"}
        PROVE  NeedsOf(R(n), off) = {}
    BY DEF NeedsOf, R
  <1> QED BY <1>2, <1>3, <1>4, <1>5

\* With no needs at all, any order will do.
LEMMA FreeSorted ==
    ASSUME NEW s, NEW e, NEW off,
           Len(s) \in Nat,
           \A i \in 1..Len(s) : /\ NeedsOf(s[i].does, off) = {}
                                /\ NeedsOf(s[i].does, {"misc"}) = {}
                                /\ NeedsOf(s[i].does, off \cup {"irq"}) = {}
    PROVE  Sorted(s, e, off)
  <1>1. \A i \in 1..Len(s) : \A h \in 1..(i - 1) : h \in 1..Len(s)
    OBVIOUS
  <1> QED BY <1>1 DEF Sorted, Forward, Backward

\* Nothing to give back is in any order.
LEMMA NoneSorted == ASSUME NEW s, NEW l PROVE Backward(s, l, <<>>, {"misc"})
  BY NoUndo DEF Backward

LEMMA Ex2Sorted == Sorted(Ex2Init, Ex2Exit, {"misc"})
  <1> DEFINE s == Ex2Init
  <1>1. Len(s) = 1 /\ s[1].does = Misc(1)
    BY Fields DEF Ex2Init
  <1>2. NeedsOf(Misc(1), {"misc"}) = {} /\ NeedsOf(Misc(1), {"misc"} \cup {"irq"}) = {}
    BY NeedsTable
  <1>3. \A i \in 1..1 : i = 1
    OBVIOUS
  <1> HIDE DEF s
  <1>4. \A i \in 1..Len(s) : /\ NeedsOf(s[i].does, {"misc"}) = {}
                             /\ NeedsOf(s[i].does, {"misc"} \cup {"irq"}) = {}
    BY <1>1, <1>2, <1>3
  <1>5. Sorted(s, Ex2Exit, {"misc"})
    <2>1. Len(s) \in Nat
      BY <1>1
    <2> DEFINE off == {"misc"}
    <2>2. \A i \in 1..Len(s) : /\ NeedsOf(s[i].does, off) = {}
                               /\ NeedsOf(s[i].does, {"misc"}) = {}
                               /\ NeedsOf(s[i].does, off \cup {"irq"}) = {}
      BY <1>4
    <2> HIDE DEF off
    <2>3. Sorted(s, Ex2Exit, off)
      BY <2>1, <2>2, FreeSorted
    <2> QED BY <2>3 DEF off
  <1> QED BY <1>5 DEF s

\* In order, file needs platform, device needs class, group needs device.
LEMMA Ex5Sorted == Sorted(Ex5Init, Ex5Exit, {"misc"})
  <1> DEFINE s == Ex5Init  e == Ex5Exit
             u2 == <<Misc(1)>>
             u3 == <<R("platform"), Misc(1)>>
             u6 == <<R("device"), R("class"), R("file"), R("platform"), Misc(1)>>
             both == {"misc"} \cup {"irq"}
  <1>1. /\ Len(s) = 6 /\ s[1] = Try(Misc(1), <<>>)
        /\ s[2] = Try(R("platform"), u2)
        /\ s[3] = Try(R("file"), u3)
        /\ s[4] = Trust(R("class")) /\ s[5] = Trust(R("device"))
        /\ s[6] = Try(R("group"), u6)
    BY DEF Ex5Init
  <1>2. /\ Len(e) = 6 /\ e[1] = R("group") /\ e[2] = R("device")
        /\ e[3] = R("class") /\ e[4] = R("file") /\ e[5] = R("platform")
        /\ e[6] = Misc(1)
    BY DEF Ex5Exit
  <1>3. /\ Len(u2) = 1 /\ u2[1] = Misc(1) /\ Len(u3) = 2 /\ u3[1] = R("platform") /\ u3[2] = Misc(1)
        /\ Len(u6) = 5 /\ u6[1] = R("device") /\ u6[2] = R("class") /\ u6[3] = R("file")
        /\ u6[4] = R("platform") /\ u6[5] = Misc(1)
    OBVIOUS
  <1> HIDE DEF s, e, u2, u3, u6
  <1>4. /\ s[1].does = Misc(1) /\ s[2].does = R("platform") /\ s[3].does = R("file")
        /\ s[4].does = R("class") /\ s[5].does = R("device") /\ s[6].does = R("group")
        /\ s[1].undo = <<>> /\ s[2].undo = u2 /\ s[3].undo = u3 /\ s[6].undo = u6
        /\ s[2].kind = "tested" /\ s[4].kind = "untested" /\ s[5].kind = "untested"
    BY <1>1, Fields
  <1>5. \A off \in {{"misc"}, both} :
          /\ NeedsOf(Misc(1), off) = {} /\ NeedsOf(R("platform"), off) = {}
          /\ NeedsOf(R("class"), off) = {}
          /\ NeedsOf(R("file"), off) = {R("platform")}
          /\ NeedsOf(R("device"), off) = {R("class")}
          /\ NeedsOf(R("group"), off) = {R("device")}
    BY NeedsTable
  <1> HIDE DEF both
  <1>5a. \A off \in {{"misc"}, both} :
          /\ NeedsOf(s[1].does, off) = {} /\ NeedsOf(s[2].does, off) = {}
          /\ NeedsOf(s[4].does, off) = {}
          /\ NeedsOf(s[3].does, off) = {R("platform")}
          /\ NeedsOf(s[5].does, off) = {R("class")}
          /\ NeedsOf(s[6].does, off) = {R("device")}
    BY <1>4, <1>5
  <1>6. /\ 1..6 = {1, 2, 3, 4, 5, 6} /\ 1..5 = {1, 2, 3, 4, 5} /\ 1..4 = {1, 2, 3, 4}
        /\ 1..3 = {1, 2, 3} /\ 1..2 = {1, 2} /\ 1..1 = {1} /\ 1..0 = {}
    OBVIOUS
  <1>7. Forward(s, {"misc"})
    <2>1. /\ 2 \in 1..(3 - 1) /\ 4 \in 1..(5 - 1) /\ 5 \in 1..(6 - 1)
      OBVIOUS
    <2>3. /\ NeedsOf(s[1].does, {"misc"}) = {} /\ NeedsOf(s[2].does, {"misc"}) = {}
          /\ NeedsOf(s[4].does, {"misc"}) = {} /\ NeedsOf(s[3].does, {"misc"}) = {R("platform")}
          /\ NeedsOf(s[5].does, {"misc"}) = {R("class")}
          /\ NeedsOf(s[6].does, {"misc"}) = {R("device")}
      BY <1>5a
    <2>2. ASSUME NEW i \in 1..6, NEW n \in NeedsOf(s[i].does, {"misc"})
          PROVE  \E j \in 1..(i - 1) : s[j].does = n /\ s[j].kind # "logged"
      <3>1. CASE i = 3
        BY <1>4, <2>1, <2>2, <2>3, <3>1
      <3>2. CASE i = 5
        BY <1>4, <2>1, <2>2, <2>3, <3>2
      <3>3. CASE i = 6
        BY <1>4, <2>1, <2>2, <2>3, <3>3
      <3>4. CASE i \in {1, 2, 4}
        BY <2>2, <2>3, <3>4
      <3> QED BY <1>6, <3>1, <3>2, <3>3, <3>4
    <2> QED BY <1>1, <2>2 DEF Forward
  <1>8. /\ R("class") # R("platform") /\ R("class") # R("device") /\ R("class") # Misc(1)
        /\ R("class") # R("file") /\ R("platform") # R("device") /\ R("platform") # R("file")
        /\ R("platform") # Misc(1) /\ R("device") # Misc(1) /\ R("device") # R("file")
        /\ R("group") # R("class") /\ R("group") # R("device") /\ R("group") # R("platform")
    BY DEF R, Misc
  <1>9. Backward(s, 5, u6, {"misc"})
    <2>1. \A h \in {1, 2, 3, 4, 5}, k \in {1, 2, 3, 4, 5} :
             u6[k] \in NeedsOf(s[h].does, {"misc"}) => (h = 5 /\ k = 2) \/ (h = 3 /\ k = 4)
      BY <1>3, <1>5a, <1>8
    <2>2. 1 \in 1..(2 - 1) /\ 3 \in 1..(4 - 1)
      OBVIOUS
    <2>3. u6[1] = s[5].does /\ u6[3] = s[3].does
      BY <1>3, <1>4
    <2> QED BY <1>3, <1>6, <2>1, <2>2, <2>3 DEF Backward
  <1>10. Backward(s, 2, u3, {"misc"})
    <2>1. \A h \in {1, 2}, k \in {1, 2} : u3[k] \notin NeedsOf(s[h].does, {"misc"})
      BY <1>5a
    <2> QED BY <1>3, <1>6, <2>1 DEF Backward
  <1>11. Backward(s, 1, u2, {"misc"})
    <2>1. u2[1] \notin NeedsOf(s[1].does, {"misc"})
      BY <1>5a
    <2> QED BY <1>3, <1>6, <2>1 DEF Backward
  <1>12. Backward(s, 6, e, both)
    <2>1. \A h \in {1, 2, 3, 4, 5, 6}, k \in {1, 2, 3, 4, 5, 6} :
             e[k] \in NeedsOf(s[h].does, both) =>
               (h = 6 /\ k = 2) \/ (h = 5 /\ k = 3) \/ (h = 3 /\ k = 5)
      BY <1>2, <1>5a, <1>8
    <2>2. 1 \in 1..(2 - 1) /\ 2 \in 1..(3 - 1) /\ 4 \in 1..(5 - 1)
      OBVIOUS
    <2>3. e[1] = s[6].does /\ e[2] = s[5].does /\ e[4] = s[3].does
      BY <1>2, <1>4
    <2> QED BY <1>2, <1>6, <2>1, <2>2, <2>3 DEF Backward
  <1>13. \A i \in 1..6 : s[i].kind = "tested" => Backward(s, i - 1, s[i].undo, {"misc"})
    <2>1. \A i \in {1, 2, 3, 4, 5, 6} : s[i].kind = "tested" => i = 1 \/ i = 2 \/ i = 3 \/ i = 6
      BY <1>4
    <2>2. Backward(s, 1 - 1, s[1].undo, {"misc"})
      BY <1>4, NoneSorted
    <2>3. /\ Backward(s, 2 - 1, s[2].undo, {"misc"}) /\ Backward(s, 3 - 1, s[3].undo, {"misc"})
          /\ Backward(s, 6 - 1, s[6].undo, {"misc"})
      BY <1>4, <1>9, <1>10, <1>11
    <2> QED BY <1>6, <2>1, <2>2, <2>3
  <1>14. Sorted(s, e, {"misc"})
    BY <1>1, <1>7, <1>12, <1>13 DEF Sorted, both
  <1> QED BY <1>14 DEF s, e

LEMMA BusSorted == Sorted(BusInit, BusExit, {"misc"})
  <1> DEFINE s == BusInit  e == BusExit
             u2 == <<Misc(1)>>
             u3 == <<R("platform"), Misc(1)>>
             both == {"misc"} \cup {"irq"}
  <1>1. /\ Len(s) = 3 /\ s[1] = Try(Misc(1), <<>>)
        /\ s[2] = Try(R("platform"), u2) /\ s[3] = Try(R("file"), u3)
        /\ Len(e) = 3 /\ e[1] = R("file") /\ e[2] = R("platform") /\ e[3] = Misc(1)
    BY DEF BusInit, BusExit
  <1>2. Len(u2) = 1 /\ u2[1] = Misc(1) /\ Len(u3) = 2 /\ u3[1] = R("platform") /\ u3[2] = Misc(1)
    OBVIOUS
  <1> HIDE DEF s, e, u2, u3
  <1>3. /\ s[1].does = Misc(1) /\ s[2].does = R("platform") /\ s[3].does = R("file")
        /\ s[1].undo = <<>> /\ s[2].undo = u2 /\ s[3].undo = u3
        /\ s[2].kind = "tested"
    BY <1>1, Fields
  <1>4. \A off \in {{"misc"}, both} :
          /\ NeedsOf(Misc(1), off) = {} /\ NeedsOf(R("platform"), off) = {}
          /\ NeedsOf(R("file"), off) = {R("platform")}
    BY NeedsTable
  <1> HIDE DEF both
  <1>5. \A off \in {{"misc"}, both} :
          /\ NeedsOf(s[1].does, off) = {} /\ NeedsOf(s[2].does, off) = {}
          /\ NeedsOf(s[3].does, off) = {R("platform")}
    BY <1>3, <1>4
  <1>6. 1..3 = {1, 2, 3} /\ 1..2 = {1, 2} /\ 1..1 = {1} /\ 1..0 = {}
    OBVIOUS
  <1>7. Forward(s, {"misc"})
    <2>1. 2 \in 1..(3 - 1)
      OBVIOUS
    <2>2. /\ NeedsOf(s[1].does, {"misc"}) = {} /\ NeedsOf(s[2].does, {"misc"}) = {}
          /\ NeedsOf(s[3].does, {"misc"}) = {R("platform")}
      BY <1>5
    <2>3. ASSUME NEW i \in 1..3, NEW n \in NeedsOf(s[i].does, {"misc"})
          PROVE  \E j \in 1..(i - 1) : s[j].does = n /\ s[j].kind # "logged"
      <3>1. CASE i = 3
        BY <1>3, <2>1, <2>2, <2>3, <3>1
      <3>2. CASE i \in {1, 2}
        BY <2>2, <2>3, <3>2
      <3> QED BY <1>6, <3>1, <3>2
    <2> QED BY <1>1, <2>3 DEF Forward
  <1>8. R("platform") # R("file") /\ R("platform") # Misc(1)
    BY DEF R, Misc
  <1>9. Backward(s, 2, u3, {"misc"}) /\ Backward(s, 1, u2, {"misc"})
    <2>1. \A h \in {1, 2}, x \in {1, 2} : u3[x] \notin NeedsOf(s[h].does, {"misc"})
      BY <1>5
    <2>2. u2[1] \notin NeedsOf(s[1].does, {"misc"})
      BY <1>5
    <2> QED BY <1>2, <1>6, <2>1, <2>2 DEF Backward
  <1>10. Backward(s, 3, e, both)
    <2>1. \A h \in {1, 2, 3}, k \in {1, 2, 3} : e[k] \in NeedsOf(s[h].does, both) => h = 3 /\ k = 2
      BY <1>1, <1>5, <1>8
    <2>2. 1 \in 1..(2 - 1) /\ e[1] = s[3].does
      BY <1>1, <1>3
    <2> QED BY <1>1, <1>6, <2>1, <2>2 DEF Backward
  <1>11. \A i \in 1..3 : s[i].kind = "tested" => Backward(s, i - 1, s[i].undo, {"misc"})
    <2>1. Backward(s, 1 - 1, s[1].undo, {"misc"})
      BY <1>3, NoneSorted
    <2>2. Backward(s, 2 - 1, s[2].undo, {"misc"}) /\ Backward(s, 3 - 1, s[3].undo, {"misc"})
      BY <1>3, <1>9
    <2> QED BY <1>6, <2>1, <2>2
  <1>12. Sorted(s, e, {"misc"})
    BY <1>1, <1>7, <1>10, <1>11 DEF Sorted, both
  <1> QED BY <1>12 DEF s, e

LEMMA LateSorted ==
    ASSUME NEW n \in Nat
    PROVE  Sorted(LateInit(n), LateExit(n), {"misc"})
  <1> DEFINE s == LateInit(n)  e == LateExit(n)  off == {"misc"}
  <1>1. LateIs(n, s, e)
    BY LateScript
  <1> HIDE DEF s, e
  <1>2. ASSUME NEW o \in {off, off \cup {"irq"}}, NEW i \in 1..Len(s)
        PROVE  NeedsOf(s[i].does, o) = {}
    <2>1. /\ \A d \in 1..n : NeedsOf(Misc(d), o) = {}
          /\ NeedsOf(R("devices"), o) = {} /\ NeedsOf(R("offset"), o) = {}
          /\ NeedsOf(R("buffer"), o) = {} /\ NeedsOf(R("sizes"), o) = {}
      BY NeedsTable
    <2>2. CASE \E d \in 1..n : i = d + 1
      BY <1>1, <2>1, <2>2 DEF LateIs
    <2>3. CASE i \in {1, n + 2, n + 3, n + 4}
      BY <1>1, <2>1, <2>3 DEF LateIs
    <2> QED BY <1>1, <2>2, <2>3 DEF LateIs
  <1>3. Len(s) \in Nat
    BY <1>1 DEF LateIs
  <1>4. off = {"misc"}
    OBVIOUS
  <1> HIDE DEF off
  <1>5. Sorted(s, e, off)
    BY <1>2, <1>3, <1>4, FreeSorted
  <1> QED BY <1>4, <1>5 DEF s, e

\* Each device of ex6 comes after their number, and goes before it.
LEMMA Ex6Sorted ==
    ASSUME CountDeviceOn \in Nat
    PROVE  Sorted(Ex6Init, Ex6Exit, {})
  <1> DEFINE n == CountDeviceOn
             s == Ex6Init  e == Ex6Exit
             back == <<R("devices"), R("data")>>
  <1>1. Ex6Is(n, s, e)
    BY Ex6Script
  <1>2. Len(back) = 2 /\ back[1] = R("devices") /\ back[2] = R("data")
    OBVIOUS
  <1> HIDE DEF s, e
  <1>3. /\ s \in Seq(Steps) /\ Len(s) = n + 2 /\ Len(e) = n + 2
        /\ s[1].does = R("data") /\ s[2].does = R("devices")
        /\ \A d \in 1..n : s[d + 2].does = Misc(d) /\ e[d] = Misc(d)
        /\ e[n + 1] = R("devices") /\ e[n + 2] = R("data")
        /\ \A i \in 1..Len(s) : i \in {1, 2} \/ \E d \in 1..n : i = d + 2
        /\ \A k \in 1..Len(e) : k \in 1..n \/ k \in {n + 1, n + 2}
        /\ \A i \in 1..Len(s) : s[i].kind = "tested"
    BY <1>1 DEF Ex6Is
  <1>4. /\ \A d \in Nat : /\ NeedsOf(Misc(d), {}) = {R("devices")}
                          /\ NeedsOf(Misc(d), {} \cup {"irq"}) = {R("devices")}
                          /\ NeedsOf(Misc(d), {"misc"}) = {}
        /\ \A off \in {{}, {} \cup {"irq"}, {"misc"}} :
             NeedsOf(R("data"), off) = {} /\ NeedsOf(R("devices"), off) = {}
    BY NeedsTable
  <1>5. Forward(s, {})
    <2>1. ASSUME NEW i \in 1..Len(s), NEW x \in NeedsOf(s[i].does, {})
          PROVE  \E j \in 1..(i - 1) : s[j].does = x /\ s[j].kind # "logged"
      <3>1. CASE i \in {1, 2}
        BY <1>3, <1>4, <2>1, <3>1
      <3>2. CASE \E d \in 1..n : i = d + 2
        <4>1. PICK d \in 1..n : i = d + 2
          BY <3>2
        <4>2. x = R("devices")
          <5>1. s[i].does = Misc(d) /\ d \in Nat
            BY <1>3, <4>1
          <5>2. NeedsOf(Misc(d), {}) = {R("devices")}
            BY <1>4, <5>1
          <5> QED BY <2>1, <5>1, <5>2
        <4>3. 2 \in 1..(i - 1) /\ 2 \in 1..Len(s)
          BY <1>3, <4>1
        <4> QED BY <1>3, <4>2, <4>3
      <3> QED BY <1>3, <3>1, <3>2
    <2> QED BY <2>1 DEF Forward
  <1>6. ASSUME NEW i \in 1..Len(s) PROVE NeedsOf(s[i].does, {"misc"}) = {}
    <2>1. CASE i \in {1, 2}
      BY <1>3, <1>4, <2>1
    <2>2. CASE \E d \in 1..n : i = d + 2
      <3>1. PICK d \in 1..n : i = d + 2
        BY <2>2
      <3>2. s[i].does = Misc(d) /\ d \in Nat
        BY <1>3, <3>1
      <3> QED BY <1>4, <3>2
    <2> QED BY <1>3, <2>1, <2>2
  <1>7. \A i \in 1..Len(s) : Backward(s, i - 1, s[i].undo, {"misc"})
    <2>1. \A i \in 1..Len(s) : \A h \in 1..(i - 1) : h \in 1..Len(s)
      BY <1>3
    <2> QED BY <1>6, <2>1 DEF Backward
  <1>8. Backward(s, Len(s), e, {} \cup {"irq"})
    <2>1. ASSUME NEW h \in 1..Len(s), NEW k \in 1..Len(e),
                 e[k] \in NeedsOf(s[h].does, {} \cup {"irq"})
          PROVE  \E j \in 1..(k - 1) : e[j] = s[h].does
      <3>1. CASE h \in {1, 2}
        BY <1>3, <1>4, <2>1, <3>1
      <3>2. CASE \E d \in 1..n : h = d + 2
        <4>1. PICK d \in 1..n : h = d + 2
          BY <3>2
        <4>2. e[k] = R("devices")
          <5>1. s[h].does = Misc(d) /\ d \in Nat
            BY <1>3, <4>1
          <5>2. NeedsOf(Misc(d), {} \cup {"irq"}) = {R("devices")}
            BY <1>4, <5>1
          <5> QED BY <2>1, <5>1, <5>2
        <4>3. \A m \in 1..n : e[m] # R("devices")
          <5>1. \A m \in 1..n : Misc(m) # R("devices")
            BY DEF Misc, R
          <5> QED BY <1>3, <5>1
        <4>4. d \in 1..(k - 1)
          BY <1>3, <4>2, <4>3
        <4> QED BY <1>3, <4>1, <4>4
      <3> QED BY <1>3, <3>1, <3>2
    <2> QED BY <2>1 DEF Backward
  <1>9. Sorted(s, e, {})
    BY <1>5, <1>7, <1>8 DEF Sorted
  <1> QED BY <1>9 DEF s, e

\* Each interrupt comes after its GPIO.
LEMMA KeysForward == Forward(KeysInit, {"misc"})
  <1> DEFINE s == KeysInit
  <1>1. /\ Len(s) = 9
        /\ s[1].does = <<"gpio", 1>> /\ s[2].does = <<"number", 1>>
        /\ s[3].does = <<"gpio", 2>> /\ s[4].does = <<"number", 2>>
        /\ s[5].does = <<"gpio", 3>> /\ s[6].does = <<"number", 3>>
        /\ s[7].does = <<"irq", 1>> /\ s[8].does = <<"irq", 2>> /\ s[9].does = <<"irq", 3>>
    BY KeysScript, Fields
  <1>2. \A j \in {1, 3, 5} : s[j].kind = "tested"
    BY KeysScript, Fields
  <1> HIDE DEF s
  <1>3. ASSUME NEW key \in 1..3
        PROVE  /\ NeedsOf(<<"gpio", key>>, {"misc"}) = {}
               /\ NeedsOf(<<"number", key>>, {"misc"}) = {}
               /\ NeedsOf(<<"irq", key>>, {"misc"}) = {<<"gpio", key>>}
    <2>1. key \in Nat /\ "irq" \notin {"misc"}
      OBVIOUS
    <2> QED BY <2>1, NeedsTable
  <1>4. /\ \A i \in {1, 2, 3, 4, 5, 6} : NeedsOf(s[i].does, {"misc"}) = {}
        /\ NeedsOf(s[7].does, {"misc"}) = {s[1].does}
        /\ NeedsOf(s[8].does, {"misc"}) = {s[3].does}
        /\ NeedsOf(s[9].does, {"misc"}) = {s[5].does}
    <2>1. /\ NeedsOf(<<"gpio", 1>>, {"misc"}) = {} /\ NeedsOf(<<"number", 1>>, {"misc"}) = {}
          /\ NeedsOf(<<"gpio", 2>>, {"misc"}) = {} /\ NeedsOf(<<"number", 2>>, {"misc"}) = {}
          /\ NeedsOf(<<"gpio", 3>>, {"misc"}) = {} /\ NeedsOf(<<"number", 3>>, {"misc"}) = {}
      BY <1>3
    <2>2. /\ NeedsOf(<<"irq", 1>>, {"misc"}) = {<<"gpio", 1>>}
          /\ NeedsOf(<<"irq", 2>>, {"misc"}) = {<<"gpio", 2>>}
          /\ NeedsOf(<<"irq", 3>>, {"misc"}) = {<<"gpio", 3>>}
      BY <1>3
    <2>3. \A i \in {1, 2, 3, 4, 5, 6} : NeedsOf(s[i].does, {"misc"}) = {}
      BY <1>1, <2>1
    <2>4. /\ NeedsOf(s[7].does, {"misc"}) = {s[1].does}
          /\ NeedsOf(s[8].does, {"misc"}) = {s[3].does}
          /\ NeedsOf(s[9].does, {"misc"}) = {s[5].does}
      BY <1>1, <2>2, Zenon
    <2> QED BY <2>3, <2>4
  <1>5. 1..9 = {1, 2, 3, 4, 5, 6, 7, 8, 9}
    OBVIOUS
  <1>6. ASSUME NEW i \in 1..9, NEW n \in NeedsOf(s[i].does, {"misc"})
        PROVE  \E j \in 1..(i - 1) : s[j].does = n /\ s[j].kind # "logged"
    <2>1. 1 \in 1..(7 - 1) /\ 3 \in 1..(8 - 1) /\ 5 \in 1..(9 - 1)
      OBVIOUS
    <2>2. CASE i = 7
      BY <1>2, <1>4, <1>6, <2>1, <2>2
    <2>3. CASE i = 8
      BY <1>2, <1>4, <1>6, <2>1, <2>3
    <2>4. CASE i = 9
      BY <1>2, <1>4, <1>6, <2>1, <2>4
    <2>5. CASE i \in {1, 2, 3, 4, 5, 6}
      BY <1>4, <1>6, <2>5
    <2> QED BY <1>5, <2>2, <2>3, <2>4, <2>5
  <1> QED BY <1>1, <1>6 DEF Forward, s

LEMMA KeysNeedNothing ==
    \A i \in 1..9 : NeedsOf(KeysInit[i].does, {"misc"} \cup {"irq"}) = {}
  <1> DEFINE both == {"misc"} \cup {"irq"}
  <1>1. ASSUME NEW key \in 1..3
        PROVE  /\ NeedsOf(<<"gpio", key>>, both) = {}
               /\ NeedsOf(<<"number", key>>, both) = {}
               /\ NeedsOf(<<"irq", key>>, both) = {}
    <2>1. key \in Nat /\ "irq" \in both
      OBVIOUS
    <2> HIDE DEF both
    <2> QED BY <2>1, NeedsTable
  <1> HIDE DEF both
  <1>2. \A i \in {1, 2, 3, 4, 5, 6, 7, 8, 9} : NeedsOf(KeysInit[i].does, both) = {}
    BY <1>1, KeysScript, Fields
  <1>3. 1..9 = {1, 2, 3, 4, 5, 6, 7, 8, 9}
    OBVIOUS
  <1> QED BY <1>2, <1>3 DEF both

LEMMA Irq6Sorted == Sorted(Irq6Init, Irq6Exit, {"misc"})
  <1>1. \A i \in 1..9 : Backward(KeysInit, i - 1, KeysInit[i].undo, {"misc"})
    BY KeysPlain, NoneSorted
  <1>2. Backward(KeysInit, 9, Irq6Exit, {"misc"} \cup {"irq"})
    BY KeysNeedNothing DEF Backward
  <1> QED BY <1>1, <1>2, KeysForward, KeysScript DEF Sorted, Irq6Init

LEMMA Ex7Sorted == Sorted(Ex7Init, Ex7Exit, {"misc"})
  <1> DEFINE s == Ex7Init  e == Ex7Exit  both == {"misc"} \cup {"irq"}
  <1>1. Ex7Is(s, e) /\ Len(KeysInit) = 9
    BY Ex7Script, KeysScript
  <1>2. NeedsOf(Misc(1), {"misc"}) = {} /\ NeedsOf(Misc(1), both) = {}
    BY NeedsTable
  <1>3. \A i \in 1..9 : NeedsOf(KeysInit[i].does, both) = {} /\ KeysInit[i].undo = <<>>
    BY KeysNeedNothing, KeysPlain
  <1> HIDE DEF s, e, both
  <1>4. /\ Len(s) = 10 /\ s[1].does = Misc(1) /\ s[1].undo = <<>>
        /\ \A i \in 1..9 : s[i + 1] = KeysInit[i]
    BY <1>1, Fields DEF Ex7Is
  <1>5. \A i \in 1..10 : i = 1 \/ \E j \in 1..9 : i = j + 1
    <2>1. ASSUME NEW i \in 1..10, i # 1 PROVE i - 1 \in 1..9 /\ i = (i - 1) + 1
      BY <2>1
    <2> QED BY <2>1
  <1>6. Forward(s, {"misc"})
    <2>1. ASSUME NEW i \in 1..10, NEW n \in NeedsOf(s[i].does, {"misc"})
          PROVE  \E j \in 1..(i - 1) : s[j].does = n /\ s[j].kind # "logged"
      <3>1. CASE i = 1
        BY <1>2, <1>4, <2>1, <3>1
      <3>2. CASE \E k \in 1..9 : i = k + 1
        <4>1. PICK k \in 1..9 : i = k + 1
          BY <3>2
        <4>2. n \in NeedsOf(KeysInit[k].does, {"misc"})
          BY <1>4, <2>1, <4>1
        <4>3. PICK j \in 1..(k - 1) : KeysInit[j].does = n /\ KeysInit[j].kind # "logged"
          BY <1>1, <4>2, KeysForward DEF Forward
        <4>4. j \in 1..9 /\ j + 1 \in 1..(i - 1)
          BY <4>1, <4>3
        <4>5. s[j + 1] = KeysInit[j]
          BY <1>4, <4>4
        <4> QED BY <4>3, <4>4, <4>5
      <3> QED BY <1>5, <3>1, <3>2
    <2> QED BY <1>4, <2>1 DEF Forward
  <1>7. ASSUME NEW i \in 1..10 PROVE s[i].undo = <<>> /\ NeedsOf(s[i].does, both) = {}
    <2>1. CASE i = 1
      BY <1>2, <1>4, <2>1
    <2>2. CASE \E j \in 1..9 : i = j + 1
      <3>1. PICK j \in 1..9 : s[i] = KeysInit[j]
        BY <1>4, <2>2
      <3> QED BY <1>3, <3>1
    <2> QED BY <1>5, <2>1, <2>2
  <1>8. \A i \in 1..10 : Backward(s, i - 1, s[i].undo, {"misc"})
    BY <1>7, NoneSorted
  <1>9. Backward(s, 10, e, both)
    BY <1>7 DEF Backward
  <1>10. Sorted(s, e, {"misc"})
    BY <1>4, <1>6, <1>8, <1>9 DEF Sorted, both
  <1> QED BY <1>10 DEF s, e

\* Only the devices of ex6 need their structure.
Exempt == IF Io = "own" THEN {} ELSE {"misc"}

LEMMA ScriptSorted ==
    ASSUME prog \in AllPrograms
    PROVE  Sorted(Script, ExitScript, Exempt)
  <1>1. CASE prog = "ex6"
    <2>1. Script = Ex6Init /\ ExitScript = Ex6Exit /\ Exempt = {}
      BY <1>1 DEF Script, ExitScript, Exempt, Io, Ex6Io
    <2> QED BY <2>1, CountIsNat, Ex6Sorted
  <1>2. CASE prog # "ex6"
    <2>1. Exempt = {"misc"}
      BY <1>2 DEF AllPrograms, Exempt, Io, Ex2Io, BusIo, Ex5Io, Ex3Io, OneIo, Ex7Io
    <2>3. CASE prog \in Sharing
      BY <2>1, <2>3, SharingScript, LateSorted
    <2>4. CASE prog \notin Sharing
      BY <1>2, <2>1, <2>4, Ex2Sorted, BusSorted, Ex5Sorted, Ex7Sorted, Irq6Sorted
         DEF AllPrograms, Sharing, Script, ExitScript
    <2> QED BY <2>3, <2>4
  <1> QED BY <1>1, <1>2

\* What needs nothing as the module now stands.
Excused == (IF Io = "own" /\ ~failed THEN {} ELSE {"misc"})
           \cup (IF stage # "unloading" THEN {} ELSE {"irq"})

NeedsInv == NeedsMet /\ OrderInv

LEMMA NeedsIs == \A r : Needs(r) = NeedsOf(r, Excused) /\ Needs(r)' = NeedsOf(r, Excused')
  <1>1. \A r : Needs(r) = NeedsOf(r, Excused)
    BY DEF Needs, NeedsOf, Excused
  <1>2. \A r : Needs(r)' = NeedsOf(r, Excused')
    BY DEF Needs, NeedsOf, Excused
  <1> QED BY <1>1, <1>2

LEMMA NeedsLess ==
    ASSUME NEW a, NEW b, a \subseteq b, NEW r
    PROVE  NeedsOf(r, b) \subseteq NeedsOf(r, a)
  BY DEF NeedsOf

LEMMA NeedsInit == Init => NeedsInv
  BY DEF Init, NeedsInv, NeedsMet, OrderInv, Back

\* As long as nothing is given back, what is held keeps what it needs.
LEMMA StillMet ==
    ASSUME NeedsMet, held' = held, Excused \subseteq Excused', stage # "out"
    PROVE  NeedsMet'
  BY NeedsIs, NeedsLess DEF NeedsMet

\* What a new resource needs has come before it.
LEMMA AcquireNeeds ==
    ASSUME ModuleInv, NeedsInv, Acquire
    PROVE  NeedsInv'
  <1> USE DEF ModuleInv, NeedsInv, Acquire
  <1>1. /\ prog \in Programs /\ prog \in AllPrograms /\ Script \in Seq(Steps)
        /\ at \in 1..Len(Script) /\ Len(Script) \in Nat
    BY ScriptFacts, ProgramsAssumption DEF ModuleOK
  <1>2. Excused' = Excused /\ Exempt \subseteq Excused
    BY IoKept DEF Excused, Exempt
  <1>3. PICK r : r = Script[at].does
    OBVIOUS
  <1>4. NeedsOf(r, Excused) \subseteq held
    <2>1. ASSUME NEW n \in NeedsOf(r, Exempt) PROVE n \in held
      <3>1. PICK j \in 1..(at - 1) : Script[j].does = n /\ Script[j].kind # "logged"
        BY <1>1, <1>3, <2>1, ScriptSorted DEF Sorted, Forward
      <3> QED BY <3>1 DEF ForthInv, Forth
    <2> QED BY <1>2, <2>1, NeedsLess
  <1>5. NeedsMet'
    <2>1. ASSUME NEW x \in held' PROVE Needs(x)' \subseteq held'
      <3>1. Needs(x)' = NeedsOf(x, Excused) /\ held \subseteq held'
        BY <1>2, NeedsIs
      <3>2. CASE x \in held
        BY <3>1, <3>2, NeedsIs DEF NeedsMet
      <3>3. CASE x = r
        BY <1>4, <3>1, <3>3
      <3> QED BY <1>3, <2>1, <3>2, <3>3
    <2> QED BY <2>1 DEF NeedsMet
  <1> QED BY <1>5 DEF OrderInv, Back

\* A failing step undoes in the order that needs ask for.
LEMMA AcquireFailsNeeds ==
    ASSUME ModuleInv, NeedsInv, AcquireFails
    PROVE  NeedsInv'
  <1> USE DEF ModuleInv, NeedsInv
  <1>1. /\ prog \in Programs /\ prog \in AllPrograms /\ Script \in Seq(Steps)
        /\ at \in 1..Len(Script) /\ Len(Script) \in Nat
        /\ stage = "loading" /\ failed' = TRUE /\ stage' \in {"loading", "undoing"}
        /\ held' = held /\ prog' = prog
    BY ScriptFacts, ProgramsAssumption DEF ModuleOK, AcquireFails
  <1>2. Excused \subseteq Excused' /\ Excused' = {"misc"}
    BY <1>1, IoKept DEF Excused
  <1>3. NeedsMet'
    BY <1>1, <1>2, StillMet
  <1>4. CASE stage' = "undoing"
    <2>1. Script[at].kind = "tested" /\ todo' = Script[at].undo
      BY <1>1, <1>4 DEF AcquireFails
    <2>2. PICK u : u = Script[at].undo /\ u = todo'
      BY <2>1
    <2>3. Backward(Script, at - 1, u, {"misc"})
      BY <1>1, <2>1, <2>2, ScriptSorted DEF Sorted
    <2>4. ASSUME NEW r \in held, NEW k \in 1..Len(u), u[k] \in NeedsOf(r, {"misc"})
          PROVE  \E j \in 1..(k - 1) : u[j] = r
      <3>1. PICK h \in 1..(at - 1) : Script[h].does = r
        BY DEF ForthInv, Before
      <3> QED BY <2>3, <2>4, <3>1 DEF Backward
    <2>5. \A r : Needs(r)' = NeedsOf(r, {"misc"})
      BY <1>2, NeedsIs
    <2> QED BY <1>1, <1>3, <2>2, <2>4, <2>5 DEF OrderInv
  <1>5. CASE stage' = "loading"
    BY <1>3, <1>5 DEF OrderInv, Back
  <1> QED BY <1>1, <1>4, <1>5

\* What is given back first is needed by nothing that remains.
LEMMA GiveBackNeeds ==
    ASSUME ModuleInv, NeedsInv, GiveBack
    PROVE  NeedsInv'
  <1> USE DEF ModuleInv, NeedsInv
  <1>1. /\ todo \in Seq(Resources) /\ todo # <<>> /\ stage \in Back /\ stage # "out"
        /\ todo' = Tail(todo) /\ held' = held \ {Head(todo)}
    BY DEF GiveBack, ModuleOK, Back
  <1>2. Excused' = Excused
    BY IoKept DEF Excused, GiveBack
  <1>3. /\ Len(todo) \in Nat /\ Head(todo) = todo[1] /\ 1 \in 1..Len(todo)
        /\ Len(Tail(todo)) = Len(todo) - 1
        /\ \A k \in 1..Len(Tail(todo)) : k + 1 \in 1..Len(todo) /\ Tail(todo)[k] = todo[k + 1]
    BY <1>1
  <1>4. \A r : Needs(r)' = Needs(r)
    BY <1>2, NeedsIs
  <1>5. NeedsMet'
    <2>1. ASSUME NEW r \in held' PROVE Needs(r) \subseteq held'
      <3>1. Needs(r) \subseteq held
        BY <1>1, <2>1 DEF NeedsMet
      <3>2. todo[1] \notin Needs(r)
        BY <1>1, <1>3, <2>1 DEF OrderInv
      <3> QED BY <1>1, <1>3, <3>1, <3>2
    <2> QED BY <1>4, <2>1 DEF NeedsMet
  <1>6. OrderInv'
    <2>1. ASSUME NEW r \in held', NEW k \in 1..Len(Tail(todo)), Tail(todo)[k] \in Needs(r)
          PROVE  \E j \in 1..(k - 1) : Tail(todo)[j] = r
      <3>1. r \in held /\ r # todo[1]
        BY <1>1, <1>3, <2>1
      <3>2. k + 1 \in 1..Len(todo) /\ todo[k + 1] \in Needs(r)
        BY <1>3, <2>1
      <3>3. PICK j \in 1..((k + 1) - 1) : todo[j] = r
        BY <1>1, <3>1, <3>2 DEF OrderInv
      <3>4. j # 1 /\ j - 1 \in 1..(k - 1) /\ (j - 1) + 1 = j /\ j - 1 \in 1..Len(Tail(todo))
        BY <3>1, <3>3
      <3>5. Tail(todo)[j - 1] = r
        BY <1>3, <3>3, <3>4
      <3> QED BY <3>4, <3>5
    <2> QED BY <1>1, <1>4, <2>1 DEF OrderInv
  <1> QED BY <1>5, <1>6

\* The way back is in the order that needs ask for.
LEMMA UnloadNeeds ==
    ASSUME ModuleInv, NeedsInv, Unload
    PROVE  NeedsInv'
  <1> USE DEF ModuleInv, NeedsInv
  <1>1. /\ prog \in Programs /\ prog \in AllPrograms /\ Script \in Seq(Steps)
        /\ held' = held /\ prog' = prog /\ failed' = failed /\ stage' = "unloading"
        /\ stage # "out" /\ stage # "unloading" /\ Len(Script) \in Nat
    BY ScriptFacts, ProgramsAssumption DEF ModuleOK, Unload
  <1>2. Excused \subseteq Excused' /\ Exempt \cup {"irq"} \subseteq Excused'
    BY <1>1, IoKept DEF Excused, Exempt
  <1>3. NeedsMet'
    BY <1>1, <1>2, StillMet
  <1>4. CASE stage = "live"
    <2>1. todo' = ExitScript /\ at = Len(Script) + 1
      BY <1>4 DEF Unload, ForthInv
    <2>2. PICK e : e = ExitScript
      OBVIOUS
    <2>3. Backward(Script, Len(Script), e, Exempt \cup {"irq"})
      BY <1>1, <2>2, ScriptSorted DEF Sorted
    <2>4. ASSUME NEW r \in held, NEW k \in 1..Len(e), e[k] \in Needs(r)'
          PROVE  \E j \in 1..(k - 1) : e[j] = r
      <3>1. PICK h \in 1..Len(Script) : Script[h].does = r
        BY <1>1, <2>1 DEF ForthInv, Before
      <3>2. e[k] \in NeedsOf(r, Exempt \cup {"irq"})
        BY <1>2, <2>4, NeedsIs, NeedsLess
      <3> QED BY <2>3, <3>1, <3>2 DEF Backward
    <2> QED BY <1>1, <1>3, <2>1, <2>2, <2>4 DEF OrderInv
  <1>5. CASE stage = "unbound"
    <2>1. Len(todo') = 0
      BY <1>5, NoUndo DEF Unload
    <2> QED BY <1>3, <2>1 DEF OrderInv
  <1> QED BY <1>4, <1>5 DEF Unload

LEMMA NeedsKept ==
    ASSUME ModuleInv, NeedsInv, Next
    PROVE  NeedsInv'
  <1>1. CASE Load \/ Loaded
    <2>1. Excused' = Excused /\ held' = held /\ stage # "out" /\ stage' \notin Back
      BY <1>1, IoKept DEF Excused, Load, Loaded, Back
    <2> QED BY <2>1, StillMet DEF NeedsInv, OrderInv
  <1>2. CASE GivenBack
    <2>1. CASE stage' = "out"
      BY <2>1 DEF NeedsInv, NeedsMet, OrderInv, Back
    <2>2. CASE stage' = "unbound"
      <3>1. Excused' = Excused /\ held' = held /\ stage # "out" /\ stage' \notin Back
        BY <1>2, <2>2, IoKept DEF Excused, GivenBack, Back
      <3> QED BY <3>1, StillMet DEF NeedsInv, OrderInv
    <2> QED BY <1>2, <2>1, <2>2 DEF GivenBack
  <1>3. ASSUME NEW u \in Users, UserStep(u) PROVE NeedsInv'
    <2>1. UNCHANGED module
      BY <1>3, UserLeaves
    <2>2. Excused' = Excused /\ UNCHANGED <<held, stage, todo>>
      BY <2>1, IoKept DEF Excused, module
    <2>3. \A r : Needs(r)' = Needs(r)
      BY <2>2, NeedsIs
    <2> QED BY <2>2, <2>3 DEF NeedsInv, NeedsMet, OrderInv
  <1> QED BY <1>1, <1>2, <1>3, AcquireNeeds, AcquireFailsNeeds, GiveBackNeeds, UnloadNeeds
          DEF Next

-----------------------------------------------------------------------------
(* The inductive invariant, and what follows from it.                      *)

IInv == ModuleInv /\ UsersInv /\ OpenInv /\ FaultsExplained /\ NeedsInv

LEMMA Inductive == Spec => []IInv
  <1>1. Init => IInv
    BY ModuleInit, UsersInit, OpenInit, NeedsInit DEF IInv, Init, FaultsExplained
  <1>2. IInv /\ [Next]_vars => IInv'
    <2> SUFFICES ASSUME IInv, [Next]_vars PROVE IInv'
      OBVIOUS
    <2>1. CASE Next
      BY <2>1, ModuleKept, UsersStep, OpenKept, FaultsKept, NeedsKept DEF IInv
    <2>2. CASE UNCHANGED vars
      <3>1. UNCHANGED <<module, fault, buffers, users>> /\ UNCHANGED prog
        BY <2>2 DEF vars, module
      <3>2. Script' = Script /\ ExitScript' = ExitScript /\ Io' = Io
        BY <3>1, ScriptKept, IoKept
      <3>3. UsersInv'
        BY <3>1, UsersStutter DEF IInv
      <3>4. ModuleInv'
        BY <3>1, <3>2 DEF IInv, ModuleInv, ModuleOK, ForthInv, BackInv, module, Before,
           Distinct, Elems, Platform
      <3>5. OpenInv' /\ FaultsExplained'
        BY <3>1, <3>2 DEF IInv, OpenInv, FaultsExplained, Registered, module, users
      <3>6. NeedsInv'
        <4>1. Excused' = Excused
          BY <3>1, <3>2 DEF Excused, module
        <4>2. \A r : Needs(r)' = Needs(r)
          BY <4>1, NeedsIs
        <4> QED BY <3>1, <4>2 DEF IInv, NeedsInv, NeedsMet, OrderInv, module
      <3> QED BY <3>3, <3>4, <3>5, <3>6 DEF IInv
    <2> QED BY <2>1, <2>2
  <1> QED BY <1>1, <1>2, PTL DEF Spec

\* Every variable keeps to its values, and no message is larger than the
\* buffer it is in.
THEOREM TypeCorrect == Spec => []TypeOK
  <1>1. IInv => TypeOK
    BY DEF IInv, ModuleInv, ModuleOK, UsersInv, UsersOK, TypeOK
  <1> QED BY <1>1, Inductive, PTL

\* A module that is out has left nothing, if it undoes its steps or none of
\* them failed, and none gives back what it does not have, unless it only
\* logged that it did not get it.
THEOREM BalancedAlways == Spec => []Balanced
  <1>1. IInv => Balanced
    BY DEF IInv, ModuleInv, BackInv, Balanced, Logging
  <1> QED BY <1>1, Inductive, PTL

\* A bad memory access has one of the causes listed: a device registered before
\* its buffers exist, an index computed before offset_minor was known, a size
\* that is not the first, a failed loading that left a device, a class or device
\* that was not tested, or no device at all.
THEOREM FaultsExplainedAlways == Spec => []FaultsExplained
  <1>1. IInv => FaultsExplained
    BY DEF IInv
  <1> QED BY <1>1, Inductive, PTL

\* A read that met no writer returns a whole message with its zero, once,
\* unless two writers have left the text of one with the size of the other.
THEOREM ReadsWholeAlways == Spec => []ReadsWhole
  <1>1. IInv => ReadsWhole
    BY ReadsWholeHolds DEF IInv
  <1> QED BY <1>1, Inductive, PTL

\* Whatever is held has what it needs: nothing is created before, or given
\* back after, what it depends on.
THEOREM NeedsMetAlways == Spec => []NeedsMet
  <1>1. IInv => NeedsMet
    BY DEF IInv, NeedsInv
  <1> QED BY <1>1, Inductive, PTL

==============================================================================
