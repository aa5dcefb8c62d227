-------------------------- MODULE FanMailboxProofs --------------------------
(***************************************************************************)
(* For any number of clients, calls and starts, and any length of the      *)
(* queues.                                                                 *)
(***************************************************************************)
EXTENDS FanMailbox, FiniteSetTheorems, SequenceTheorems, TLAPS

\* Whoever serves or makes a call has one.
OpenInv ==
    /\ dpc = "send" => serving \in CallType
    /\ \A c \in Clients : cpc[c] # "idle" => call[c] \in CallType

TypeInv == TypeOK /\ OpenInv

\* Where a call is: its id, in a sequence of queues whose elements have a key.
Holds(qs, key, n) ==
    \E q \in 1..Len(qs) : \E i \in 1..Len(qs[q]) : key[qs[q][i]] = n
Once(qs, key) ==
    \A q, r \in 1..Len(qs) : \A i \in 1..Len(qs[q]), j \in 1..Len(qs[r]) :
        key[qs[q][i]] = key[qs[r][j]] => q = r /\ i = j

IdOf == [e \in CallType |-> e.id]
Self == [n \in 1..MaxCalls |-> n]
Asked(n) == Holds(income, IdOf, n)
Served(n) == dpc = "send" /\ serving.id = n
Answered(n) == Holds(outcome, Self, n)
Planned(c, n) == cpc[c] \in {"openIn", "openOut", "send"} /\ call[c].id = n

\* A call is planned, asked, served or answered, and only one of them; the calls
\* to come are none of them.
OnceInv ==
    /\ Once(income, IdOf) /\ Once(outcome, Self)
    /\ \A n \in 1..MaxCalls :
         /\ ~(Asked(n) /\ Served(n)) /\ ~(Asked(n) /\ Answered(n))
         /\ ~(Served(n) /\ Answered(n))
         /\ \A c \in Clients : Planned(c, n) =>
              /\ ~Asked(n) /\ ~Served(n) /\ ~Answered(n)
              /\ \A d \in Clients : Planned(d, n) => c = d
         /\ n > calls => /\ ~Asked(n) /\ ~Served(n) /\ ~Answered(n)
                         /\ \A c \in Clients : ~Planned(c, n)

\* While nothing fails and nobody comes too early: the daemon has its queues, what
\* the names stand for, and a client that asks the daemon of now waits for its
\* answers.
PairInv ==
    upsets \subseteq {"stop", "crowd"} =>
        /\ dpc \in {"openOut", "receive", "send"} => din # None
        /\ dpc \in {"receive", "send"} => dout # None
        /\ dpc \in {"down", "openIn", "unlinkOut"} => inName = None
        /\ dpc \in {"openOut", "receive", "send", "unlinkIn"} => inName = din
        /\ dpc \in {"down", "openIn", "openOut"} => outName = None
        /\ dpc \in {"receive", "send", "unlinkIn", "unlinkOut"} => outName = dout
        /\ dpc \in {"openIn", "openOut"} => \A c \in Clients : ~Opening(c)
        /\ dpc = "openOut" => /\ income[din] = <<>>
                              /\ \A c \in Clients : cpc[c] # "idle" => cin[c] # din
        /\ dpc \in {"receive", "send"} =>
             \A c \in Clients :
                 /\ cpc[c] = "openOut" => cin[c] = din
                 /\ cpc[c] \in {"send", "wait"} => (cin[c] = din <=> cout[c] = dout)

\* While clients come one at a time: what is asked, served or answered is the
\* call of the one that waits.
MatchInv ==
    upsets \subseteq {"stop"} =>
        /\ \A c, d \in Clients : cpc[c] # "idle" /\ cpc[d] # "idle" => c = d
        /\ dpc \in {"receive", "send"} => \A n \in AskedOf(din) :
             \E c \in Clients : cpc[c] = "wait" /\ cin[c] = din /\ call[c].id = n
        /\ dpc = "send" =>
             \E c \in Clients : cpc[c] = "wait" /\ cin[c] = din /\ call[c].id = serving.id
        /\ \A q \in 1..Len(outcome) : \A n \in AnswersIn(q) :
             \E c \in Clients : cpc[c] = "wait" /\ cout[c] = q /\ call[c].id = n
        /\ AnswersMatch

-----------------------------------------------------------------------------
(* What becomes of a sequence of queues when an element is put, or taken,  *)
(* or a queue added.                                                       *)

PutIn(qs, new, q, e) == new = [qs EXCEPT ![q] = Append(@, e)]
TakenFrom(qs, new, q) == qs[q] # <<>> /\ new = [qs EXCEPT ![q] = Tail(@)]

LEMMA Put ==
    ASSUME NEW S, NEW qs \in Seq(Seq(S)), NEW q \in 1..Len(qs), NEW e \in S,
           NEW new, PutIn(qs, new, q, e)
    PROVE  /\ new \in Seq(Seq(S)) /\ Len(new) = Len(qs)
           /\ \A r \in 1..Len(qs) : r # q => new[r] = qs[r]
           /\ new[q] = Append(qs[q], e)
           /\ Len(new[q]) = Len(qs[q]) + 1 /\ new[q][Len(qs[q]) + 1] = e
           /\ \A i \in 1..Len(qs[q]) : new[q][i] = qs[q][i]
  <1>1. qs[q] \in Seq(S)
    BY ElementOfSeq
  <1>2. Append(qs[q], e) \in Seq(S)
    BY <1>1
  <1>3. new \in Seq(Seq(S)) /\ Len(new) = Len(qs)
    BY <1>2, ExceptSeq DEF PutIn
  <1>4. new[q] = Append(qs[q], e) /\ \A r \in 1..Len(qs) : r # q => new[r] = qs[r]
    BY <1>2, ExceptSeq DEF PutIn
  <1> QED BY <1>1, <1>3, <1>4

LEMMA Taken ==
    ASSUME NEW S, NEW qs \in Seq(Seq(S)), NEW q \in 1..Len(qs),
           NEW new, TakenFrom(qs, new, q)
    PROVE  /\ new \in Seq(Seq(S)) /\ Len(new) = Len(qs)
           /\ \A r \in 1..Len(qs) : r # q => new[r] = qs[r]
           /\ Len(qs[q]) \in Nat \ {0} /\ Len(new[q]) = Len(qs[q]) - 1
           /\ \A i \in 1..Len(new[q]) : new[q][i] = qs[q][i + 1]
           /\ Head(qs[q]) = qs[q][1] /\ Head(qs[q]) \in S
  <1>1. qs[q] \in Seq(S)
    BY ElementOfSeq
  <1>2. Tail(qs[q]) \in Seq(S) /\ Len(Tail(qs[q])) = Len(qs[q]) - 1
    BY <1>1, HeadTailProperties DEF TakenFrom
  <1>3. new \in Seq(Seq(S)) /\ Len(new) = Len(qs)
    BY <1>2, ExceptSeq DEF TakenFrom
  <1>4. new[q] = Tail(qs[q]) /\ \A r \in 1..Len(qs) : r # q => new[r] = qs[r]
    BY <1>2, ExceptSeq DEF TakenFrom
  <1>5. \A i \in 1..Len(new[q]) : new[q][i] = qs[q][i + 1]
    BY <1>1, <1>4, HeadTailProperties DEF TakenFrom
  <1>6. Len(qs[q]) \in Nat \ {0}
    BY <1>1, EmptySeq DEF TakenFrom
  <1>7. Head(qs[q]) = qs[q][1] /\ Head(qs[q]) \in S
    BY <1>1, HeadTailProperties DEF TakenFrom
  <1> QED BY <1>2, <1>3, <1>4, <1>5, <1>6, <1>7

LEMMA Added ==
    ASSUME NEW S, NEW qs \in Seq(Seq(S)), NEW new, new = Append(qs, <<>>)
    PROVE  /\ new \in Seq(Seq(S)) /\ Len(new) = Len(qs) + 1
           /\ \A q \in 1..Len(qs) : new[q] = qs[q]
           /\ new[Len(new)] = <<>> /\ Len(new[Len(new)]) = 0
  <1>1. <<>> \in Seq(S)
    BY EmptySeq
  <1> QED BY <1>1

-----------------------------------------------------------------------------
(* Types.                                                                  *)

LEMMA PutOnce ==
    ASSUME NEW S, NEW qs \in Seq(Seq(S)), NEW q \in 1..Len(qs), NEW e \in S,
           NEW new, PutIn(qs, new, q, e),
           NEW key, Once(qs, key), ~Holds(qs, key, key[e])
    PROVE  /\ Once(new, key)
           /\ \A n : Holds(new, key, n) <=> Holds(qs, key, n) \/ n = key[e]
  <1>1. /\ Len(new) = Len(qs) /\ Len(qs) \in Nat
        /\ \A r \in 1..Len(qs) : r # q => new[r] = qs[r]
        /\ Len(new[q]) = Len(qs[q]) + 1 /\ new[q][Len(qs[q]) + 1] = e
        /\ \A i \in 1..Len(qs[q]) : new[q][i] = qs[q][i]
    BY Put
  <1>2. Len(qs[q]) \in Nat
    BY ElementOfSeq, LenProperties
  <1>3. \A r \in 1..Len(qs) : \A i \in 1..Len(new[r]) :
          \/ i \in 1..Len(qs[r]) /\ new[r][i] = qs[r][i]
          \/ r = q /\ i = Len(qs[q]) + 1 /\ new[r][i] = e
    <2> SUFFICES ASSUME NEW r \in 1..Len(qs), NEW i \in 1..Len(new[r])
                 PROVE  \/ i \in 1..Len(qs[r]) /\ new[r][i] = qs[r][i]
                        \/ r = q /\ i = Len(qs[q]) + 1 /\ new[r][i] = e
      OBVIOUS
    <2>1. CASE r = q
      <3>1. i \in 1..Len(qs[q]) \/ i = Len(qs[q]) + 1
        BY <1>1, <1>2, <2>1
      <3> QED BY <1>1, <2>1, <3>1
    <2>2. CASE r # q
      BY <1>1, <2>2
    <2> QED BY <2>1, <2>2
  <1>4. \A r \in 1..Len(qs) : \A i \in 1..Len(qs[r]) :
          i \in 1..Len(new[r]) /\ new[r][i] = qs[r][i]
    <2> SUFFICES ASSUME NEW r \in 1..Len(qs), NEW i \in 1..Len(qs[r])
                 PROVE  i \in 1..Len(new[r]) /\ new[r][i] = qs[r][i]
      OBVIOUS
    <2>1. CASE r = q
      BY <1>1, <1>2, <2>1
    <2>2. CASE r # q
      BY <1>1, <2>2
    <2> QED BY <2>1, <2>2
  <1>5. Len(qs[q]) + 1 \in 1..Len(new[q])
    BY <1>1, <1>2
  <1>6. Once(new, key)
    <2> SUFFICES ASSUME NEW r \in 1..Len(qs), NEW t \in 1..Len(qs),
                        NEW i \in 1..Len(new[r]), NEW j \in 1..Len(new[t]),
                        key[new[r][i]] = key[new[t][j]]
                 PROVE  r = t /\ i = j
      BY <1>1 DEF Once
    <2>1. CASE i \in 1..Len(qs[r]) /\ j \in 1..Len(qs[t])
      <3>1. key[qs[r][i]] = key[qs[t][j]]
        BY <1>4, <2>1
      <3>2. \A k \in 1..Len(qs[r]), l \in 1..Len(qs[t]) :
              key[qs[r][k]] = key[qs[t][l]] => r = t /\ k = l
        BY Zenon DEF Once
      <3> QED BY <2>1, <3>1, <3>2
    <2>2. CASE i \in 1..Len(qs[r]) /\ j \notin 1..Len(qs[t])
      <3>1. key[qs[r][i]] = key[e]
        BY <1>3, <1>4, <2>2
      <3> QED BY <2>2, <3>1 DEF Holds
    <2>3. CASE i \notin 1..Len(qs[r]) /\ j \in 1..Len(qs[t])
      <3>1. key[qs[t][j]] = key[e]
        BY <1>3, <1>4, <2>3
      <3> QED BY <2>3, <3>1 DEF Holds
    <2>4. CASE i \notin 1..Len(qs[r]) /\ j \notin 1..Len(qs[t])
      BY <1>3, <2>4
    <2> QED BY <2>1, <2>2, <2>3, <2>4
  <1>7. ASSUME NEW n PROVE Holds(new, key, n) <=> Holds(qs, key, n) \/ n = key[e]
    <2>1. ASSUME Holds(qs, key, n) PROVE Holds(new, key, n)
      <3>1. PICK r \in 1..Len(qs) : \E i \in 1..Len(qs[r]) : key[qs[r][i]] = n
        BY <2>1 DEF Holds
      <3>2. PICK i \in 1..Len(qs[r]) : key[qs[r][i]] = n
        BY <3>1
      <3>3. r \in 1..Len(new) /\ i \in 1..Len(new[r]) /\ key[new[r][i]] = n
        BY <1>1, <1>4, <3>2
      <3> QED BY <3>3 DEF Holds
    <2>2. Holds(new, key, key[e])
      BY <1>1, <1>5 DEF Holds
    <2>3. ASSUME Holds(new, key, n) PROVE Holds(qs, key, n) \/ n = key[e]
      <3>1. PICK r \in 1..Len(qs) : \E i \in 1..Len(new[r]) : key[new[r][i]] = n
        BY <1>1, <2>3 DEF Holds
      <3>2. PICK i \in 1..Len(new[r]) : key[new[r][i]] = n
        BY <3>1
      <3>3. CASE i \in 1..Len(qs[r]) /\ new[r][i] = qs[r][i]
        BY <3>2, <3>3 DEF Holds
      <3>4. CASE new[r][i] = e
        BY <3>2, <3>4
      <3> QED BY <1>3, <3>3, <3>4
    <2> QED BY <2>1, <2>2, <2>3
  <1> QED BY <1>6, <1>7

LEMMA TakenOnce ==
    ASSUME NEW S, NEW qs \in Seq(Seq(S)), NEW q \in 1..Len(qs),
           NEW new, TakenFrom(qs, new, q), NEW key, Once(qs, key)
    PROVE  /\ Once(new, key) /\ ~Holds(new, key, key[Head(qs[q])])
           /\ \A n : Holds(qs, key, n) <=> Holds(new, key, n) \/ n = key[Head(qs[q])]
  <1>1. /\ Len(new) = Len(qs)
        /\ \A r \in 1..Len(qs) : r # q => new[r] = qs[r]
        /\ Len(qs[q]) \in Nat \ {0} /\ Len(new[q]) = Len(qs[q]) - 1
        /\ \A i \in 1..Len(new[q]) : new[q][i] = qs[q][i + 1]
        /\ Head(qs[q]) = qs[q][1]
    BY Taken
  <1>2. \A i \in 1..Len(new[q]) : i + 1 \in 1..Len(qs[q]) /\ i + 1 # 1
    BY <1>1
  <1>3. \A r \in 1..Len(new) : \A i \in 1..Len(new[r]) :
          \E k \in 1..Len(qs[r]) :
            qs[r][k] = new[r][i] /\ k = IF r = q THEN i + 1 ELSE i
    <2> SUFFICES ASSUME NEW r \in 1..Len(new), NEW i \in 1..Len(new[r])
                 PROVE  \E k \in 1..Len(qs[r]) :
                          qs[r][k] = new[r][i] /\ k = IF r = q THEN i + 1 ELSE i
      OBVIOUS
    <2>1. CASE r = q
      <3>1. i + 1 \in 1..Len(qs[r]) /\ qs[r][i + 1] = new[r][i]
        BY <1>1, <1>2, <2>1
      <3> QED BY <2>1, <3>1
    <2>2. CASE r # q
      BY <1>1, <2>2
    <2> QED BY <2>1, <2>2
  <1>4. Once(new, key)
    <2> SUFFICES ASSUME NEW r \in 1..Len(new), NEW t \in 1..Len(new),
                        NEW i \in 1..Len(new[r]), NEW j \in 1..Len(new[t]),
                        key[new[r][i]] = key[new[t][j]]
                 PROVE  r = t /\ i = j
      BY DEF Once
    <2>1. PICK k \in 1..Len(qs[r]) :
            qs[r][k] = new[r][i] /\ k = IF r = q THEN i + 1 ELSE i
      BY <1>3
    <2>2. PICK l \in 1..Len(qs[t]) :
            qs[t][l] = new[t][j] /\ l = IF t = q THEN j + 1 ELSE j
      BY <1>3
    <2>3. key[qs[r][k]] = key[qs[t][l]]
      BY <2>1, <2>2
    <2>4. r = t /\ k = l
      BY <1>1, <2>3 DEF Once
    <2> QED BY <2>1, <2>2, <2>4
  <1>5. 1 \in 1..Len(qs[q])
    BY <1>1
  <1>6. ~Holds(new, key, key[Head(qs[q])])
    <2> SUFFICES ASSUME NEW r \in 1..Len(new), NEW i \in 1..Len(new[r]),
                        key[new[r][i]] = key[qs[q][1]]
                 PROVE  FALSE
      BY <1>1 DEF Holds
    <2>1. PICK k \in 1..Len(qs[r]) :
            qs[r][k] = new[r][i] /\ k = IF r = q THEN i + 1 ELSE i
      BY <1>3
    <2>2. r = q /\ k = 1
      BY <1>1, <1>5, <2>1 DEF Once
    <2> QED BY <2>1, <2>2
  <1>7. ASSUME NEW n
        PROVE  Holds(qs, key, n) <=> Holds(new, key, n) \/ n = key[Head(qs[q])]
    <2>1. ASSUME Holds(new, key, n) PROVE Holds(qs, key, n)
      <3>1. PICK r \in 1..Len(new) : \E i \in 1..Len(new[r]) : key[new[r][i]] = n
        BY <2>1 DEF Holds
      <3>2. PICK i \in 1..Len(new[r]) : key[new[r][i]] = n
        BY <3>1
      <3>3. PICK k \in 1..Len(qs[r]) : qs[r][k] = new[r][i]
        BY <1>3
      <3> QED BY <1>1, <3>2, <3>3 DEF Holds
    <2>2. Holds(qs, key, key[Head(qs[q])])
      BY <1>1, <1>5 DEF Holds
    <2>3. ASSUME NEW r \in 1..Len(qs), NEW i \in 1..Len(qs[r]), key[qs[r][i]] = n,
                 n # key[Head(qs[q])]
          PROVE  Holds(new, key, n)
      <3>1. CASE r # q
        BY <1>1, <2>3, <3>1 DEF Holds
      <3>2. CASE r = q
        <4>1. i - 1 \in 1..Len(new[q]) /\ (i - 1) + 1 = i
          BY <1>1, <2>3, <3>2
        <4> QED BY <1>1, <2>3, <3>2, <4>1 DEF Holds
      <3> QED BY <3>1, <3>2
    <2> QED BY <2>1, <2>2, <2>3 DEF Holds
  <1> QED BY <1>4, <1>6, <1>7

LEMMA AddedOnce ==
    ASSUME NEW S, NEW qs \in Seq(Seq(S)), NEW new, new = Append(qs, <<>>), NEW key
    PROVE  /\ Once(qs, key) => Once(new, key)
           /\ \A n : Holds(new, key, n) <=> Holds(qs, key, n)
  <1>1. /\ Len(qs) \in Nat /\ Len(new) = Len(qs) + 1
        /\ \A q \in 1..Len(qs) : new[q] = qs[q]
        /\ Len(new[Len(new)]) = 0
    BY Added
  <1>2. \A q \in 1..Len(new) : \A i \in 1..Len(new[q]) : q \in 1..Len(qs)
    BY <1>1
  <1>3. Once(qs, key) => Once(new, key)
    <2> SUFFICES ASSUME Once(qs, key), NEW q \in 1..Len(new), NEW r \in 1..Len(new),
                        NEW i \in 1..Len(new[q]), NEW j \in 1..Len(new[r]),
                        key[new[q][i]] = key[new[r][j]]
                 PROVE  q = r /\ i = j
      BY DEF Once
    <2>1. q \in 1..Len(qs) /\ r \in 1..Len(qs)
      BY <1>2
    <2>2. new[q] = qs[q] /\ new[r] = qs[r]
      BY <1>1, <2>1
    <2> QED BY <2>1, <2>2 DEF Once
  <1>4. \A q \in 1..Len(qs) : q \in 1..Len(new)
    BY <1>1
  <1>5. ASSUME NEW n PROVE Holds(new, key, n) <=> Holds(qs, key, n)
    <2>1. ASSUME Holds(new, key, n) PROVE Holds(qs, key, n)
      BY <1>1, <1>2, <2>1 DEF Holds
    <2>2. ASSUME Holds(qs, key, n) PROVE Holds(new, key, n)
      BY <1>1, <1>4, <2>2 DEF Holds
    <2> QED BY <2>1, <2>2
  <1> QED BY <1>3, <1>5

LEMMA PutBounded ==
    ASSUME NEW S, NEW qs \in Seq(Seq(S)), NEW q \in 1..Len(qs), NEW e \in S,
           NEW new, PutIn(qs, new, q, e),
           \A r \in 1..Len(qs) : Len(qs[r]) <= Cap, Len(qs[q]) < Cap
    PROVE  /\ new \in Seq(Seq(S)) /\ Len(new) = Len(qs)
           /\ \A r \in 1..Len(new) : Len(new[r]) <= Cap
  <1>1. qs[q] \in Seq(S)
    BY ElementOfSeq
  <1>2. Append(qs[q], e) \in Seq(S)
    BY <1>1
  <1>3. new \in Seq(Seq(S)) /\ Len(new) = Len(qs)
    BY <1>2, ExceptSeq DEF PutIn
  <1>4. new[q] = Append(qs[q], e) /\ \A r \in 1..Len(qs) : r # q => new[r] = qs[r]
    BY <1>2, ExceptSeq DEF PutIn
  <1>5. Len(new[q]) <= Cap
    BY <1>1, <1>4, CapAssumption
  <1> QED BY <1>3, <1>4, <1>5

LEMMA TakenBounded ==
    ASSUME NEW S, NEW qs \in Seq(Seq(S)), NEW q \in 1..Len(qs),
           NEW new, TakenFrom(qs, new, q),
           \A r \in 1..Len(qs) : Len(qs[r]) <= Cap
    PROVE  /\ new \in Seq(Seq(S)) /\ Len(new) = Len(qs)
           /\ \A r \in 1..Len(new) : Len(new[r]) <= Cap
           /\ Head(qs[q]) \in S
  <1>1. /\ new \in Seq(Seq(S)) /\ Len(new) = Len(qs)
        /\ \A r \in 1..Len(qs) : r # q => new[r] = qs[r]
        /\ Len(qs[q]) \in Nat \ {0} /\ Len(new[q]) = Len(qs[q]) - 1
        /\ Head(qs[q]) \in S
    BY Taken
  <1>2. Len(new[q]) <= Cap
    BY <1>1, CapAssumption
  <1> QED BY <1>1, <1>2

LEMMA AddedBounded ==
    ASSUME NEW S, NEW qs \in Seq(Seq(S)), NEW new, new = Append(qs, <<>>),
           \A r \in 1..Len(qs) : Len(qs[r]) <= Cap
    PROVE  /\ new \in Seq(Seq(S)) /\ Len(new) = Len(qs) + 1
           /\ \A r \in 1..Len(new) : Len(new[r]) <= Cap
  <1>1. /\ new \in Seq(Seq(S)) /\ Len(new) = Len(qs) + 1
        /\ \A q \in 1..Len(qs) : new[q] = qs[q]
        /\ Len(new[Len(new)]) = 0
    BY Added
  <1> QED BY <1>1, CapAssumption

LEMMA Lengths == TypeOK => Len(income) \in Nat /\ Len(outcome) \in Nat
  BY DEF TypeOK

\* What an open does: the name has its object now, or the open is a failure.
LEMMA IncomeOpened ==
    ASSUME TypeOK, OpenIncome
    PROVE  /\ income' \in Seq(Seq(CallType)) /\ Len(income) <= Len(income')
           /\ \A r \in 1..Len(income') : Len(income'[r]) <= Cap
           /\ inName' \in 0..Len(income') /\ din' \in 0..Len(income')
           /\ upsets' \subseteq Upsets
  <1>1. Len(income) \in Nat
    BY Lengths
  <1>2. CASE /\ inName = None /\ UNCHANGED upsets
             /\ income' = Append(income, <<>>) /\ inName' = Len(income) + 1
             /\ din' = inName'
    <2>1. /\ income' \in Seq(Seq(CallType)) /\ Len(income') = Len(income) + 1
          /\ \A r \in 1..Len(income') : Len(income'[r]) <= Cap
      BY <1>2, AddedBounded DEF TypeOK
    <2>2. inName' \in 0..Len(income') /\ din' = inName'
      BY <1>1, <1>2, <2>1
    <2>3. upsets' \subseteq Upsets
      BY <1>2 DEF TypeOK
    <2> QED BY <1>1, <2>1, <2>2, <2>3
  <1>3. CASE UNCHANGED <<income, inName, upsets>> /\ din' = inName'
    BY <1>1, <1>3 DEF TypeOK
  <1>4. CASE UNCHANGED <<income, inName>> /\ din' = None /\ Upset(TRUE, "failure")
    BY <1>1, <1>4 DEF TypeOK, None, Upset, Upsets
  <1> QED BY <1>2, <1>3, <1>4 DEF OpenIncome

LEMMA OutcomeOpened ==
    ASSUME TypeOK, OpenOutcome
    PROVE  /\ outcome' \in Seq(Seq(1..MaxCalls)) /\ Len(outcome) <= Len(outcome')
           /\ \A r \in 1..Len(outcome') : Len(outcome'[r]) <= Cap
           /\ outName' \in 0..Len(outcome') /\ dout' \in 0..Len(outcome')
           /\ upsets' \subseteq Upsets
  <1>1. Len(outcome) \in Nat
    BY Lengths
  <1>2. CASE /\ outName = None /\ UNCHANGED upsets
             /\ outcome' = Append(outcome, <<>>) /\ outName' = Len(outcome) + 1
             /\ dout' = outName'
    <2>1. /\ outcome' \in Seq(Seq(1..MaxCalls)) /\ Len(outcome') = Len(outcome) + 1
          /\ \A r \in 1..Len(outcome') : Len(outcome'[r]) <= Cap
      BY <1>2, AddedBounded DEF TypeOK
    <2>2. outName' \in 0..Len(outcome') /\ dout' = outName'
      BY <1>1, <1>2, <2>1
    <2>3. upsets' \subseteq Upsets
      BY <1>2 DEF TypeOK
    <2> QED BY <1>1, <2>1, <2>2, <2>3
  <1>3. CASE UNCHANGED <<outcome, outName, upsets>> /\ dout' = outName'
    BY <1>1, <1>3 DEF TypeOK
  <1>4. CASE UNCHANGED <<outcome, outName>> /\ dout' = None /\ Upset(TRUE, "failure")
    BY <1>1, <1>4 DEF TypeOK, None, Upset, Upsets
  <1> QED BY <1>2, <1>3, <1>4 DEF OpenOutcome

\* A client that ends holds nothing any more, and the others what they held.
LEMMA Ended ==
    ASSUME TypeOK, NEW c \in Clients, End(c)
    PROVE  /\ cpc' \in [Clients -> ClientSteps] /\ cpc'[c] = "idle"
           /\ cin' \in [Clients -> 0..Len(income)] /\ cin'[c] = None
           /\ cout' \in [Clients -> 0..Len(outcome)] /\ cout'[c] = None
           /\ \A d \in Clients \ {c} : /\ cpc'[d] = cpc[d] /\ cin'[d] = cin[d]
                                       /\ cout'[d] = cout[d]
  <1>1. None \in 0..Len(income) /\ None \in 0..Len(outcome)
    BY Lengths DEF None
  <1> QED BY <1>1 DEF End, TypeOK, ClientSteps

\* After a Send the client waits, with its queues, or has ended.
LEMMA SendEnds ==
    ASSUME TypeInv, NEW c \in Clients, Send(c)
    PROVE  /\ cpc[c] = "send" /\ UNCHANGED <<names, daemon>>
           /\ call[c].kind = "ask" => cpc'[c] = "wait" /\ UNCHANGED <<cin, cout>>
           /\ call[c].kind # "ask" => cpc'[c] = "idle"
           /\ \A d \in Clients \ {c} : cpc'[d] = cpc[d]
           /\ \A d \in Clients :
                cpc'[d] # "idle" => cin'[d] = cin[d] /\ cout'[d] = cout[d]
           /\ cpc'[c] \in {"wait", "idle"}
  <1>1. TypeOK /\ cpc[c] = "send" /\ UNCHANGED <<names, daemon>>
    BY DEF Send, TypeInv
  <1>2. CASE call[c].kind = "ask"
    BY <1>1, <1>2 DEF Send, TypeOK
  <1>3. CASE call[c].kind # "ask"
    BY <1>1, <1>3, Ended DEF Send
  <1> QED BY <1>1, <1>2, <1>3

LEMMA InitTyped == Init => TypeInv
  BY CapAssumption, BoundsAssumption
     DEF Init, TypeInv, TypeOK, OpenInv, None, NoCall, CallType, DaemonSteps,
         ClientSteps, Upsets

LEMMA DaemonTyped ==
    ASSUME TypeInv, DaemonStep \/ Start \/ Kill PROVE TypeInv'
  <1> USE DEF TypeInv
  <1>1. CASE Start
    <2>1. starts' \in 0..MaxStarts /\ dpc' = "openIn"
      BY <1>1, BoundsAssumption DEF Start, TypeOK
    <2>2. upsets' \subseteq Upsets
      BY <1>1 DEF Start, Upset, Upsets, TypeOK
    <2> QED BY <1>1, <2>1, <2>2
            DEF Start, TypeOK, OpenInv, DaemonSteps, queues, names, client
  <1>2. CASE Kill
    BY <1>2, Lengths DEF Kill, Down, Upset, Upsets, TypeOK, OpenInv, DaemonSteps,
                         queues, names, client, None
  <1>3. CASE OpenIncome
    <2>1. /\ income' \in Seq(Seq(CallType)) /\ Len(income) <= Len(income')
          /\ \A r \in 1..Len(income') : Len(income'[r]) <= Cap
          /\ inName' \in 0..Len(income') /\ din' \in 0..Len(income')
          /\ upsets' \subseteq Upsets
      BY <1>3, IncomeOpened
    <2>2. UNCHANGED <<outcome, outName, dout, serving, starts, client>>
      BY <1>3 DEF OpenIncome
    <2>3. cin' \in [Clients -> 0..Len(income')]
      <3>1. 0..Len(income) \subseteq 0..Len(income')
        BY <2>1, Lengths
      <3> QED BY <2>2, <3>1 DEF client, TypeOK
    <2>4. dpc' = "openOut"
      BY <1>3 DEF OpenIncome
    <2> QED BY <2>1, <2>2, <2>3, <2>4 DEF TypeOK, OpenInv, client, DaemonSteps
  <1>4. CASE OpenOutcome
    <2>1. /\ outcome' \in Seq(Seq(1..MaxCalls)) /\ Len(outcome) <= Len(outcome')
          /\ \A r \in 1..Len(outcome') : Len(outcome'[r]) <= Cap
          /\ outName' \in 0..Len(outcome') /\ dout' \in 0..Len(outcome')
          /\ upsets' \subseteq Upsets
      BY <1>4, OutcomeOpened
    <2>2. UNCHANGED <<income, inName, din, serving, starts, client>>
      BY <1>4 DEF OpenOutcome
    <2>3. cout' \in [Clients -> 0..Len(outcome')]
      <3>1. 0..Len(outcome) \subseteq 0..Len(outcome')
        BY <2>1, Lengths
      <3> QED BY <2>2, <3>1 DEF client, TypeOK
    <2>4. dpc' = "receive"
      BY <1>4 DEF OpenOutcome
    <2> QED BY <2>1, <2>2, <2>3, <2>4 DEF TypeOK, OpenInv, client, DaemonSteps
  <1>5. CASE Receive
    <2>1. din \in 1..Len(income)
      BY <1>5, Lengths DEF Receive, Commanded, TypeOK, OpenInv, None
    <2>2. /\ income' \in Seq(Seq(CallType)) /\ Len(income') = Len(income)
          /\ \A r \in 1..Len(income') : Len(income'[r]) <= Cap
          /\ serving' \in CallType
      <3>1. /\ income \in Seq(Seq(CallType))
            /\ \A r \in 1..Len(income) : Len(income[r]) <= Cap
            /\ TakenFrom(income, income', din)
            /\ serving' = Head(income[din])
        BY <1>5 DEF Receive, Commanded, TypeOK, TakenFrom
      <3> QED BY <2>1, <3>1, TakenBounded
    <2>3. serving'.kind \in {"ask", "tell", "stop"}
      BY <2>2 DEF CallType
    <2>4. dpc' \in {"send", "receive", "unlinkIn"}
      BY <1>5, <2>3 DEF Receive, Commanded
    <2> QED BY <1>5, <2>2, <2>4
            DEF Receive, Commanded, TypeOK, OpenInv, names, client, DaemonSteps
  <1>6. CASE Answer
    <2>1. serving \in CallType
      BY <1>6 DEF Answer, OpenInv
    <2>2. serving.id \in 1..MaxCalls
      BY <2>1 DEF CallType
    <2>3. /\ outcome' \in Seq(Seq(1..MaxCalls)) /\ Len(outcome') = Len(outcome)
          /\ \A r \in 1..Len(outcome') : Len(outcome'[r]) <= Cap
      <3>1. CASE dout = None
        BY <1>6, <3>1 DEF Answer, TypeOK
      <3>2. CASE dout # None
        <4>1. dout \in 1..Len(outcome)
          BY <3>2, Lengths DEF TypeOK, None
        <4>2. /\ outcome \in Seq(Seq(1..MaxCalls)) /\ Len(outcome[dout]) < Cap
              /\ \A r \in 1..Len(outcome) : Len(outcome[r]) <= Cap
              /\ PutIn(outcome, outcome', dout, serving.id)
          BY <1>6, <3>2 DEF Answer, TypeOK, PutIn
        <4> QED BY <2>2, <4>1, <4>2, PutBounded
      <3> QED BY <3>1, <3>2
    <2> QED BY <1>6, <2>3
            DEF Answer, TypeOK, OpenInv, names, client, DaemonSteps
  <1>7. CASE UnlinkIncome \/ UnlinkOutcome
    <2>1. inName' \in 0..Len(income) /\ outName' \in 0..Len(outcome)
      <3>1. inName' \in {inName, None} /\ outName' \in {outName, None}
        BY <1>7 DEF UnlinkIncome, UnlinkOutcome
      <3>2. inName \in 0..Len(income) /\ outName \in 0..Len(outcome)
        BY DEF TypeOK
      <3> QED BY <3>1, <3>2, Lengths DEF None
    <2>2. dpc' \in {"unlinkOut", "down"}
      BY <1>7 DEF UnlinkIncome, UnlinkOutcome, Down
    <2>3. /\ din' \in 0..Len(income) /\ dout' \in 0..Len(outcome)
          /\ serving' \in CallType \cup {NoCall}
      BY <1>7, Lengths DEF UnlinkIncome, UnlinkOutcome, Down, TypeOK, None
    <2> QED BY <1>7, <2>1, <2>2, <2>3
            DEF UnlinkIncome, UnlinkOutcome, Down, TypeOK, OpenInv, DaemonSteps,
                queues, client
  <1> QED BY <1>1, <1>2, <1>3, <1>4, <1>5, <1>6, <1>7 DEF DaemonStep

LEMMA CallerTyped ==
    ASSUME TypeInv, NEW c \in Clients,
           \/ ClientStep(c) \/ Interrupt(c)
           \/ \E kind \in Kinds : Call(c, kind)
    PROVE  TypeInv'
  <1> USE DEF TypeInv
  <1>1. ASSUME NEW kind \in Kinds, Call(c, kind) PROVE TypeInv'
    <2>1. calls' \in 1..MaxCalls
      BY <1>1, BoundsAssumption DEF Call, TypeOK
    <2>2. [id |-> calls', kind |-> kind] \in CallType
      BY <2>1, KindsAssumption DEF CallType
    <2>3. /\ call' \in [Clients -> CallType \cup {NoCall}]
          /\ call'[c] \in CallType /\ \A d \in Clients \ {c} : call'[d] = call[d]
      BY <1>1, <2>2 DEF Call, TypeOK
    <2>4. /\ cpc' \in [Clients -> ClientSteps]
          /\ \A d \in Clients \ {c} : cpc'[d] = cpc[d]
      BY <1>1 DEF Call, TypeOK, ClientSteps
    <2>5. got' \in [Clients -> 0..MaxCalls]
      BY <1>1, BoundsAssumption DEF Call, TypeOK, None
    <2>6. upsets' \subseteq Upsets
      BY <1>1 DEF Call, TypeOK, Upsets
    <2>7. UNCHANGED <<queues, names, daemon, cin, cout>>
      BY <1>1 DEF Call
    <2>8. calls' \in 0..MaxCalls
      BY <2>1
    <2>9. TypeOK'
      BY <2>3, <2>4, <2>5, <2>6, <2>7, <2>8 DEF TypeOK, queues, names, daemon
    <2> QED BY <2>3, <2>4, <2>7, <2>9 DEF OpenInv, daemon
  <1>2. CASE OpenSend(c) \/ OpenRecv(c)
    <2>1. CASE OpenSend(c)
      <3>1. cin' \in [Clients -> 0..Len(income)] /\ upsets' \subseteq Upsets
        <4>1. inName \in 0..Len(income) /\ None \in 0..Len(income)
          BY Lengths DEF TypeOK, None
        <4>2. CASE cin' = [cin EXCEPT ![c] = inName] /\ UNCHANGED upsets
          BY <4>1, <4>2 DEF TypeOK
        <4>3. CASE cin' = [cin EXCEPT ![c] = None] /\ Upset(TRUE, "failure")
          BY <4>1, <4>3 DEF TypeOK, Upset, Upsets
        <4> QED BY <2>1, <4>2, <4>3 DEF OpenSend
      <3> QED BY <2>1, <3>1
              DEF OpenSend, TypeOK, OpenInv, ClientSteps, queues, names, daemon
    <2>2. CASE OpenRecv(c)
      <3>1. cout' \in [Clients -> 0..Len(outcome)] /\ upsets' \subseteq Upsets
        <4>1. outName \in 0..Len(outcome) /\ None \in 0..Len(outcome)
          BY Lengths DEF TypeOK, None
        <4>2. CASE cout' = [cout EXCEPT ![c] = outName] /\ UNCHANGED upsets
          BY <4>1, <4>2 DEF TypeOK
        <4>3. CASE cout' = [cout EXCEPT ![c] = None] /\ Upset(TRUE, "failure")
          BY <4>1, <4>3 DEF TypeOK, Upset, Upsets
        <4> QED BY <2>2, <4>2, <4>3 DEF OpenRecv
      <3> QED BY <2>2, <3>1
              DEF OpenRecv, TypeOK, OpenInv, ClientSteps, queues, names, daemon
    <2> QED BY <1>2, <2>1, <2>2
  <1>3. CASE GiveUp(c) \/ Interrupt(c)
    <2>1. End(c) /\ UNCHANGED <<queues, names, daemon, call, got, calls>>
      BY <1>3 DEF GiveUp, Interrupt
    <2>2. upsets' \subseteq Upsets
      BY <1>3 DEF GiveUp, Interrupt, TypeOK, Upset, Upsets
    <2>3. /\ cpc' \in [Clients -> ClientSteps]
          /\ cin' \in [Clients -> 0..Len(income)] /\ cout' \in [Clients -> 0..Len(outcome)]
          /\ \A d \in Clients : cpc'[d] # "idle" => cpc'[d] = cpc[d]
      BY <2>1, Ended
    <2> QED BY <2>1, <2>2, <2>3 DEF TypeOK, OpenInv, queues, names, daemon
  <1>4. CASE Send(c)
    <2>1. /\ cpc' \in [Clients -> ClientSteps]
          /\ \A d \in Clients \ {c} : cpc'[d] = cpc[d]
          /\ cin' \in [Clients -> 0..Len(income)] /\ cout' \in [Clients -> 0..Len(outcome)]
          /\ call[c] \in CallType
      <3>1. call[c] \in CallType
        BY <1>4 DEF Send, OpenInv
      <3>2. CASE call[c].kind = "ask"
        BY <1>4, <3>1, <3>2 DEF Send, TypeOK, ClientSteps
      <3>3. CASE call[c].kind # "ask"
        BY <1>4, <3>1, <3>3, Ended DEF Send
      <3> QED BY <3>2, <3>3
    <2>2. /\ income' \in Seq(Seq(CallType)) /\ Len(income') = Len(income)
          /\ \A r \in 1..Len(income') : Len(income'[r]) <= Cap
      <3>1. CASE cin[c] = None
        BY <1>4, <3>1 DEF Send, End, TypeOK
      <3>2. CASE cin[c] # None
        <4>1. cin[c] \in 1..Len(income)
          BY <3>2, Lengths DEF TypeOK, None
        <4>2. /\ income \in Seq(Seq(CallType)) /\ Len(income[cin[c]]) < Cap
              /\ \A r \in 1..Len(income) : Len(income[r]) <= Cap
              /\ PutIn(income, income', cin[c], call[c])
          BY <1>4, <3>2 DEF Send, End, TypeOK, PutIn
        <4> QED BY <2>1, <4>1, <4>2, PutBounded
      <3> QED BY <3>1, <3>2
    <2> QED BY <1>4, <2>1, <2>2 DEF Send, TypeOK, OpenInv, names, daemon
  <1>5. CASE Take(c)
    <2>1. cout[c] \in 1..Len(outcome) /\ outcome[cout[c]] # <<>>
      BY <1>5, Lengths DEF Take, End, TypeOK, None
    <2>2. /\ outcome' \in Seq(Seq(1..MaxCalls)) /\ Len(outcome') = Len(outcome)
          /\ \A r \in 1..Len(outcome') : Len(outcome'[r]) <= Cap
          /\ Head(outcome[cout[c]]) \in 1..MaxCalls
      <3>1. /\ outcome \in Seq(Seq(1..MaxCalls))
            /\ \A r \in 1..Len(outcome) : Len(outcome[r]) <= Cap
            /\ TakenFrom(outcome, outcome', cout[c])
        BY <1>5 DEF Take, End, TypeOK, TakenFrom
      <3> QED BY <2>1, <3>1, TakenBounded
    <2>3. got' \in [Clients -> 0..MaxCalls]
      <3>1. Head(outcome[cout[c]]) \in 0..MaxCalls
        BY <2>2, BoundsAssumption
      <3> QED BY <1>5, <3>1 DEF Take, TypeOK
    <2>4. /\ cpc' \in [Clients -> ClientSteps]
          /\ cin' \in [Clients -> 0..Len(income)] /\ cout' \in [Clients -> 0..Len(outcome)]
          /\ \A d \in Clients : cpc'[d] # "idle" => cpc'[d] = cpc[d]
      BY <1>5, Ended DEF Take
    <2> QED BY <1>5, <2>2, <2>3, <2>4 DEF Take, TypeOK, OpenInv, names, daemon
  <1> QED BY <1>1, <1>2, <1>3, <1>4, <1>5 DEF ClientStep

LEMMA TypeStep == TypeInv /\ [Next]_vars => TypeInv'
  <1>1. TypeInv /\ UNCHANGED vars => TypeInv'
    BY DEF TypeInv, TypeOK, OpenInv, vars, queues, names, daemon, client
  <1> QED BY <1>1, DaemonTyped, CallerTyped DEF Next

-----------------------------------------------------------------------------
(* A call is in one place.                                                 *)

LEMMA InitOnce == Init => OnceInv
  BY DEF Init, OnceInv, Once, Holds, Asked, Served, Answered, Planned

\* A step after which calls are in no place where they were not.
LEMMA OnceShrinks ==
    ASSUME OnceInv, Once(income, IdOf)', Once(outcome, Self)', calls' = calls,
           \A n \in 1..MaxCalls :
             /\ Asked(n)' => Asked(n)
             /\ Served(n)' => Served(n)
             /\ Answered(n)' => Answered(n)
             /\ \A c \in Clients : Planned(c, n)' => Planned(c, n)
    PROVE  OnceInv'
  BY DEF OnceInv

LEMMA Primed ==
    /\ Once(income, IdOf)' <=> Once(income', IdOf)
    /\ Once(outcome, Self)' <=> Once(outcome', Self)
    /\ \A n : /\ Asked(n) <=> Holds(income, IdOf, n)
              /\ Asked(n)' <=> Holds(income', IdOf, n)
              /\ Answered(n) <=> Holds(outcome, Self, n)
              /\ Answered(n)' <=> Holds(outcome', Self, n)
  BY DEF Asked, Answered, Once, Holds, IdOf, Self

LEMMA SameQueues ==
    /\ UNCHANGED income => /\ Once(income, IdOf) => Once(income, IdOf)'
                           /\ \A n : Asked(n)' <=> Asked(n)
    /\ UNCHANGED outcome => /\ Once(outcome, Self) => Once(outcome, Self)'
                            /\ \A n : Answered(n)' <=> Answered(n)
  BY Primed

LEMMA SamePlans ==
    UNCHANGED <<cpc, call>> =>
        \A c \in Clients : \A n : Planned(c, n)' <=> Planned(c, n)
  BY DEF Planned

LEMMA ReceiveOnce ==
    ASSUME TypeInv, Receive, Once(income, IdOf)
    PROVE  /\ Once(income, IdOf)'
           /\ \A n : Asked(n)' => n # serving'.id
           /\ serving' \in CallType
           /\ \A n : Asked(n) <=> Asked(n)' \/ n = serving'.id
  <1>1. din \in 1..Len(income)
    BY Lengths DEF Receive, Commanded, TypeInv, TypeOK, OpenInv, None
  <1>2. /\ income \in Seq(Seq(CallType)) /\ TakenFrom(income, income', din)
        /\ serving' = Head(income[din])
    BY DEF Receive, Commanded, TakenFrom, TypeInv, TypeOK
  <1>3. /\ Once(income', IdOf) /\ ~Holds(income', IdOf, IdOf[serving'])
        /\ \A n : Holds(income, IdOf, n)
                    <=> Holds(income', IdOf, n) \/ n = IdOf[serving']
    BY <1>1, <1>2, TakenOnce
  <1>4. serving' \in CallType
    BY <1>1, <1>2, Taken
  <1>5. IdOf[serving'] = serving'.id
    BY <1>4 DEF IdOf
  <1> QED BY <1>3, <1>4, <1>5, Primed

LEMMA AnswerOnce ==
    ASSUME TypeInv, Answer, dout # None, Once(outcome, Self), ~Answered(serving.id)
    PROVE  /\ Once(outcome, Self)'
           /\ \A n : Answered(n)' <=> Answered(n) \/ n = serving.id
  <1>1. dout \in 1..Len(outcome) /\ serving \in CallType
    BY Lengths DEF Answer, TypeInv, TypeOK, OpenInv, None
  <1>2. serving.id \in 1..MaxCalls
    BY <1>1 DEF CallType
  <1>3. outcome \in Seq(Seq(1..MaxCalls)) /\ PutIn(outcome, outcome', dout, serving.id)
    BY DEF Answer, PutIn, TypeInv, TypeOK
  <1>4. Self[serving.id] = serving.id
    BY <1>2 DEF Self
  <1>5. ~Holds(outcome, Self, Self[serving.id])
    BY <1>4 DEF Answered
  <1>6. /\ Once(outcome', Self)
        /\ \A n : Holds(outcome', Self, n)
                    <=> Holds(outcome, Self, n) \/ n = Self[serving.id]
    BY <1>1, <1>2, <1>3, <1>5, PutOnce
  <1> QED BY <1>4, <1>6, Primed

LEMMA SendOnce ==
    ASSUME TypeInv, NEW c \in Clients, Send(c), cin[c] # None,
           Once(income, IdOf), ~Asked(call[c].id)
    PROVE  /\ Once(income, IdOf)'
           /\ \A n : Asked(n)' <=> Asked(n) \/ n = call[c].id
  <1>1. cin[c] \in 1..Len(income) /\ call[c] \in CallType
    <2>1. cin[c] \in 1..Len(income)
      BY Lengths DEF TypeInv, TypeOK, None
    <2>2. call[c] \in CallType
      BY DEF Send, End, TypeInv, OpenInv
    <2> QED BY <2>1, <2>2
  <1>2. income \in Seq(Seq(CallType)) /\ PutIn(income, income', cin[c], call[c])
    BY DEF Send, End, PutIn, TypeInv, TypeOK
  <1>3. IdOf[call[c]] = call[c].id
    BY <1>1 DEF IdOf
  <1>4. ~Holds(income, IdOf, IdOf[call[c]])
    BY <1>3 DEF Asked
  <1>5. /\ Once(income', IdOf)
        /\ \A n : Holds(income', IdOf, n)
                    <=> Holds(income, IdOf, n) \/ n = IdOf[call[c]]
    BY <1>1, <1>2, <1>4, PutOnce
  <1> QED BY <1>3, <1>5, Primed

LEMMA TakeOnce ==
    ASSUME TypeInv, NEW c \in Clients, Take(c), Once(outcome, Self)
    PROVE  /\ Once(outcome, Self)' /\ \A n : Answered(n)' => n # got'[c]
           /\ got'[c] \in 1..MaxCalls
           /\ \A n : Answered(n) <=> Answered(n)' \/ n = got'[c]
  <1>1. cout[c] \in 1..Len(outcome)
    BY Lengths DEF Take, End, TypeInv, TypeOK, None
  <1>2. /\ outcome \in Seq(Seq(1..MaxCalls)) /\ TakenFrom(outcome, outcome', cout[c])
        /\ got'[c] = Head(outcome[cout[c]])
    BY DEF Take, End, TakenFrom, TypeInv, TypeOK
  <1>3. got'[c] \in 1..MaxCalls
    <2>1. Head(outcome[cout[c]]) \in 1..MaxCalls
      BY <1>1, <1>2, Taken
    <2> QED BY <1>2, <2>1
  <1>4. /\ Once(outcome', Self) /\ ~Holds(outcome', Self, Self[got'[c]])
        /\ \A n : Holds(outcome, Self, n)
                    <=> Holds(outcome', Self, n) \/ n = Self[got'[c]]
    BY <1>1, <1>2, TakenOnce
  <1>5. Self[got'[c]] = got'[c]
    BY <1>3 DEF Self
  <1> QED BY <1>3, <1>4, <1>5, Primed

LEMMA DaemonOnce ==
    ASSUME TypeInv, OnceInv, DaemonStep \/ Start \/ Kill PROVE OnceInv'
  <1>1. Once(income, IdOf) /\ Once(outcome, Self)
    BY DEF OnceInv
  <1>2. UNCHANGED <<cpc, call, calls>>
    BY DEF DaemonStep, Start, Kill, OpenIncome, OpenOutcome, Receive, Commanded,
           Answer, UnlinkIncome, UnlinkOutcome, Down, client
  <1>3. \A c \in Clients : \A n : Planned(c, n)' <=> Planned(c, n)
    BY <1>2, SamePlans
  <1>4. CASE Start \/ Kill \/ UnlinkIncome \/ UnlinkOutcome
    <2>1. UNCHANGED <<income, outcome>> /\ \A n : ~Served(n)'
      BY <1>4 DEF Start, Kill, UnlinkIncome, UnlinkOutcome, Down, queues, Served
    <2> QED BY <1>1, <1>2, <1>3, <2>1, SameQueues, OnceShrinks
  <1>5. CASE OpenIncome
    <2>1. UNCHANGED outcome /\ \A n : ~Served(n)'
      BY <1>5 DEF OpenIncome, Served
    <2>2. Once(income, IdOf)' /\ \A n : Asked(n)' <=> Asked(n)
      <3>1. CASE UNCHANGED income
        BY <1>1, <3>1, SameQueues
      <3>2. CASE income' = Append(income, <<>>)
        <4>1. /\ Once(income', IdOf)
              /\ \A n : Holds(income', IdOf, n) <=> Holds(income, IdOf, n)
          BY <1>1, <3>2, AddedOnce DEF TypeInv, TypeOK
        <4> QED BY <4>1, Primed
      <3> QED BY <1>5, <3>1, <3>2 DEF OpenIncome
    <2> QED BY <1>1, <1>2, <1>3, <2>1, <2>2, SameQueues, OnceShrinks
  <1>6. CASE OpenOutcome
    <2>1. UNCHANGED income /\ \A n : ~Served(n)'
      BY <1>6 DEF OpenOutcome, Served
    <2>2. Once(outcome, Self)' /\ \A n : Answered(n)' <=> Answered(n)
      <3>1. CASE UNCHANGED outcome
        BY <1>1, <3>1, SameQueues
      <3>2. CASE outcome' = Append(outcome, <<>>)
        <4>1. /\ Once(outcome', Self)
              /\ \A n : Holds(outcome', Self, n) <=> Holds(outcome, Self, n)
          BY <1>1, <3>2, AddedOnce DEF TypeInv, TypeOK
        <4> QED BY <4>1, Primed
      <3> QED BY <1>6, <3>1, <3>2 DEF OpenOutcome
    <2> QED BY <1>1, <1>2, <1>3, <2>1, <2>2, SameQueues, OnceShrinks
  <1>7. CASE Receive
    <2>1. /\ Once(income, IdOf)'
          /\ \A n : Asked(n)' => n # serving'.id
           /\ serving' \in CallType
          /\ \A n : Asked(n) <=> Asked(n)' \/ n = serving'.id
      BY <1>1, <1>7, ReceiveOnce
    <2>2. UNCHANGED outcome /\ \A n : ~Served(n)
      BY <1>7 DEF Receive, Commanded, Served
    <2>3. Once(outcome, Self)' /\ \A n : Answered(n)' <=> Answered(n)
      BY <1>1, <2>2, SameQueues
    <2>4. \A n : Served(n)' => n = serving'.id
      BY DEF Served
    <2>5. \A n \in 1..MaxCalls :
            /\ Asked(n)' => Asked(n) /\ ~Served(n)'
            /\ Served(n)' => Asked(n)
            /\ Answered(n)' => Answered(n)
            /\ \A c \in Clients : Planned(c, n)' => Planned(c, n)
      BY <1>3, <2>1, <2>3, <2>4
    <2> QED BY <1>2, <2>1, <2>3, <2>5 DEF OnceInv
  <1>8. CASE Answer
    <2>1. serving \in CallType /\ Served(serving.id)
      BY <1>8 DEF Answer, Served, TypeInv, OpenInv
    <2>2. serving.id \in 1..MaxCalls
      BY <2>1 DEF CallType
    <2>4. UNCHANGED income /\ \A n : ~Served(n)'
      BY <1>8 DEF Answer, Served
    <2>5. Once(income, IdOf)' /\ \A n : Asked(n)' <=> Asked(n)
      BY <1>1, <2>4, SameQueues
    <2>6. \A n : n = serving.id => Served(n)
      BY <2>1
    <2>7. CASE dout = None
      <3>1. UNCHANGED outcome
        BY <1>8, <2>7 DEF Answer
      <3> QED BY <1>1, <1>2, <1>3, <2>4, <2>5, <3>1, SameQueues, OnceShrinks
    <2>8. CASE dout # None
      <3>1. /\ Once(outcome, Self)'
            /\ \A n : Answered(n)' <=> Answered(n) \/ n = serving.id
        BY <1>1, <1>8, <2>1, <2>2, <2>8, AnswerOnce DEF OnceInv
      <3> QED BY <1>2, <1>3, <2>2, <2>4, <2>5, <2>6, <3>1 DEF OnceInv
    <2> QED BY <2>7, <2>8
  <1> QED BY <1>4, <1>5, <1>6, <1>7, <1>8 DEF DaemonStep

LEMMA CallerOnce ==
    ASSUME TypeInv, OnceInv, NEW c \in Clients,
           \/ ClientStep(c) \/ Interrupt(c)
           \/ \E kind \in Kinds : Call(c, kind)
    PROVE  OnceInv'
  <1>1. Once(income, IdOf) /\ Once(outcome, Self)
    BY DEF OnceInv
  <1>2. \A n : Served(n)' <=> Served(n)
    BY DEF ClientStep, Interrupt, Call, OpenSend, OpenRecv, Send, Take, GiveUp, End,
           daemon, Served
  <1>3. CASE OpenSend(c) \/ OpenRecv(c) \/ GiveUp(c) \/ Interrupt(c)
    <2>1. UNCHANGED <<income, outcome, call, calls>>
      BY <1>3 DEF OpenSend, OpenRecv, GiveUp, Interrupt, End, queues
    <2>2. \A d \in Clients : \A n : Planned(d, n)' => Planned(d, n)
      BY <1>3, <2>1 DEF OpenSend, OpenRecv, GiveUp, Interrupt, End, Planned, TypeInv,
                        TypeOK
    <2> QED BY <1>1, <1>2, <2>1, <2>2, SameQueues, OnceShrinks
  <1>4. CASE Take(c)
    <2>1. UNCHANGED <<income, call, calls>>
      BY <1>4 DEF Take, End
    <2>2. \A d \in Clients : \A n : Planned(d, n)' => Planned(d, n)
      BY <1>4, <2>1 DEF Take, End, Planned, TypeInv, TypeOK
    <2>3. Once(outcome, Self)' /\ \A n : Answered(n)' => Answered(n)
      BY <1>1, <1>4, TakeOnce
    <2> QED BY <1>1, <1>2, <2>1, <2>2, <2>3, SameQueues, OnceShrinks
  <1>5. CASE Send(c)
    <2>1. UNCHANGED <<outcome, call, calls>>
      BY <1>5 DEF Send, End
    <2>2. /\ \A d \in Clients : \A n : Planned(d, n)' => Planned(d, n) /\ d # c
          /\ \A n : Planned(c, n) <=> n = call[c].id
          /\ call[c] \in CallType
      BY <1>5, <2>1 DEF Send, End, Planned, TypeInv, TypeOK, OpenInv
    <2>3. call[c].id \in 1..MaxCalls
      BY <2>2 DEF CallType
    <2>4. Once(outcome, Self)' /\ \A n : Answered(n)' <=> Answered(n)
      BY <1>1, <2>1, SameQueues
    <2>5. CASE cin[c] = None
      <3>1. UNCHANGED income
        BY <1>5, <2>5 DEF Send, End
      <3> QED BY <1>1, <1>2, <2>1, <2>2, <2>4, <3>1, SameQueues, OnceShrinks
    <2>6. CASE cin[c] # None
      <3>1. ~Asked(call[c].id)
        BY <2>2, <2>3 DEF OnceInv
      <3>2. /\ Once(income, IdOf)'
            /\ \A n : Asked(n)' <=> Asked(n) \/ n = call[c].id
        BY <1>1, <1>5, <2>6, <3>1, SendOnce
      <3> QED BY <1>2, <2>1, <2>2, <2>3, <2>4, <3>2 DEF OnceInv
    <2> QED BY <2>5, <2>6
  <1>6. ASSUME NEW kind \in Kinds, Call(c, kind) PROVE OnceInv'
    <2>1. UNCHANGED <<income, outcome>> /\ calls \in Nat /\ calls' = calls + 1
      BY <1>6 DEF Call, queues, TypeInv, TypeOK
    <2>2. /\ \A n : Planned(c, n)' <=> n = calls'
          /\ \A d \in Clients \ {c} : \A n : Planned(d, n)' <=> Planned(d, n)
      BY <1>6 DEF Call, Planned, TypeInv, TypeOK
    <2>3. /\ Once(income, IdOf)' /\ \A n : Asked(n)' <=> Asked(n)
          /\ Once(outcome, Self)' /\ \A n : Answered(n)' <=> Answered(n)
      BY <1>1, <2>1, SameQueues
    <2>4. calls' > calls /\ \A n \in 1..MaxCalls : n > calls' => n > calls /\ n # calls'
      BY <2>1
    <2> QED BY <1>2, <2>2, <2>3, <2>4 DEF OnceInv
  <1> QED BY <1>3, <1>4, <1>5, <1>6 DEF ClientStep

LEMMA OnceStep == TypeInv /\ OnceInv /\ [Next]_vars => OnceInv'
  <1>1. OnceInv /\ UNCHANGED vars => OnceInv'
    <2> SUFFICES ASSUME OnceInv, UNCHANGED vars PROVE OnceInv'
      OBVIOUS
    <2>1. /\ UNCHANGED <<income, outcome, cpc, call, calls>>
          /\ \A n : Served(n)' <=> Served(n)
      BY DEF vars, queues, daemon, client, Served
    <2>2. Once(income, IdOf) /\ Once(outcome, Self)
      BY DEF OnceInv
    <2> QED BY <2>1, <2>2, SameQueues, SamePlans, OnceShrinks
  <1> QED BY <1>1, DaemonOnce, CallerOnce DEF Next

LEMMA IdsInQueues ==
    ASSUME TypeInv
    PROVE  /\ \A q \in 1..Len(income) : \A i \in 1..Len(income[q]) :
                /\ income[q][i].id \in 1..MaxCalls
                /\ IdOf[income[q][i]] = income[q][i].id
           /\ \A q \in 1..Len(outcome) : \A i \in 1..Len(outcome[q]) :
                /\ outcome[q][i] \in 1..MaxCalls
                /\ Self[outcome[q][i]] = outcome[q][i]
  <1>1. ASSUME NEW q \in 1..Len(income), NEW i \in 1..Len(income[q])
        PROVE  income[q][i].id \in 1..MaxCalls /\ IdOf[income[q][i]] = income[q][i].id
    <2>1. income[q] \in Seq(CallType)
      BY ElementOfSeq DEF TypeInv, TypeOK
    <2>2. income[q][i] \in CallType
      BY <2>1, ElementOfSeq
    <2> QED BY <2>2 DEF CallType, IdOf
  <1>2. ASSUME NEW q \in 1..Len(outcome), NEW i \in 1..Len(outcome[q])
        PROVE  outcome[q][i] \in 1..MaxCalls /\ Self[outcome[q][i]] = outcome[q][i]
    <2>1. outcome[q] \in Seq(1..MaxCalls)
      BY ElementOfSeq DEF TypeInv, TypeOK
    <2>2. outcome[q][i] \in 1..MaxCalls
      BY <2>1, ElementOfSeq
    <2> QED BY <2>2 DEF Self
  <1> QED BY <1>1, <1>2

LEMMA OnceImplies == TypeInv /\ OnceInv => ServedOnce
  <1> SUFFICES ASSUME TypeInv, OnceInv PROVE ServedOnce
    OBVIOUS
  <1>1. \A p \in Places :
          \/ \E q \in 1..Len(income) : \E i \in 1..Len(income[q]) :
               p = <<"in", q, i>> /\ IdAt(p) = income[q][i].id
          \/ \E q \in 1..Len(outcome) : \E i \in 1..Len(outcome[q]) :
               p = <<"out", q, i>> /\ IdAt(p) = outcome[q][i]
    <2> TAKE p \in Places
    <2>1. CASE \E q \in 1..Len(income) : \E i \in 1..Len(income[q]) : p = <<"in", q, i>>
      BY <2>1 DEF IdAt
    <2>2. CASE \E q \in 1..Len(outcome) : \E i \in 1..Len(outcome[q]) :
                 p = <<"out", q, i>>
      BY <2>2 DEF IdAt
    <2>3. \/ p \in UNION {{<<"in", q, i>> : i \in 1..Len(income[q])} :
                            q \in 1..Len(income)}
          \/ p \in UNION {{<<"out", q, i>> : i \in 1..Len(outcome[q])} :
                            q \in 1..Len(outcome)}
      BY DEF Places
    <2> QED BY <2>1, <2>2, <2>3, Zenon
  <1>2. /\ \A q \in 1..Len(income) : \A i \in 1..Len(income[q]) :
             /\ income[q][i].id \in 1..MaxCalls
             /\ IdOf[income[q][i]] = income[q][i].id
        /\ \A q \in 1..Len(outcome) : \A i \in 1..Len(outcome[q]) :
             /\ outcome[q][i] \in 1..MaxCalls
             /\ Self[outcome[q][i]] = outcome[q][i]
    BY IdsInQueues
  <1>4. /\ \A q \in 1..Len(income) : \A i \in 1..Len(income[q]) :
             Asked(income[q][i].id)
        /\ \A q \in 1..Len(outcome) : \A i \in 1..Len(outcome[q]) :
             Answered(outcome[q][i])
    BY <1>2 DEF Asked, Answered, Holds
  <1>5. ASSUME NEW p \in Places, NEW r \in Places, IdAt(p) = IdAt(r) PROVE p = r
    <2>1. CASE /\ \E q \in 1..Len(income) : \E i \in 1..Len(income[q]) :
                    p = <<"in", q, i>> /\ IdAt(p) = income[q][i].id
               /\ \E q \in 1..Len(income) : \E i \in 1..Len(income[q]) :
                    r = <<"in", q, i>> /\ IdAt(r) = income[q][i].id
      <3>1. PICK q \in 1..Len(income) : \E i \in 1..Len(income[q]) :
              p = <<"in", q, i>> /\ IdAt(p) = income[q][i].id
        BY <2>1
      <3>2. PICK i \in 1..Len(income[q]) : p = <<"in", q, i>> /\ IdAt(p) = income[q][i].id
        BY <3>1
      <3>3. PICK t \in 1..Len(income) : \E j \in 1..Len(income[t]) :
              r = <<"in", t, j>> /\ IdAt(r) = income[t][j].id
        BY <2>1
      <3>4. PICK j \in 1..Len(income[t]) : r = <<"in", t, j>> /\ IdAt(r) = income[t][j].id
        BY <3>3
      <3>5. IdOf[income[q][i]] = IdOf[income[t][j]]
        BY <1>2, <1>5, <3>2, <3>4
      <3>6. q = t /\ i = j
        BY <3>5 DEF OnceInv, Once
      <3> QED BY <3>2, <3>4, <3>6
    <2>2. CASE /\ \E q \in 1..Len(outcome) : \E i \in 1..Len(outcome[q]) :
                    p = <<"out", q, i>> /\ IdAt(p) = outcome[q][i]
               /\ \E q \in 1..Len(outcome) : \E i \in 1..Len(outcome[q]) :
                    r = <<"out", q, i>> /\ IdAt(r) = outcome[q][i]
      <3>1. PICK q \in 1..Len(outcome) : \E i \in 1..Len(outcome[q]) :
              p = <<"out", q, i>> /\ IdAt(p) = outcome[q][i]
        BY <2>2
      <3>2. PICK i \in 1..Len(outcome[q]) : p = <<"out", q, i>> /\ IdAt(p) = outcome[q][i]
        BY <3>1
      <3>3. PICK t \in 1..Len(outcome) : \E j \in 1..Len(outcome[t]) :
              r = <<"out", t, j>> /\ IdAt(r) = outcome[t][j]
        BY <2>2
      <3>4. PICK j \in 1..Len(outcome[t]) : r = <<"out", t, j>> /\ IdAt(r) = outcome[t][j]
        BY <3>3
      <3>5. Self[outcome[q][i]] = Self[outcome[t][j]]
        BY <1>5, <3>2, <3>4
      <3>6. q = t /\ i = j
        BY <3>5 DEF OnceInv, Once
      <3> QED BY <3>2, <3>4, <3>6
    <2>3. \A n \in 1..MaxCalls : ~(Asked(n) /\ Answered(n))
      BY DEF OnceInv
    <2>4. (/\ \E q \in 1..Len(income) : \E i \in 1..Len(income[q]) :
                IdAt(p) = income[q][i].id
           /\ \E q \in 1..Len(outcome) : \E i \in 1..Len(outcome[q]) :
                IdAt(r) = outcome[q][i]) => FALSE
      <3>1. ASSUME \E q \in 1..Len(income) : \E i \in 1..Len(income[q]) :
                     IdAt(p) = income[q][i].id
            PROVE  Asked(IdAt(p)) /\ IdAt(p) \in 1..MaxCalls
        BY <1>2, <1>4, <3>1
      <3>2. ASSUME \E q \in 1..Len(outcome) : \E i \in 1..Len(outcome[q]) :
                     IdAt(r) = outcome[q][i]
            PROVE  Answered(IdAt(r))
        BY <1>4, <3>2
      <3>3. IdAt(p) = IdAt(r)
        BY <1>5
      <3> QED BY <2>3, <3>1, <3>2, <3>3, Zenon
    <2>5. (/\ \E q \in 1..Len(income) : \E i \in 1..Len(income[q]) :
                IdAt(r) = income[q][i].id
           /\ \E q \in 1..Len(outcome) : \E i \in 1..Len(outcome[q]) :
                IdAt(p) = outcome[q][i]) => FALSE
      <3>1. ASSUME \E q \in 1..Len(income) : \E i \in 1..Len(income[q]) :
                     IdAt(r) = income[q][i].id
            PROVE  Asked(IdAt(r)) /\ IdAt(r) \in 1..MaxCalls
        BY <1>2, <1>4, <3>1
      <3>2. ASSUME \E q \in 1..Len(outcome) : \E i \in 1..Len(outcome[q]) :
                     IdAt(p) = outcome[q][i]
            PROVE  Answered(IdAt(p))
        BY <1>4, <3>2
      <3>3. IdAt(p) = IdAt(r)
        BY <1>5
      <3> QED BY <2>3, <3>1, <3>2, <3>3, Zenon
    <2> QED BY <1>1, <2>1, <2>2, <2>4, <2>5
  <1>6. ASSUME dpc = "send", NEW p \in Places PROVE IdAt(p) # serving.id
    <2>1. \A n \in 1..MaxCalls :
            Served(n) => ~Asked(n) /\ ~Answered(n)
      BY DEF OnceInv
    <2>2. Served(serving.id)
      BY <1>6 DEF Served
    <2>3. IdAt(p) \in 1..MaxCalls /\ (Asked(IdAt(p)) \/ Answered(IdAt(p)))
      BY <1>1, <1>2, <1>4
    <2> QED BY <2>1, <2>2, <2>3
  <1> QED BY <1>5, <1>6 DEF ServedOnce

-----------------------------------------------------------------------------
(* What the names stand for.                                               *)

LEMMA UpsetsGrow == TypeInv /\ [Next]_vars => upsets \subseteq upsets'
  <1> SUFFICES ASSUME TypeInv, [Next]_vars PROVE upsets \subseteq upsets'
    OBVIOUS
  <1>1. CASE DaemonStep \/ Start \/ Kill
    BY <1>1 DEF DaemonStep, Start, Kill, OpenIncome, OpenOutcome, Receive, Commanded,
                Answer, UnlinkIncome, UnlinkOutcome, Down, Upset
  <1>2. ASSUME NEW c \in Clients, ClientStep(c) \/ Interrupt(c)
        PROVE  upsets \subseteq upsets'
    BY <1>2 DEF ClientStep, OpenSend, OpenRecv, Send, Take, GiveUp, Interrupt, End,
                Upset
  <1>3. ASSUME NEW c \in Clients, NEW kind \in Kinds, Call(c, kind)
        PROVE  upsets \subseteq upsets'
    BY <1>3 DEF Call
  <1> QED BY <1>1, <1>2, <1>3 DEF Next, vars

\* Unless a failure is noted, an open gives what the name stands for.
LEMMA OpensUnfailing ==
    ASSUME "failure" \notin upsets'
    PROVE  /\ OpenIncome =>
                /\ din' = inName'
                /\ \/ inName = None /\ income' = Append(income, <<>>)
                      /\ inName' = Len(income) + 1
                   \/ inName # None /\ UNCHANGED <<income, inName>>
           /\ OpenOutcome =>
                /\ dout' = outName'
                /\ \/ outName = None /\ outcome' = Append(outcome, <<>>)
                      /\ outName' = Len(outcome) + 1
                   \/ outName # None /\ UNCHANGED <<outcome, outName>>
           /\ \A c \in Clients :
                /\ OpenSend(c) => cin' = [cin EXCEPT ![c] = inName] /\ UNCHANGED upsets
                /\ OpenRecv(c) => cout' = [cout EXCEPT ![c] = outName] /\ UNCHANGED upsets
  <1>1. ~Upset(TRUE, "failure")
    BY DEF Upset
  <1>2. OpenIncome =>
          /\ din' = inName'
          /\ \/ inName = None /\ income' = Append(income, <<>>)
                /\ inName' = Len(income) + 1
             \/ inName # None /\ UNCHANGED <<income, inName>>
    BY <1>1 DEF OpenIncome
  <1>3. OpenOutcome =>
          /\ dout' = outName'
          /\ \/ outName = None /\ outcome' = Append(outcome, <<>>)
                /\ outName' = Len(outcome) + 1
             \/ outName # None /\ UNCHANGED <<outcome, outName>>
    BY <1>1 DEF OpenOutcome
  <1>4. ASSUME NEW c \in Clients
        PROVE  /\ OpenSend(c) => cin' = [cin EXCEPT ![c] = inName] /\ UNCHANGED upsets
               /\ OpenRecv(c) => cout' = [cout EXCEPT ![c] = outName] /\ UNCHANGED upsets
    BY <1>1 DEF OpenSend, OpenRecv
  <1> QED BY <1>2, <1>3, <1>4

LEMMA InitPair == Init => PairInv
  BY DEF Init, PairInv, Opening

LEMMA DaemonPair ==
    ASSUME TypeInv, PairInv, DaemonStep \/ Start \/ Kill,
           upsets' \subseteq {"stop", "crowd"}, upsets \subseteq {"stop", "crowd"}
    PROVE  PairInv'
  <1> USE DEF PairInv
  <1>0. "failure" \notin upsets'
    OBVIOUS
  <1>1. CASE Start
    <2>1. \A c \in Clients : ~Opening(c)
      BY <1>1 DEF Start, Upset
    <2> QED BY <1>1, <2>1 DEF Start, Opening, names, client
  <1>2. CASE Kill
    BY <1>2 DEF Kill, Down, Upset
  <1>3. CASE OpenIncome
    <2>1. inName = None /\ outName = None /\ \A c \in Clients : ~Opening(c)
      BY <1>3 DEF OpenIncome
    <2>2. income' = Append(income, <<>>) /\ inName' = Len(income) + 1 /\ din' = inName'
      BY <1>0, <1>3, <2>1, OpensUnfailing
    <2>3. Len(income') = Len(income) + 1 /\ income'[Len(income')] = <<>>
      BY <2>2, Added DEF TypeInv, TypeOK
    <2>4. din' # None /\ \A c \in Clients : cin[c] # din'
      <3>1. Len(income) \in Nat /\ \A c \in Clients : cin[c] \in 0..Len(income)
        BY Lengths DEF TypeInv, TypeOK
      <3> QED BY <2>2, <3>1 DEF None
    <2>5. dpc' = "openOut" /\ UNCHANGED <<outName, client>>
      BY <1>3 DEF OpenIncome
    <2>6. income'[din'] = <<>> /\ inName' = din' /\ outName' = None
      BY <2>1, <2>2, <2>3, <2>5
    <2> QED BY <2>1, <2>4, <2>5, <2>6 DEF Opening, client
  <1>4. CASE OpenOutcome
    <2>1. /\ inName = din /\ outName = None /\ din # None
          /\ \A c \in Clients : ~Opening(c) /\ (cpc[c] # "idle" => cin[c] # din)
      BY <1>4 DEF OpenOutcome
    <2>4. dout' = outName' /\ outName' = Len(outcome) + 1
      BY <1>0, <1>4, <2>1, OpensUnfailing
    <2>2. dout' # None /\ \A c \in Clients : cout'[c] # dout'
      BY <1>4, <2>4, Lengths DEF OpenOutcome, client, TypeInv, TypeOK, None
    <2>3. \A c \in Clients : cpc'[c] # "openOut" /\ (cpc'[c] # "idle" => cin'[c] # din')
      BY <1>4, <2>1 DEF OpenOutcome, client, Opening
    <2>5. dpc' = "receive" /\ UNCHANGED <<inName, din>>
      BY <1>4 DEF OpenOutcome
    <2> QED BY <2>1, <2>2, <2>3, <2>4, <2>5
  <1>5. CASE Receive
    <2>1. dpc = "receive" /\ dpc' \in {"receive", "send", "unlinkIn"}
      <3>1. serving' \in CallType
        <4>1. din \in 1..Len(income)
          BY <1>5, Lengths DEF Receive, Commanded, TypeInv, TypeOK, OpenInv, None
        <4>2. income[din] \in Seq(CallType) /\ income[din] # <<>>
          BY <1>5, <4>1, ElementOfSeq DEF Receive, Commanded, TypeInv, TypeOK
        <4> QED BY <1>5, <4>2, HeadTailProperties DEF Receive, Commanded
      <3> QED BY <1>5, <3>1 DEF Receive, Commanded, CallType
    <2> QED BY <1>5, <2>1 DEF Receive, Commanded, names, client
  <1>6. CASE Answer
    BY <1>6 DEF Answer, names, client
  <1>7. CASE UnlinkIncome \/ UnlinkOutcome
    BY <1>7 DEF UnlinkIncome, UnlinkOutcome, Down
  <1> QED BY <1>1, <1>2, <1>3, <1>4, <1>5, <1>6, <1>7 DEF DaemonStep

LEMMA CallerPair ==
    ASSUME TypeInv, PairInv, NEW c \in Clients,
           \/ ClientStep(c) \/ Interrupt(c)
           \/ \E kind \in Kinds : Call(c, kind),
           upsets' \subseteq {"stop", "crowd"}, upsets \subseteq {"stop", "crowd"}
    PROVE  PairInv'
  <1> USE DEF PairInv
  <1>0. "failure" \notin upsets'
    OBVIOUS
  <1>1. ASSUME NEW kind \in Kinds, Call(c, kind) PROVE PairInv'
    <2>1. dpc \notin {"openIn", "openOut"}
      BY <1>1 DEF Call
    <2>2. /\ cpc'[c] = "openIn" /\ \A d \in Clients \ {c} : cpc'[d] = cpc[d]
          /\ UNCHANGED <<names, daemon, income, cin, cout>>
      BY <1>1 DEF Call, TypeInv, TypeOK, queues
    <2> QED BY <2>1, <2>2 DEF names, daemon
  <1>2. CASE OpenSend(c)
    <2>1. dpc \notin {"openIn", "openOut"}
      BY <1>2 DEF OpenSend, Opening
    <2>2. /\ cpc'[c] = "openOut" /\ cin'[c] = inName
          /\ \A d \in Clients \ {c} : cpc'[d] = cpc[d] /\ cin'[d] = cin[d]
          /\ UNCHANGED <<names, daemon, cout>>
      BY <1>0, <1>2, OpensUnfailing DEF OpenSend, TypeInv, TypeOK
    <2> QED BY <2>1, <2>2 DEF names, daemon
  <1>3. CASE OpenRecv(c)
    <2>1. dpc \notin {"openIn", "openOut"}
      BY <1>3 DEF OpenRecv, Opening
    <2>2. /\ cpc[c] = "openOut" /\ cpc'[c] = "send" /\ cout'[c] = outName
          /\ \A d \in Clients \ {c} : cpc'[d] = cpc[d] /\ cout'[d] = cout[d]
          /\ UNCHANGED <<names, daemon, cin>>
      BY <1>0, <1>3, OpensUnfailing DEF OpenRecv, TypeInv, TypeOK
    <2> QED BY <2>1, <2>2 DEF names, daemon
  <1>4. CASE Send(c)
    <2>1. /\ cpc[c] = "send" /\ cpc'[c] \in {"wait", "idle"}
          /\ \A d \in Clients \ {c} : cpc'[d] = cpc[d]
          /\ \A d \in Clients : cpc'[d] # "idle" => cin'[d] = cin[d] /\ cout'[d] = cout[d]
          /\ UNCHANGED <<names, daemon>>
      BY <1>4, SendEnds
    <2>2. \A d \in Clients : /\ cpc'[d] # "idle" => cpc[d] # "idle"
                             /\ cpc'[d] \in {"send", "wait"}
                                  => cpc[d] \in {"send", "wait"}
                             /\ Opening(d)' => Opening(d)
      BY <2>1 DEF Opening
    <2>3. dpc = "openOut" => income'[din] = <<>>
      <3> SUFFICES ASSUME dpc = "openOut" PROVE income'[din] = <<>>
        OBVIOUS
      <3>1. income[din] = <<>> /\ cin[c] # din
        BY <2>1
      <3>2. CASE cin[c] = None
        BY <1>4, <3>1, <3>2 DEF Send, End
      <3>3. CASE cin[c] # None
        <4>1. income' = [income EXCEPT ![cin[c]] = Append(@, call[c])]
          BY <1>4, <3>3 DEF Send, End
        <4>2. income'[din] = income[din]
          BY <3>1, <4>1 DEF TypeInv, TypeOK, OpenInv
        <4> QED BY <3>1, <4>2
      <3> QED BY <3>2, <3>3
    <2> QED BY <2>1, <2>2, <2>3 DEF names, daemon
  <1>5. CASE Take(c) \/ GiveUp(c)
    <2>1. \A d \in Clients :
            /\ cpc'[d] # "idle" => /\ cpc'[d] = cpc[d] /\ cin'[d] = cin[d]
                                   /\ cout'[d] = cout[d]
            /\ Opening(d)' => Opening(d)
      BY <1>5, Ended DEF Take, GiveUp, TypeInv, Opening
    <2>2. UNCHANGED <<names, daemon, income>>
      BY <1>5 DEF Take, GiveUp, queues
    <2> QED BY <2>1, <2>2 DEF names, daemon
  <1>6. CASE Interrupt(c)
    BY <1>6 DEF Interrupt, End, Upset
  <1> QED BY <1>1, <1>2, <1>3, <1>4, <1>5, <1>6 DEF ClientStep

LEMMA PairStep == TypeInv /\ PairInv /\ [Next]_vars => PairInv'
  <1> SUFFICES ASSUME TypeInv, PairInv, [Next]_vars,
                      upsets' \subseteq {"stop", "crowd"}
               PROVE  PairInv'
    BY DEF PairInv
  <1>1. upsets \subseteq {"stop", "crowd"}
    BY UpsetsGrow
  <1>2. CASE UNCHANGED vars
    BY <1>2 DEF PairInv, Opening, vars, queues, names, daemon, client
  <1> QED BY <1>1, <1>2, DaemonPair, CallerPair DEF Next

-----------------------------------------------------------------------------
(* What is in the queues, as sets of ids.                                  *)

LEMMA SetsHold ==
    /\ \A q \in 1..Len(income) : \A n \in AskedOf(q) : TypeInv => Asked(n)
    /\ \A q \in 1..Len(outcome) : \A n \in AnswersIn(q) : Answered(n)
    /\ TypeInv => \A n \in 1..MaxCalls : Answered(n) =>
         \E q \in 1..Len(outcome) : n \in AnswersIn(q)
  <1>1. ASSUME NEW q \in 1..Len(income), NEW n \in AskedOf(q), TypeInv PROVE Asked(n)
    <2>1. PICK i \in 1..Len(income[q]) : income[q][i].id = n
      BY DEF AskedOf
    <2>2. income[q] \in Seq(CallType)
      BY <1>1, ElementOfSeq DEF TypeInv, TypeOK
    <2>3. IdOf[income[q][i]] = n
      BY <2>1, <2>2, ElementOfSeq DEF IdOf
    <2> QED BY <2>3 DEF Asked, Holds
  <1>2. ASSUME NEW q \in 1..Len(outcome), NEW n \in AnswersIn(q) PROVE Answered(n)
    BY DEF AnswersIn, Answered, Holds, Self
  <1>3. ASSUME TypeInv, NEW n \in 1..MaxCalls, Answered(n)
        PROVE  \E q \in 1..Len(outcome) : n \in AnswersIn(q)
    <2>1. PICK q \in 1..Len(outcome) : \E i \in 1..Len(outcome[q]) :
            Self[outcome[q][i]] = n
      BY <1>3 DEF Answered, Holds
    <2>2. PICK i \in 1..Len(outcome[q]) : Self[outcome[q][i]] = n
      BY <2>1
    <2>3. outcome[q] \in Seq(1..MaxCalls)
      BY <1>3, ElementOfSeq DEF TypeInv, TypeOK
    <2>4. outcome[q][i] \in 1..MaxCalls
      BY <2>3, ElementOfSeq
    <2>5. outcome[q][i] = n
      BY <2>2, <2>4 DEF Self
    <2> QED BY <2>5 DEF AnswersIn
  <1> QED BY <1>1, <1>2, <1>3

LEMMA ReceiveSets ==
    ASSUME TypeInv, Receive
    PROVE  /\ AskedOf(din)' \subseteq AskedOf(din)
           /\ AskedOf(din) = AskedOf(din)' \cup ServedNow'
           /\ serving'.kind = "ask" => serving'.id \in AskedOf(din)
           /\ dpc' = "send" <=> serving'.kind = "ask"
  <1>1. din \in 1..Len(income) /\ din' = din
    BY Lengths DEF Receive, Commanded, TypeInv, TypeOK, OpenInv, None
  <1>2. income \in Seq(Seq(CallType)) /\ TakenFrom(income, income', din)
    BY DEF Receive, Commanded, TakenFrom, TypeInv, TypeOK
  <1>3. /\ Len(income[din]) \in Nat \ {0} /\ Len(income'[din]) = Len(income[din]) - 1
        /\ \A i \in 1..Len(income'[din]) : income'[din][i] = income[din][i + 1]
        /\ Head(income[din]) = income[din][1] /\ Head(income[din]) \in CallType
    <2>1. income[din] \in Seq(CallType) /\ income[din] # <<>>
      BY <1>1, <1>2, ElementOfSeq DEF TakenFrom
    <2>2. income'[din] = Tail(income[din])
      BY <1>1, <1>2 DEF TakenFrom
    <2>3. Len(income[din]) \in Nat \ {0}
      BY <2>1, EmptySeq
    <2>4. /\ Len(Tail(income[din])) = Len(income[din]) - 1
          /\ \A i \in 1..Len(Tail(income[din])) :
               Tail(income[din])[i] = income[din][i + 1]
      BY <2>1, HeadTailProperties
    <2>5. Head(income[din]) = income[din][1] /\ Head(income[din]) \in CallType
      BY <2>1, HeadTailProperties
    <2> QED BY <2>2, <2>3, <2>4, <2>5
  <1>4. \A i \in 1..Len(income'[din]) : i + 1 \in 1..Len(income[din])
    BY <1>3
  <1>5. AskedOf(din)' \subseteq AskedOf(din)
    BY <1>1, <1>3, <1>4 DEF AskedOf
  <1>6. serving' = income[din][1] /\ serving' \in CallType
    BY <1>3 DEF Receive, Commanded
  <1>7. serving'.kind = "ask" => serving'.id \in AskedOf(din)
    <2>1. serving'.id \in 1..MaxCalls /\ 1 \in 1..Len(income[din])
      BY <1>3, <1>6 DEF CallType
    <2> QED BY <1>6, <2>1 DEF AskedOf
  <1>8. dpc' = "send" <=> serving'.kind = "ask"
    BY <1>6 DEF Receive, Commanded, CallType
  <1>9. ASSUME NEW n \in AskedOf(din) PROVE n \in AskedOf(din)' \cup ServedNow'
    <2>1. PICK i \in 1..Len(income[din]) :
            n \in 1..MaxCalls /\ income[din][i].kind = "ask" /\ income[din][i].id = n
      BY DEF AskedOf
    <2>2. CASE i = 1
      BY <1>6, <1>8, <2>1, <2>2 DEF ServedNow
    <2>3. CASE i # 1
      <3>1. i - 1 \in 1..Len(income'[din]) /\ (i - 1) + 1 = i
        BY <1>3, <2>1, <2>3
      <3>2. income'[din][i - 1] = income[din][i]
        BY <1>3, <3>1
      <3>3. income'[din'][i - 1].kind = "ask" /\ income'[din'][i - 1].id = n
        BY <1>1, <2>1, <3>2
      <3> QED BY <1>1, <2>1, <3>1, <3>3 DEF AskedOf
    <2> QED BY <2>2, <2>3
  <1>10. ServedNow' \subseteq AskedOf(din)
    BY <1>7, <1>8 DEF ServedNow
  <1> QED BY <1>5, <1>7, <1>8, <1>9, <1>10

LEMMA AnswerSets ==
    ASSUME TypeInv, Answer, dout # None
    PROVE  \A q \in 1..Len(outcome) :
             AnswersIn(q)' = AnswersIn(q) \cup (IF q = dout THEN {serving.id} ELSE {})
  <1>1. dout \in 1..Len(outcome) /\ serving \in CallType
    BY Lengths DEF Answer, TypeInv, TypeOK, OpenInv, None
  <1>2. serving.id \in 1..MaxCalls
    BY <1>1 DEF CallType
  <1>3. outcome \in Seq(Seq(1..MaxCalls)) /\ PutIn(outcome, outcome', dout, serving.id)
    BY DEF Answer, PutIn, TypeInv, TypeOK
  <1>4. /\ \A r \in 1..Len(outcome) : r # dout => outcome'[r] = outcome[r]
        /\ Len(outcome'[dout]) = Len(outcome[dout]) + 1
        /\ outcome'[dout][Len(outcome[dout]) + 1] = serving.id
        /\ \A i \in 1..Len(outcome[dout]) : outcome'[dout][i] = outcome[dout][i]
    <2>1. outcome[dout] \in Seq(1..MaxCalls)
      BY <1>1, <1>3, ElementOfSeq
    <2>2. /\ outcome'[dout] = Append(outcome[dout], serving.id)
          /\ \A r \in 1..Len(outcome) : r # dout => outcome'[r] = outcome[r]
      BY <1>1, <1>3 DEF PutIn
    <2> QED BY <1>2, <2>1, <2>2
  <1>5. Len(outcome[dout]) \in Nat
    BY <1>1, <1>3, ElementOfSeq, LenProperties
  <1>6. \A i \in 1..Len(outcome'[dout]) :
          i \in 1..Len(outcome[dout]) \/ i = Len(outcome[dout]) + 1
    BY <1>4, <1>5
  <1>7. ASSUME NEW q, q = dout PROVE AnswersIn(q)' = AnswersIn(q) \cup {serving.id}
    <2>1. AnswersIn(q)' \subseteq AnswersIn(q) \cup {serving.id}
      BY <1>4, <1>6, <1>7 DEF AnswersIn
    <2>2. \A i \in 1..Len(outcome[dout]) : i \in 1..Len(outcome'[dout])
      BY <1>4, <1>5
    <2>3. AnswersIn(q) \subseteq AnswersIn(q)'
      BY <1>4, <1>7, <2>2 DEF AnswersIn
    <2>4. Len(outcome[dout]) + 1 \in 1..Len(outcome'[dout])
      BY <1>4, <1>5
    <2>5. serving.id \in AnswersIn(q)'
      BY <1>2, <1>4, <1>7, <2>4 DEF AnswersIn
    <2> QED BY <2>1, <2>3, <2>5
  <1>8. \A q \in 1..Len(outcome) : q # dout => AnswersIn(q)' = AnswersIn(q)
    BY <1>4 DEF AnswersIn
  <1>9. dout' = dout
    BY DEF Answer
  <1> QED BY <1>7, <1>8, <1>9

LEMMA SendSets ==
    ASSUME TypeInv, NEW c \in Clients, Send(c), NEW q \in 1..Len(income)
    PROVE  AskedOf(q)' = AskedOf(q) \cup (IF cin[c] = q /\ call[c].kind = "ask"
                                         THEN {call[c].id} ELSE {})
  <1>1. CASE cin[c] = None
    <2>1. q # None
      BY Lengths DEF TypeInv, None
    <2> QED BY <1>1, <2>1 DEF Send, End, AskedOf
  <1>2. CASE cin[c] # None
    <2>1. cin[c] \in 1..Len(income)
      <3>1. cin[c] \in 0..Len(income) /\ Len(income) \in Nat
        BY Lengths DEF TypeInv, TypeOK
      <3> QED BY <1>2, <3>1 DEF None
    <2>2. call[c] \in CallType
      BY DEF Send, End, TypeInv, OpenInv
    <2>3. income \in Seq(Seq(CallType)) /\ PutIn(income, income', cin[c], call[c])
      BY <1>2 DEF Send, End, PutIn, TypeInv, TypeOK
    <2>4. /\ \A r \in 1..Len(income) : r # cin[c] => income'[r] = income[r]
          /\ Len(income'[cin[c]]) = Len(income[cin[c]]) + 1
          /\ income'[cin[c]][Len(income[cin[c]]) + 1] = call[c]
          /\ \A i \in 1..Len(income[cin[c]]) :
               income'[cin[c]][i] = income[cin[c]][i]
      <3>1. income[cin[c]] \in Seq(CallType)
        BY <2>1, <2>3, ElementOfSeq
      <3>2. /\ income'[cin[c]] = Append(income[cin[c]], call[c])
            /\ \A r \in 1..Len(income) : r # cin[c] => income'[r] = income[r]
        BY <2>1, <2>3 DEF PutIn
      <3> QED BY <2>2, <3>1, <3>2
    <2>5. Len(income[cin[c]]) \in Nat
      BY <2>1, <2>3, ElementOfSeq, LenProperties
    <2>6. \A i \in 1..Len(income'[cin[c]]) :
            i \in 1..Len(income[cin[c]]) \/ i = Len(income[cin[c]]) + 1
      BY <2>4, <2>5
    <2>7. CASE q # cin[c]
      BY <2>4, <2>7 DEF AskedOf
    <2>8. CASE q = cin[c]
      <3>1. AskedOf(q)' \subseteq AskedOf(q) \cup (IF call[c].kind = "ask"
                                                 THEN {call[c].id} ELSE {})
        BY <2>4, <2>6, <2>8 DEF AskedOf
      <3>2. \A i \in 1..Len(income[q]) : i \in 1..Len(income'[q])
        BY <2>4, <2>5, <2>8
      <3>3. AskedOf(q) \subseteq AskedOf(q)'
        BY <2>4, <2>8, <3>2 DEF AskedOf
      <3>4. Len(income[q]) + 1 \in 1..Len(income'[q]) /\ call[c].id \in 1..MaxCalls
        BY <2>2, <2>4, <2>5, <2>8 DEF CallType
      <3>5. call[c].kind = "ask" => call[c].id \in AskedOf(q)'
        BY <2>4, <2>8, <3>4 DEF AskedOf
      <3> QED BY <2>8, <3>1, <3>3, <3>5
    <2> QED BY <2>7, <2>8
  <1> QED BY <1>1, <1>2

LEMMA TakeSets ==
    ASSUME TypeInv, NEW c \in Clients, Take(c)
    PROVE  /\ cout[c] \in 1..Len(outcome)
           /\ \A q \in 1..Len(outcome) : AnswersIn(q)' \subseteq AnswersIn(q)
           /\ got'[c] \in AnswersIn(cout[c])
           /\ \A q \in 1..Len(outcome) :
                AnswersIn(q) \subseteq
                  AnswersIn(q)' \cup (IF q = cout[c] THEN {got'[c]} ELSE {})
  <1>1. cout[c] \in 1..Len(outcome)
    BY Lengths DEF Take, End, TypeInv, TypeOK, None
  <1>2. outcome \in Seq(Seq(1..MaxCalls)) /\ TakenFrom(outcome, outcome', cout[c])
    BY DEF Take, End, TakenFrom, TypeInv, TypeOK
  <1>3. /\ \A r \in 1..Len(outcome) : r # cout[c] => outcome'[r] = outcome[r]
        /\ Len(outcome[cout[c]]) \in Nat \ {0}
        /\ Len(outcome'[cout[c]]) = Len(outcome[cout[c]]) - 1
        /\ \A i \in 1..Len(outcome'[cout[c]]) :
             outcome'[cout[c]][i] = outcome[cout[c]][i + 1]
        /\ Head(outcome[cout[c]]) = outcome[cout[c]][1]
        /\ Head(outcome[cout[c]]) \in 1..MaxCalls
    <2>1. outcome[cout[c]] \in Seq(1..MaxCalls) /\ outcome[cout[c]] # <<>>
      BY <1>1, <1>2, ElementOfSeq DEF TakenFrom
    <2>2. /\ outcome'[cout[c]] = Tail(outcome[cout[c]])
          /\ \A r \in 1..Len(outcome) : r # cout[c] => outcome'[r] = outcome[r]
      BY <1>1, <1>2 DEF TakenFrom
    <2>3. Len(outcome[cout[c]]) \in Nat \ {0}
      BY <2>1, EmptySeq
    <2>4. /\ Len(Tail(outcome[cout[c]])) = Len(outcome[cout[c]]) - 1
          /\ \A i \in 1..Len(Tail(outcome[cout[c]])) :
               Tail(outcome[cout[c]])[i] = outcome[cout[c]][i + 1]
      BY <2>1, HeadTailProperties
    <2>5. /\ Head(outcome[cout[c]]) = outcome[cout[c]][1]
          /\ Head(outcome[cout[c]]) \in 1..MaxCalls
      <3>1. Head(outcome[cout[c]]) = outcome[cout[c]][1]
        BY <2>1
      <3>2. outcome[cout[c]][1] \in 1..MaxCalls
        <4>1. 1 \in 1..Len(outcome[cout[c]])
          BY <2>3
        <4> QED BY <2>1, <4>1, ElementOfSeq
      <3> QED BY <3>1, <3>2
    <2> QED BY <2>2, <2>3, <2>4, <2>5
  <1>4. \A i \in 1..Len(outcome'[cout[c]]) : i + 1 \in 1..Len(outcome[cout[c]])
    BY <1>3
  <1>5. ASSUME NEW q \in 1..Len(outcome) PROVE AnswersIn(q)' \subseteq AnswersIn(q)
    <2>1. CASE q # cout[c]
      BY <1>3, <2>1 DEF AnswersIn
    <2>2. CASE q = cout[c]
      <3> SUFFICES ASSUME NEW i \in 1..Len(outcome'[q])
                   PROVE  \E k \in 1..Len(outcome[q]) : outcome[q][k] = outcome'[q][i]
        BY DEF AnswersIn
      <3>1. /\ i + 1 \in 1..Len(outcome[q])
            /\ outcome[q][i + 1] = outcome'[q][i]
        BY <1>3, <1>4, <2>2
      <3> QED BY <3>1
    <2> QED BY <2>1, <2>2
  <1>6. got'[c] \in AnswersIn(cout[c])
    <2>1. got'[c] = Head(outcome[cout[c]])
      BY DEF Take, End, TypeInv, TypeOK
    <2>2. 1 \in 1..Len(outcome[cout[c]])
      BY <1>3
    <2> QED BY <1>3, <2>1, <2>2 DEF AnswersIn
  <1>7. ASSUME NEW q \in 1..Len(outcome), NEW n \in AnswersIn(q)
        PROVE  n \in AnswersIn(q)' \cup (IF q = cout[c] THEN {got'[c]} ELSE {})
    <2>1. CASE q # cout[c]
      BY <1>3, <2>1 DEF AnswersIn
    <2>2. CASE q = cout[c]
      <3>1. PICK i \in 1..Len(outcome[q]) : n \in 1..MaxCalls /\ outcome[q][i] = n
        BY DEF AnswersIn
      <3>2. CASE i = 1
        BY <1>3, <2>2, <3>1, <3>2 DEF Take, End, TypeInv, TypeOK
      <3>3. CASE i # 1
        <4>1. i - 1 \in 1..Len(outcome'[q]) /\ (i - 1) + 1 = i
          BY <1>3, <2>2, <3>1, <3>3
        <4>2. outcome'[q][i - 1] = n
          BY <1>3, <2>2, <3>1, <4>1
        <4> QED BY <3>1, <4>1, <4>2 DEF AnswersIn
      <3> QED BY <3>2, <3>3
    <2> QED BY <2>1, <2>2
  <1> QED BY <1>1, <1>5, <1>6, <1>7

LEMMA OpenSets ==
    ASSUME TypeInv, OpenOutcome
    PROVE  /\ Len(outcome') \in Nat
           /\ \A q \in 1..Len(outcome') : AnswersIn(q)' # {} =>
                q \in 1..Len(outcome) /\ AnswersIn(q)' = AnswersIn(q)
           /\ outName = None /\ "failure" \notin upsets' =>
                \A q : q = dout' => AnswersIn(q)' = {}
  <1>1. CASE outcome' = Append(outcome, <<>>) /\ dout' = Len(outcome) + 1
    <2>2. /\ Len(outcome') = Len(outcome) + 1 /\ Len(outcome) \in Nat
          /\ \A q \in 1..Len(outcome) : outcome'[q] = outcome[q]
          /\ Len(outcome'[Len(outcome')]) = 0
      BY <1>1, Added, Lengths DEF TypeInv, TypeOK
    <2>3. ASSUME NEW q, q = Len(outcome') PROVE AnswersIn(q)' = {}
      BY <2>2, <2>3 DEF AnswersIn
    <2>4. \A q \in 1..Len(outcome) : AnswersIn(q)' = AnswersIn(q)
      BY <2>2 DEF AnswersIn
    <2> QED BY <1>1, <2>2, <2>3, <2>4
  <1>2. CASE UNCHANGED outcome /\ (outName = None => "failure" \in upsets')
    BY <1>2, Lengths DEF AnswersIn, TypeInv
  <1>3. Upset(TRUE, "failure") => "failure" \in upsets'
    BY DEF Upset
  <1>4. \/ outcome' = Append(outcome, <<>>) /\ dout' = Len(outcome) + 1
        \/ UNCHANGED outcome /\ (outName = None => "failure" \in upsets')
    BY <1>3 DEF OpenOutcome
  <1> QED BY <1>1, <1>2, <1>4

-----------------------------------------------------------------------------
(* As many answers as clients that wait.                                   *)

LEMMA Finite ==
    /\ IsFiniteSet(Waiting) /\ Cardinality(Waiting) \in Nat
    /\ Cardinality(Waiting) <= Cardinality(Clients)
    /\ IsFiniteSet(Owed) /\ Cardinality(Owed) \in Nat
  <1>1. IsFiniteSet(1..MaxCalls)
    BY BoundsAssumption, FS_Interval
  <1>2. Owed \subseteq 1..MaxCalls
    BY DEF Owed, AskedOf, ServedNow, AnswersIn
  <1>3. Waiting \subseteq Clients
    BY DEF Waiting
  <1> QED BY <1>1, <1>2, <1>3, ClientsAssumption, FS_Subset, FS_CardinalityType

\* A step after which the same is owed and the same wait, or that adds or takes
\* one of both.
LEMMA OwedKept ==
    ASSUME NobodyInVain, upsets \subseteq {"stop", "crowd"}, dpc \in {"receive", "send"},
           \/ Owed' = Owed /\ Waiting' = Waiting
           \/ \E x, y : /\ x \notin Owed /\ Owed' = Owed \cup {x}
                        /\ y \notin Waiting /\ Waiting' = Waiting \cup {y}
           \/ \E x, y : /\ x \in Owed /\ Owed' = Owed \ {x}
                        /\ y \in Waiting /\ Waiting' = Waiting \ {y}
    PROVE  NobodyInVain'
  <1>1. /\ IsFiniteSet(Owed) /\ IsFiniteSet(Waiting)
        /\ Cardinality(Owed) \in Nat /\ Cardinality(Waiting) \in Nat
    BY Finite
  <1>2. Cardinality(Owed) = Cardinality(Waiting)
    BY DEF NobodyInVain
  <1>3. ASSUME NEW x, NEW y, x \notin Owed, Owed' = Owed \cup {x},
               y \notin Waiting, Waiting' = Waiting \cup {y}
        PROVE  Cardinality(Owed') = Cardinality(Waiting')
    <2>1. Cardinality(Owed \cup {x}) = Cardinality(Owed) + 1
      BY <1>1, <1>3, FS_AddElement
    <2>2. Cardinality(Waiting \cup {y}) = Cardinality(Waiting) + 1
      BY <1>1, <1>3, FS_AddElement
    <2> QED BY <1>2, <1>3, <2>1, <2>2
  <1>4. ASSUME NEW x, NEW y, x \in Owed, Owed' = Owed \ {x},
               y \in Waiting, Waiting' = Waiting \ {y}
        PROVE  Cardinality(Owed') = Cardinality(Waiting')
    <2>1. Cardinality(Owed \ {x}) = Cardinality(Owed) - 1
      BY <1>1, <1>4, FS_RemoveElement
    <2>2. Cardinality(Waiting \ {y}) = Cardinality(Waiting) - 1
      BY <1>1, <1>4, FS_RemoveElement
    <2> QED BY <1>2, <1>4, <2>1, <2>2
  <1>5. Cardinality(Owed') = Cardinality(Waiting')
    BY <1>2, <1>3, <1>4
  <1> QED BY <1>5 DEF NobodyInVain

LEMMA InitOwed == Init => NobodyInVain
  BY DEF Init, NobodyInVain

LEMMA DaemonOwed ==
    ASSUME TypeInv, OnceInv, PairInv, NobodyInVain, DaemonStep \/ Start \/ Kill,
           upsets' \subseteq {"stop", "crowd"}, upsets \subseteq {"stop", "crowd"},
           dpc' \in {"receive", "send"}
    PROVE  NobodyInVain'
  <1>1. CASE OpenOutcome
    <2>1. income[din] = <<>> /\ outName = None
      BY <1>1 DEF OpenOutcome, PairInv
    <2>2. AnswersIn(dout)' = {}
      <3>1. "failure" \notin upsets'
        OBVIOUS
      <3> QED BY <1>1, <2>1, <3>1, OpenSets
    <2>3. AskedOf(din)' = {}
      BY <1>1, <2>1 DEF OpenOutcome, AskedOf
    <2>4. ServedNow' = {}
      BY <1>1 DEF OpenOutcome, ServedNow, Served
    <2>5. Owed' = {}
      BY <2>2, <2>3, <2>4 DEF Owed
    <2>6. \A c \in Clients : cout'[c] # dout'
      <3>1. dout' = Len(outcome) + 1
        BY <1>1, <2>1, OpensUnfailing
      <3>2. Len(outcome) \in Nat /\ \A c \in Clients : cout'[c] \in 0..Len(outcome)
        BY <1>1, Lengths DEF OpenOutcome, client, TypeInv, TypeOK
      <3> QED BY <3>1, <3>2
    <2>7. Waiting' = {}
      BY <2>6 DEF Waiting
    <2> QED BY <2>5, <2>7 DEF NobodyInVain
  <1>2. CASE Receive
    <2>1. AskedOf(din) = AskedOf(din)' \cup ServedNow' /\ ServedNow = {}
      BY <1>2, ReceiveSets DEF Receive, Commanded, ServedNow
    <2>2. AnswersIn(dout)' = AnswersIn(dout) /\ Waiting' = Waiting
      BY <1>2 DEF Receive, Commanded, AnswersIn, Waiting, client
    <2>3. Owed' = Owed
      BY <2>1, <2>2 DEF Owed
    <2> QED BY <1>2, <2>2, <2>3, OwedKept DEF Receive, Commanded
  <1>3. CASE Answer
    <2>0. dout # None
      BY <1>3 DEF Answer, PairInv
    <2>1. dout \in 1..Len(outcome) /\ dout' = dout
      BY <1>3, <2>0, Lengths DEF Answer, TypeInv, TypeOK, None
    <2>2. ServedNow = {serving.id}
      <3>1. serving \in CallType
        BY <1>3 DEF Answer, TypeInv, OpenInv
      <3> QED BY <1>3, <3>1 DEF Answer, ServedNow, CallType
    <2>3. AnswersIn(dout)' = AnswersIn(dout) \cup ServedNow
      BY <1>3, <2>0, <2>1, <2>2, AnswerSets
    <2>4. AskedOf(din)' = AskedOf(din) /\ ServedNow' = {} /\ Waiting' = Waiting
      BY <1>3 DEF Answer, AskedOf, ServedNow, Waiting, client
    <2>5. Owed' = Owed
      BY <2>3, <2>4 DEF Owed
    <2> QED BY <1>3, <2>4, <2>5, OwedKept DEF Answer
  <1> QED BY <1>1, <1>2, <1>3
          DEF DaemonStep, Start, Kill, OpenIncome, UnlinkIncome, UnlinkOutcome, Down

LEMMA CallerOwed ==
    ASSUME TypeInv, OnceInv, PairInv, NobodyInVain, NEW c \in Clients,
           \/ ClientStep(c) \/ Interrupt(c)
           \/ \E kind \in Kinds : Call(c, kind),
           upsets' \subseteq {"stop", "crowd"}, upsets \subseteq {"stop", "crowd"},
           dpc' \in {"receive", "send"}
    PROVE  NobodyInVain'
  <1>1. /\ UNCHANGED <<dpc, din, dout, serving>>
        /\ dpc \in {"receive", "send"} /\ ServedNow' = ServedNow
    BY DEF ClientStep, Interrupt, Call, OpenSend, OpenRecv, Send, Take, GiveUp, End,
           daemon, ServedNow, Served
  <1>2. din \in 1..Len(income) /\ dout \in 1..Len(outcome) /\ dout # None
    <2>1. din # None /\ dout # None
      BY <1>1 DEF PairInv
    <2> QED BY <2>1, Lengths DEF TypeInv, TypeOK, None
  <1>3. CASE OpenSend(c) \/ OpenRecv(c) \/ GiveUp(c) \/ \E kind \in Kinds : Call(c, kind)
    <2>1. UNCHANGED queues
      BY <1>3 DEF OpenSend, OpenRecv, GiveUp, End, Call
    <2>2. Owed' = Owed
      BY <1>1, <2>1 DEF Owed, AskedOf, AnswersIn, queues
    <2>3. Waiting' = Waiting
      BY <1>1, <1>2, <1>3 DEF OpenSend, OpenRecv, GiveUp, End, Call, Waiting,
                              TypeInv, TypeOK
    <2> QED BY <1>1, <2>2, <2>3, OwedKept
  <1>4. CASE Send(c)
    <2>1. AnswersIn(dout)' = AnswersIn(dout)
      BY <1>1, <1>4 DEF Send, End, AnswersIn
    <2>2. AskedOf(din)' = AskedOf(din) \cup (IF cin[c] = din /\ call[c].kind = "ask"
                                            THEN {call[c].id} ELSE {})
      BY <1>1, <1>2, <1>4, SendSets
    <2>3. /\ c \notin Waiting /\ (cin[c] = din <=> cout[c] = dout)
          /\ Waiting' = IF call[c].kind = "ask" /\ cout[c] = dout
                        THEN Waiting \cup {c} ELSE Waiting
      <3>1. cpc[c] = "send" /\ \A d \in Clients \ {c} : cpc'[d] = cpc[d]
        BY <1>4, SendEnds
      <3>2. c \notin Waiting /\ (cin[c] = din <=> cout[c] = dout)
        BY <1>1, <3>1 DEF Waiting, PairInv
      <3>3. \A d \in Clients \ {c} : d \in Waiting' <=> d \in Waiting
        <4> SUFFICES ASSUME NEW d \in Clients \ {c}, cpc[d] = "wait"
                     PROVE  cout'[d] = cout[d]
          BY <1>1, <3>1 DEF Waiting
        <4> QED BY <1>4, <3>1, SendEnds
      <3>4. c \in Waiting' <=> call[c].kind = "ask" /\ cout[c] = dout
        BY <1>1, <1>4, SendEnds DEF Waiting
      <3>5. Waiting \subseteq Clients /\ Waiting' \subseteq Clients
        BY DEF Waiting
      <3> QED BY <3>2, <3>3, <3>4, <3>5
    <2>4. CASE cin[c] = din /\ call[c].kind = "ask"
      <3>1. call[c].id \in 1..MaxCalls /\ Planned(c, call[c].id)
        BY <1>4 DEF Send, End, Planned, TypeInv, OpenInv, CallType
      <3>2. call[c].id \notin Owed
        BY <1>2, <3>1, SetsHold DEF OnceInv, Owed, ServedNow, Served
      <3>3. Owed' = Owed \cup {call[c].id}
        BY <1>1, <2>1, <2>2, <2>4 DEF Owed
      <3> QED BY <1>1, <2>3, <2>4, <3>2, <3>3, OwedKept
    <2>5. CASE ~(cin[c] = din /\ call[c].kind = "ask")
      <3>1. Owed' = Owed
        BY <1>1, <2>1, <2>2, <2>5 DEF Owed
      <3> QED BY <1>1, <2>3, <2>5, <3>1, OwedKept
    <2> QED BY <2>4, <2>5
  <1>5. CASE Take(c)
    <2>1. /\ AskedOf(din)' = AskedOf(din) /\ AnswersIn(dout)' \subseteq AnswersIn(dout)
          /\ AnswersIn(dout) \subseteq
               AnswersIn(dout)' \cup (IF dout = cout[c] THEN {got'[c]} ELSE {})
      <3>1. AskedOf(din)' = AskedOf(din)
        BY <1>1, <1>5 DEF Take, End, AskedOf
      <3> QED BY <1>1, <1>2, <1>5, <3>1, TakeSets
    <2>2. CASE cout[c] = dout
      <3>1. got'[c] \in AnswersIn(dout) /\ got'[c] \in Owed
        BY <1>5, <2>2, TakeSets DEF Owed
      <3>2. got'[c] \in 1..MaxCalls /\ Answered(got'[c])
        BY <1>2, <3>1, SetsHold DEF AnswersIn
      <3>3. got'[c] \notin AskedOf(din) /\ got'[c] \notin ServedNow
        BY <1>2, <3>2, SetsHold DEF OnceInv, ServedNow, Served
      <3>4. got'[c] \notin AnswersIn(dout)'
        <4>1. Len(outcome') = Len(outcome)
          BY <1>5 DEF Take, End, TypeInv, TypeOK
        <4>2. \A n \in AnswersIn(dout)' : Answered(n)'
          BY <1>1, <1>2, <4>1 DEF AnswersIn, Answered, Holds, Self
        <4> QED BY <1>5, <4>2, TakeOnce DEF OnceInv
      <3>5. Owed' = Owed \ {got'[c]}
        BY <1>1, <2>1, <2>2, <3>3, <3>4 DEF Owed
      <3>6. c \in Waiting /\ Waiting' = Waiting \ {c}
        BY <1>1, <1>5, <2>2 DEF Take, End, Waiting, TypeInv, TypeOK
      <3> QED BY <1>1, <3>1, <3>5, <3>6, OwedKept
    <2>3. CASE cout[c] # dout
      <3>1. Owed' = Owed
        BY <1>1, <2>1, <2>3 DEF Owed
      <3>2. Waiting' = Waiting
        BY <1>1, <1>5, <2>3 DEF Take, End, Waiting, TypeInv, TypeOK
      <3> QED BY <1>1, <3>1, <3>2, OwedKept
    <2> QED BY <2>2, <2>3
  <1>6. CASE Interrupt(c)
    BY <1>6 DEF Interrupt, End, Upset
  <1> QED BY <1>3, <1>4, <1>5, <1>6 DEF ClientStep

LEMMA OwedStep == TypeInv /\ OnceInv /\ PairInv /\ NobodyInVain /\ [Next]_vars => NobodyInVain'
  <1> SUFFICES ASSUME TypeInv, OnceInv, PairInv, NobodyInVain, [Next]_vars,
                      upsets' \subseteq {"stop", "crowd"}, dpc' \in {"receive", "send"}
               PROVE  NobodyInVain'
    BY DEF NobodyInVain
  <1>1. upsets \subseteq {"stop", "crowd"}
    BY UpsetsGrow
  <1>2. CASE UNCHANGED vars
    <2>1. Owed' = Owed /\ Waiting' = Waiting /\ UNCHANGED dpc
      BY <1>2 DEF Owed, AskedOf, ServedNow, Served, AnswersIn, Waiting, vars,
                  queues, daemon, client
    <2> QED BY <1>1, <2>1, OwedKept
  <1> QED BY <1>1, <1>2, DaemonOwed, CallerOwed DEF Next

LEMMA OwedImplies == TypeInv /\ OnceInv /\ PairInv /\ NobodyInVain => NeverBlocked
  <1> SUFFICES ASSUME TypeInv, OnceInv, PairInv, NobodyInVain, upsets \subseteq {"stop", "crowd"},
                      Cardinality(Clients) <= Cap, dpc = "send"
               PROVE  Len(outcome[dout]) < Cap
    BY DEF NeverBlocked
  <1> DEFINE answers == outcome[dout]
             given == AnswersIn(dout)
  <1>1. dout \in 1..Len(outcome) /\ serving \in CallType
    <2>1. dout # None
      BY DEF PairInv
    <2> QED BY <2>1, Lengths DEF TypeInv, TypeOK, OpenInv, None
  <1>2. answers \in Seq(1..MaxCalls) /\ Len(answers) \in Nat
    BY <1>1, ElementOfSeq, LenProperties DEF TypeInv, TypeOK
  <1>3. IsFiniteSet(given)
    <2>1. given \subseteq 1..MaxCalls
      BY DEF AnswersIn
    <2>2. IsFiniteSet(1..MaxCalls)
      BY BoundsAssumption, FS_Interval
    <2> QED BY <2>1, <2>2, FS_Subset
  <1>4. answers \in Injection(1..Len(answers), given)
    <2>1. \A i \in 1..Len(answers) : answers[i] \in 1..MaxCalls
      BY <1>2, ElementOfSeq
    <2>2. \A i, j \in 1..Len(answers) : answers[i] = answers[j] => i = j
      <3> SUFFICES ASSUME NEW i \in 1..Len(answers), NEW j \in 1..Len(answers),
                          answers[i] = answers[j]
                   PROVE  i = j
        OBVIOUS
      <3>1. Self[answers[i]] = Self[answers[j]]
        OBVIOUS
      <3> QED BY <1>1, <3>1 DEF OnceInv, Once
    <2>3. answers \in [1..Len(answers) -> given]
      <3>1. answers \in [1..Len(answers) -> 1..MaxCalls]
        BY <1>2, LenProperties
      <3>2. \A i \in 1..Len(answers) : answers[i] \in given
        BY <2>1 DEF AnswersIn
      <3> QED BY <3>1, <3>2
    <2> QED BY <2>2, <2>3 DEF Injection, IsInjective
  <1>5. Len(answers) <= Cardinality(given)
    <2>1. Cardinality(1..Len(answers)) <= Cardinality(given)
      BY <1>3, <1>4, FS_Injection
    <2>2. Cardinality(1..Len(answers)) = Len(answers)
      BY <1>2, FS_Interval
    <2> QED BY <2>1, <2>2
  <1>6. serving.id \in ServedNow /\ serving.id \notin given
    <2>1. serving.id \in 1..MaxCalls /\ Served(serving.id)
      BY <1>1 DEF CallType, Served
    <2> QED BY <1>1, <2>1, SetsHold DEF ServedNow, OnceInv
  <1>7. Cardinality(given) + 1 <= Cardinality(Owed)
    <2>1. given \cup {serving.id} \subseteq Owed
      BY <1>6 DEF Owed
    <2>2. /\ IsFiniteSet(given \cup {serving.id})
          /\ Cardinality(given \cup {serving.id}) = Cardinality(given) + 1
      BY <1>3, <1>6, FS_AddElement
    <2> QED BY <2>1, <2>2, Finite, FS_Subset
  <1>8. Cardinality(given) \in Nat /\ Cardinality(Clients) \in Nat
    BY <1>3, ClientsAssumption, FS_CardinalityType
  <1>9. Cardinality(Owed) = Cardinality(Waiting)
    BY DEF NobodyInVain
  <1> QED BY <1>2, <1>5, <1>7, <1>8, <1>9, Finite, CapAssumption

-----------------------------------------------------------------------------
(* Answers and calls match while clients come one at a time.               *)

LEMMA InitMatch == Init => MatchInv
  BY DEF Init, MatchInv, AnswersMatch, None

LEMMA DaemonMatch ==
    ASSUME TypeInv, OnceInv, PairInv, MatchInv, DaemonStep \/ Start \/ Kill,
           upsets' \subseteq {"stop"}, upsets \subseteq {"stop"}
    PROVE  MatchInv'
  <1> USE DEF MatchInv
  <1>1. UNCHANGED client
    BY DEF DaemonStep, Start, Kill, OpenIncome, OpenOutcome, Receive, Commanded,
           Answer, UnlinkIncome, UnlinkOutcome, Down
  <1>2. AnswersMatch'
    BY <1>1 DEF AnswersMatch, client
  <1>3. CASE Start \/ OpenIncome \/ UnlinkIncome \/ UnlinkOutcome
    <2>1. dpc' \notin {"receive", "send"} /\ UNCHANGED outcome
      BY <1>3 DEF Start, OpenIncome, UnlinkIncome, UnlinkOutcome, Down, queues
    <2>2. \A q : AnswersIn(q)' = AnswersIn(q)
      BY <2>1 DEF AnswersIn
    <2> QED BY <1>1, <1>2, <2>1, <2>2 DEF client
  <1>4. CASE Kill
    BY <1>4 DEF Kill, Down, Upset
  <1>5. CASE OpenOutcome
    <2>1. income[din] = <<>> /\ dpc' = "receive" /\ UNCHANGED <<din, income>>
      BY <1>5 DEF OpenOutcome, PairInv
    <2>2. AskedOf(din)' = {}
      BY <2>1 DEF AskedOf
    <2> QED BY <1>1, <1>2, <1>5, <2>1, <2>2, OpenSets DEF client
  <1>6. CASE Receive
    <2>1. dpc = "receive" /\ UNCHANGED <<din, outcome>>
      BY <1>6 DEF Receive, Commanded
    <2>2. \A q : AnswersIn(q)' = AnswersIn(q)
      BY <2>1 DEF AnswersIn
    <2> QED BY <1>1, <1>2, <1>6, <2>1, <2>2, ReceiveSets DEF client
  <1>7. CASE Answer
    <2>1. dpc = "send" /\ dpc' = "receive" /\ UNCHANGED <<din, dout, income>>
      BY <1>7 DEF Answer
    <2>2. AskedOf(din)' = AskedOf(din)
      BY <2>1 DEF AskedOf
    <2>3. PICK c \in Clients : cpc[c] = "wait" /\ cin[c] = din /\ call[c].id = serving.id
      BY <2>1
    <2>4. cout[c] = dout /\ dout # None
      BY <2>1, <2>3 DEF PairInv
    <2>5. Len(outcome') = Len(outcome)
      BY <1>7 DEF Answer, TypeInv, TypeOK
    <2>6. \A q \in 1..Len(outcome') : \A n \in AnswersIn(q)' :
            \E d \in Clients : cpc[d] = "wait" /\ cout[d] = q /\ call[d].id = n
      BY <1>7, <2>3, <2>4, <2>5, AnswerSets
    <2> QED BY <1>1, <1>2, <2>1, <2>2, <2>6 DEF client
  <1> QED BY <1>3, <1>4, <1>5, <1>6, <1>7 DEF DaemonStep

\* In calm times a daemon that serves has a queue of commands.
LEMMA ServesOne ==
    ASSUME TypeInv, PairInv, upsets \subseteq {"stop"}, dpc \in {"receive", "send"}
    PROVE  din \in 1..Len(income)
  <1>1. din # None
    BY DEF PairInv
  <1>2. din \in 0..Len(income)
    BY DEF TypeInv, TypeOK
  <1>3. Len(income) \in Nat
    BY Lengths DEF TypeInv
  <1> QED BY <1>1, <1>2, <1>3 DEF None

LEMMA CallerMatch ==
    ASSUME TypeInv, OnceInv, PairInv, MatchInv, NEW c \in Clients,
           \/ ClientStep(c) \/ Interrupt(c)
           \/ \E kind \in Kinds : Call(c, kind),
           upsets' \subseteq {"stop"}, upsets \subseteq {"stop"}
    PROVE  MatchInv'
  <1> USE DEF MatchInv
  <1>1. UNCHANGED <<dpc, din, dout, serving>>
    BY DEF ClientStep, Interrupt, Call, OpenSend, OpenRecv, Send, Take, GiveUp, End,
           daemon
  <1>2. dpc \in {"receive", "send"} => din \in 1..Len(income)
    BY ServesOne
  \* Whatever the step, nobody else is at work.
  <1>3. \A d \in Clients \ {c} : cpc[d] = "idle" /\ cpc'[d] = "idle"
    <2>1. CASE \E kind \in Kinds : Call(c, kind)
      <3>1. (IF \E d \in Clients : cpc[d] # "idle" THEN {"crowd"} ELSE {})
              \subseteq {"stop"}
        BY <2>1 DEF Call
      <3>2. \A d \in Clients : cpc[d] = "idle"
        BY <3>1
      <3>3. \A d \in Clients \ {c} : cpc'[d] = cpc[d]
        BY <2>1 DEF Call, TypeInv, TypeOK
      <3> QED BY <3>2, <3>3
    <2>2. CASE ClientStep(c)
      <3>1. cpc[c] # "idle" /\ \A d \in Clients \ {c} : cpc'[d] = cpc[d]
        <4>1. /\ cpc[c] # "idle"
              /\ \E to : cpc' = [cpc EXCEPT ![c] = to]
          BY <2>2 DEF ClientStep, OpenSend, OpenRecv, Send, Take, GiveUp, End
        <4> QED BY <4>1 DEF TypeInv, TypeOK
      <3> QED BY <3>1
    <2>3. CASE Interrupt(c)
      BY <2>3 DEF Interrupt, End, Upset
    <2> QED BY <2>1, <2>2, <2>3
  \* One that is not waiting leaves nothing asked, served or answered.
  <1>4. ASSUME cpc[c] # "wait"
        PROVE  /\ dpc \in {"receive", "send"} => AskedOf(din) = {}
               /\ dpc # "send"
               /\ \A q \in 1..Len(outcome) : AnswersIn(q) = {}
    BY <1>3, <1>4
  <1>5. CASE \/ OpenSend(c) \/ OpenRecv(c)
             \/ \E kind \in Kinds : Call(c, kind)
    <2>1. cpc[c] # "wait" /\ UNCHANGED queues
      BY <1>5 DEF OpenSend, OpenRecv, Call
    <2>2. /\ AskedOf(din)' = AskedOf(din)
          /\ \A q : AnswersIn(q)' = AnswersIn(q)
      BY <1>1, <2>1 DEF AskedOf, AnswersIn, queues
    <2>3. AnswersMatch'
      <3>1. CASE OpenSend(c) \/ OpenRecv(c)
        BY <3>1 DEF OpenSend, OpenRecv, AnswersMatch
      <3>2. ASSUME NEW kind \in Kinds, Call(c, kind) PROVE AnswersMatch'
        <4>1. /\ got'[c] = None
              /\ \A d \in Clients \ {c} : got'[d] = got[d] /\ call'[d] = call[d]
          BY <3>2 DEF Call, TypeInv, TypeOK
        <4> QED BY <4>1 DEF AnswersMatch
      <3> QED BY <1>5, <3>1, <3>2
    <2> QED BY <1>1, <1>3, <1>4, <2>1, <2>2, <2>3 DEF queues
  <1>6. CASE Send(c)
    <2>1. /\ cpc[c] = "send" /\ UNCHANGED <<outcome, call, got>>
          /\ call[c].kind = "ask" => cpc'[c] = "wait" /\ UNCHANGED <<cin, cout>>
      BY <1>6, SendEnds DEF Send
    <2>2. AnswersMatch' /\ \A q : AnswersIn(q)' = AnswersIn(q)
      BY <2>1 DEF AnswersMatch, AnswersIn
    <2>3. dpc \in {"receive", "send"} =>
            AskedOf(din)' \subseteq (IF cin[c] = din /\ call[c].kind = "ask"
                                     THEN {call[c].id} ELSE {})
      BY <1>1, <1>2, <1>4, <1>6, <2>1, SendSets
    <2> QED BY <1>1, <1>3, <1>4, <2>1, <2>2, <2>3
  <1>7. CASE Take(c)
    <2>1. /\ cpc[c] = "wait" /\ cpc'[c] = "idle" /\ UNCHANGED <<income, call>>
          /\ \A d \in Clients \ {c} : got'[d] = got[d]
          /\ Len(outcome') = Len(outcome)
      BY <1>7 DEF Take, End, TypeInv, TypeOK
    <2>2. cout[c] \in 1..Len(outcome) /\ got'[c] \in AnswersIn(cout[c])
      BY <1>7, TakeSets
    <2>3. got'[c] = call[c].id
      BY <1>3, <2>2
    <2>4. got'[c] \in 1..MaxCalls /\ Answered(got'[c])
      BY <2>2, SetsHold DEF AnswersIn
    <2>5. ~Asked(got'[c]) /\ ~Served(got'[c])
      BY <2>4 DEF OnceInv
    <2>6. dpc \in {"receive", "send"} => AskedOf(din) = {}
      BY <1>2, <1>3, <2>3, <2>5, SetsHold
    <2>7. dpc # "send"
      BY <1>3, <2>3, <2>5 DEF Served
    <2>8. \A q \in 1..Len(outcome) : AnswersIn(q)' = {}
      <3> SUFFICES ASSUME NEW q \in 1..Len(outcome), NEW n \in 1..MaxCalls,
                          n \in AnswersIn(q)'
                   PROVE  FALSE
        BY DEF AnswersIn
      <3>1. Answered(n)'
        BY <2>1 DEF AnswersIn, Answered, Holds, Self
      <3>2. n # got'[c]
        BY <1>7, <3>1, TakeOnce DEF OnceInv
      <3>3. n \in AnswersIn(q)
        BY <1>7, TakeSets
      <3> QED BY <1>3, <2>3, <3>2, <3>3
    <2>9. AskedOf(din)' = AskedOf(din)
      BY <1>1, <2>1 DEF AskedOf
    <2>10. AnswersMatch'
      BY <2>1, <2>3 DEF AnswersMatch
    <2> QED BY <1>1, <1>3, <2>1, <2>6, <2>7, <2>8, <2>9, <2>10
  <1>8. CASE GiveUp(c)
    <2>1. cout[c] = None /\ UNCHANGED <<income, outcome, call, got>> /\ cpc'[c] = "idle"
      BY <1>8 DEF GiveUp, End, queues, TypeInv, TypeOK
    <2>2. dpc \in {"receive", "send"} => AskedOf(din) = {}
      BY <1>3, <2>1 DEF PairInv, TypeInv, OpenInv
    <2>3. dpc # "send"
      BY <1>3, <2>1 DEF PairInv, TypeInv, OpenInv
    <2>4. \A q \in 1..Len(outcome) : AnswersIn(q) = {}
      BY <1>3, <2>1 DEF None
    <2>5. AskedOf(din)' = AskedOf(din) /\ \A q : AnswersIn(q)' = AnswersIn(q)
      BY <1>1, <2>1 DEF AskedOf, AnswersIn
    <2>6. AnswersMatch'
      BY <2>1 DEF AnswersMatch
    <2> QED BY <1>1, <1>3, <2>1, <2>2, <2>3, <2>4, <2>5, <2>6
  <1>9. CASE Interrupt(c)
    BY <1>9 DEF Interrupt, End, Upset
  <1> QED BY <1>5, <1>6, <1>7, <1>8, <1>9 DEF ClientStep

LEMMA MatchStep == TypeInv /\ OnceInv /\ PairInv /\ MatchInv /\ [Next]_vars => MatchInv'
  <1> SUFFICES ASSUME TypeInv, OnceInv, PairInv, MatchInv, [Next]_vars,
                      upsets' \subseteq {"stop"}
               PROVE  MatchInv'
    BY DEF MatchInv
  <1>1. upsets \subseteq {"stop"}
    BY UpsetsGrow
  <1>2. CASE UNCHANGED vars
    <2>1. /\ UNCHANGED <<dpc, din, dout, serving, outcome, client, upsets>>
          /\ AskedOf(din)' = AskedOf(din) /\ \A q : AnswersIn(q)' = AnswersIn(q)
      BY <1>2 DEF AskedOf, AnswersIn, vars, queues, daemon
    <2>2. AnswersMatch'
      BY <1>1, <2>1 DEF AnswersMatch, client, MatchInv
    <2> QED BY <1>1, <2>1, <2>2 DEF MatchInv, client
  <1> QED BY <1>1, <1>2, DaemonMatch, CallerMatch DEF Next

-----------------------------------------------------------------------------
(* A step moves one call at most, from one place to the next.              *)

\* One that has not finished its run has printed nothing.
FreshInv == \A c \in Clients : cpc[c] # "idle" => got[c] = None

LEMMA InitFresh == Init => FreshInv
  BY DEF Init, FreshInv

LEMMA FreshStep == TypeInv /\ FreshInv /\ [Next]_vars => FreshInv'
  <1> SUFFICES ASSUME TypeInv, FreshInv, [Next]_vars PROVE FreshInv'
    OBVIOUS
  <1>1. CASE DaemonStep \/ Start \/ Kill
    BY <1>1 DEF DaemonStep, Start, Kill, OpenIncome, OpenOutcome, Receive, Commanded,
                Answer, UnlinkIncome, UnlinkOutcome, Down, client, FreshInv
  <1>2. ASSUME NEW c \in Clients, ClientStep(c) \/ Interrupt(c)
        PROVE  FreshInv'
    BY <1>2 DEF ClientStep, OpenSend, OpenRecv, Send, Take, GiveUp, Interrupt, End,
                TypeInv, TypeOK, FreshInv
  <1>3. ASSUME NEW c \in Clients, NEW kind \in Kinds, Call(c, kind)
        PROVE  FreshInv'
    BY <1>3 DEF Call, TypeInv, TypeOK, FreshInv
  <1>4. CASE UNCHANGED vars
    BY <1>4 DEF vars, client, FreshInv
  <1> QED BY <1>1, <1>2, <1>3, <1>4 DEF Next

\* What the places of a call are, and that it is in one of them at most.
PlaceInv ==
    \A n \in 1..MaxCalls :
        /\ In(n, "unborn") <=> n > calls
        /\ In(n, "planned") <=> \E c \in Clients : Planned(c, n)
        /\ In(n, "queued") <=> Asked(n)
        /\ In(n, "served") <=> Served(n)
        /\ In(n, "answered") <=> Answered(n)
        /\ \A place \in CallPlaces : In(n, place) => Whereabouts[n] = {place}

LEMMA PlaceIs == TypeInv /\ OnceInv => PlaceInv
  <1> SUFFICES ASSUME TypeInv, OnceInv, NEW n \in 1..MaxCalls
               PROVE  /\ In(n, "unborn") <=> n > calls
                      /\ In(n, "planned") <=> \E c \in Clients : Planned(c, n)
                      /\ In(n, "queued") <=> Asked(n)
                      /\ In(n, "served") <=> Served(n)
                      /\ In(n, "answered") <=> Answered(n)
                      /\ \A place \in CallPlaces : In(n, place) => Whereabouts[n] = {place}
    BY DEF PlaceInv
  <1>1. In(n, "unborn") <=> n > calls
    BY DEF In
  <1>2. In(n, "planned") <=> \E c \in Clients : Planned(c, n)
    BY DEF In, Planned
  <1>3. In(n, "queued") <=> Asked(n)
    <2>1. \A q \in 1..Len(income) : \A i \in 1..Len(income[q]) :
            IdOf[income[q][i]] = income[q][i].id
      BY IdsInQueues
    <2> QED BY <2>1 DEF In, Asked, Holds
  <1>4. In(n, "served") <=> Served(n)
    BY DEF In, Served
  <1>5. In(n, "answered") <=> Answered(n)
    <2>1. \A q \in 1..Len(outcome) : \A i \in 1..Len(outcome[q]) :
            Self[outcome[q][i]] = outcome[q][i]
      BY IdsInQueues
    <2> QED BY <2>1 DEF In, Answered, Holds
  <1>6. ASSUME NEW place \in CallPlaces, In(n, place) PROVE Whereabouts[n] = {place}
    <2>1. \A other \in CallPlaces : In(n, other) => other = place
      BY <1>1, <1>2, <1>3, <1>4, <1>5, <1>6 DEF OnceInv, CallPlaces
    <2>2. Whereabouts[n] = {other \in CallPlaces : In(n, other)}
      BY DEF Whereabouts
    <2> QED BY <1>6, <2>1, <2>2
  <1> QED BY <1>1, <1>2, <1>3, <1>4, <1>5, <1>6

\* A call that leaves one place for another, or for none, while the others stay.
LEMMA Moved ==
    ASSUME PlaceInv, PlaceInv', NEW n \in 1..MaxCalls, NEW from \in CallPlaces,
           In(n, from),
           \A m \in (1..MaxCalls) \ {n} : \A place \in CallPlaces :
               In(m, place)' <=> In(m, place)
    PROVE  /\ \A to \in CallPlaces : In(n, to)' => Service!Move(n, {from}, {to})
           /\ (\A to \in CallPlaces : ~In(n, to)') => Service!Move(n, {from}, {})
  <1>1. Whereabouts[n] = {from}
    BY DEF PlaceInv
  <1>2. /\ DOMAIN Whereabouts = 1..MaxCalls /\ DOMAIN Whereabouts' = 1..MaxCalls
        /\ Whereabouts = [m \in 1..MaxCalls |-> Whereabouts[m]]
        /\ Whereabouts' = [m \in 1..MaxCalls |-> Whereabouts'[m]]
        /\ \A m \in 1..MaxCalls :
             /\ Whereabouts[m] = {place \in CallPlaces : In(m, place)}
             /\ Whereabouts'[m] = {place \in CallPlaces : In(m, place)'}
    BY DEF Whereabouts
  <1>3. \A m \in (1..MaxCalls) \ {n} : Whereabouts'[m] = Whereabouts[m]
    BY <1>2
  <1>4. ASSUME NEW to \in CallPlaces, In(n, to)'
        PROVE  Service!Move(n, {from}, {to})
    <2>1. Whereabouts'[n] = {to}
      BY <1>4 DEF PlaceInv
    <2>2. Whereabouts' = [Whereabouts EXCEPT ![n] = {to}]
      BY <1>2, <1>3, <2>1
    <2> QED BY <1>1, <2>2 DEF Service!Move
  <1>5. ASSUME \A to \in CallPlaces : ~In(n, to)'
        PROVE  Service!Move(n, {from}, {})
    <2>1. Whereabouts'[n] = {}
      BY <1>2, <1>5
    <2>2. Whereabouts' = [Whereabouts EXCEPT ![n] = {}]
      BY <1>2, <1>3, <2>1
    <2> QED BY <1>1, <2>2 DEF Service!Move
  <1> QED BY <1>4, <1>5

LEMMA Stays ==
    ASSUME \A m \in 1..MaxCalls : \A place \in CallPlaces : In(m, place)' <=> In(m, place)
    PROVE  Whereabouts' = Whereabouts
  BY DEF Whereabouts

\* In a step that leaves these alone, a call is where it was.
LEMMA PlacesKept ==
    ASSUME PlaceInv, PlaceInv', NEW m \in 1..MaxCalls,
           calls' = calls, \A c \in Clients : Planned(c, m)' <=> Planned(c, m),
           Asked(m)' <=> Asked(m), Served(m)' <=> Served(m), Answered(m)' <=> Answered(m)
    PROVE  \A place \in CallPlaces : In(m, place)' <=> In(m, place)
  BY DEF PlaceInv, CallPlaces

LEMMA DaemonServes ==
    ASSUME TypeInv, OnceInv, PairInv, PlaceInv, PlaceInv', DaemonStep \/ Start \/ Kill
    PROVE  [Service!Next]_(Service!vars)
  <1>1. UNCHANGED <<cpc, call, calls, got>>
    BY DEF DaemonStep, Start, Kill, OpenIncome, OpenOutcome, Receive, Commanded,
           Answer, UnlinkIncome, UnlinkOutcome, Down, client
  <1>2. \A c \in Clients : \A n : Planned(c, n)' <=> Planned(c, n)
    BY <1>1, SamePlans
  <1>3. Once(income, IdOf) /\ Once(outcome, Self)
    BY DEF OnceInv
  <1>4. Calm' => Calm
    BY UpsetsGrow DEF Calm, Next
  <1>5. [c \in Clients |-> call[c].id]' = [c \in Clients |-> call[c].id]
    BY <1>1
  <1>6. ASSUME NEW n \in 1..MaxCalls, Service!Go(n) \/ Service!Lose(n)
        PROVE  [Service!Next]_(Service!vars)
    BY <1>4, <1>6 DEF Service!Next
  <1>7. ASSUME \A n : /\ Asked(n)' <=> Asked(n)
                      /\ Served(n)' <=> Served(n)
                      /\ Answered(n)' <=> Answered(n)
        PROVE  [Service!Next]_(Service!vars)
    <2>1. Whereabouts' = Whereabouts
      BY <1>1, <1>2, <1>7, PlacesKept, Stays
    <2>2. CASE Calm' = Calm
      BY <1>1, <1>5, <2>1, <2>2 DEF Service!vars
    <2>3. CASE Calm' # Calm
      <3>1. ~Calm'
        BY <1>4, <2>3 DEF Calm
      <3> QED BY <1>1, <1>5, <2>1, <3>1 DEF Service!Next, Service!Disturb
    <2> QED BY <2>2, <2>3
  <1>8. CASE Receive
    <2>1. /\ \A n : Asked(n)' => n # serving'.id
          /\ serving' \in CallType
          /\ \A n : Asked(n) <=> Asked(n)' \/ n = serving'.id
      BY <1>3, <1>8, ReceiveOnce
    <2>2. UNCHANGED outcome /\ \A n : ~Served(n)
      BY <1>8 DEF Receive, Commanded, Served
    <2>3. \A n : Answered(n)' <=> Answered(n)
      BY <2>2, SameQueues
    <2>4. PICK n \in 1..MaxCalls : n = serving'.id
      BY <2>1 DEF CallType
    <2>5. In(n, "queued") /\ n <= calls
      BY <2>1, <2>4 DEF PlaceInv, OnceInv, TypeInv, TypeOK
    <2>6. \A m \in (1..MaxCalls) \ {n} : ~Served(m)'
      BY <2>4 DEF Served
    <2>7. \A m \in (1..MaxCalls) \ {n} : \A place \in CallPlaces :
            In(m, place)' <=> In(m, place)
      BY <1>1, <1>2, <2>1, <2>2, <2>3, <2>4, <2>6, PlacesKept
    <2>8. CASE dpc' = "send"
      <3>1. In(n, "served")'
        BY <2>4, <2>8 DEF PlaceInv, Served
      <3>2. Service!Move(n, {"queued"}, {"served"})
        BY <2>4, <2>5, <2>7, <3>1, Moved DEF CallPlaces
      <3> QED BY <1>1, <1>5, <1>6, <2>4, <3>2 DEF Service!Go
    <2>9. CASE dpc' # "send"
      <3>1. ~Served(n)'
        BY <2>9 DEF Served
      <3>2. ~Asked(n)' /\ ~Answered(n)' /\ \A c \in Clients : ~Planned(c, n)'
        BY <1>2, <2>1, <2>3, <2>4 DEF OnceInv
      <3>3. \A to \in CallPlaces : ~In(n, to)'
        BY <1>1, <2>4, <2>5, <3>1, <3>2 DEF PlaceInv, CallPlaces, TypeInv, TypeOK
      <3>4. Service!Move(n, {"queued"}, {})
        BY <2>4, <2>5, <2>7, <3>3, Moved DEF CallPlaces
      <3> QED BY <1>1, <1>5, <1>6, <2>4, <3>4 DEF Service!Go
    <2> QED BY <2>8, <2>9
  <1>9. CASE Answer
    <2>1. serving \in CallType /\ Served(serving.id) /\ dpc' = "receive"
      BY <1>9 DEF Answer, Served, TypeInv, OpenInv
    <2>2. PICK n \in 1..MaxCalls : n = serving.id
      BY <2>1 DEF CallType
    <2>3. \A m : Asked(m)' <=> Asked(m)
      BY <1>9, SameQueues DEF Answer
    <2>4. \A m \in (1..MaxCalls) \ {n} : ~Served(m) /\ ~Served(m)'
      BY <2>1, <2>2 DEF Served
    <2>5. In(n, "served") /\ ~Served(n)'
      BY <2>1, <2>2 DEF PlaceInv, Served
    <2>6. CASE dout # None
      <3>1. \A m : Answered(m)' <=> Answered(m) \/ m = n
        BY <1>3, <1>9, <2>1, <2>2, <2>6, AnswerOnce DEF OnceInv
      <3>2. \A m \in (1..MaxCalls) \ {n} : \A place \in CallPlaces :
              In(m, place)' <=> In(m, place)
        BY <1>1, <1>2, <2>2, <2>3, <2>4, <3>1, PlacesKept
      <3>3. In(n, "answered")'
        BY <2>2, <3>1 DEF PlaceInv
      <3>4. Service!Move(n, {"served"}, {"answered"})
        BY <2>2, <2>5, <3>2, <3>3, Moved DEF CallPlaces
      <3> QED BY <1>1, <1>5, <1>6, <2>2, <3>4 DEF Service!Go
    \* Without a queue of answers the answer is lost, and times are not calm.
    <2>7. CASE dout = None
      <3>1. \A m : Answered(m)' <=> Answered(m)
        BY <1>9, <2>7, SameQueues DEF Answer
      <3>2. \A m \in (1..MaxCalls) \ {n} : \A place \in CallPlaces :
              In(m, place)' <=> In(m, place)
        BY <1>1, <1>2, <2>2, <2>3, <2>4, <3>1, PlacesKept
      <3>3. /\ ~Asked(n) /\ ~Answered(n) /\ ~(n > calls)
            /\ \A c \in Clients : ~Planned(c, n)
        BY <2>1, <2>2 DEF OnceInv
      <3>4. \A to \in CallPlaces : ~In(n, to)'
        BY <1>1, <1>2, <2>2, <2>3, <2>5, <3>1, <3>3 DEF PlaceInv, CallPlaces
      <3>5. Service!Move(n, {"served"}, {})
        BY <2>2, <2>5, <3>2, <3>4, Moved DEF CallPlaces
      <3>6. ~Calm'
        <4>1. ~Calm /\ UNCHANGED upsets
          BY <1>9, <2>7 DEF Answer, PairInv, Calm
        <4> QED BY <4>1 DEF Calm
      <3> QED BY <1>1, <1>5, <1>6, <2>2, <3>5, <3>6 DEF Service!Lose
    <2> QED BY <2>6, <2>7
  <1>10. CASE Kill /\ dpc = "send"
    <2>1. serving \in CallType /\ Served(serving.id) /\ dpc' = "down" /\ ~Calm'
      BY <1>10 DEF Kill, Down, Upset, Calm, Served, TypeInv, OpenInv
    <2>2. PICK n \in 1..MaxCalls : n = serving.id
      BY <2>1 DEF CallType
    <2>3. \A m : (Asked(m)' <=> Asked(m)) /\ (Answered(m)' <=> Answered(m))
      BY <1>10, SameQueues DEF Kill, Down, queues
    <2>4. \A m : ~Served(m)'
      BY <2>1 DEF Served
    <2>5. \A m \in (1..MaxCalls) \ {n} : ~Served(m)
      BY <2>1, <2>2 DEF Served
    <2>6. \A m \in (1..MaxCalls) \ {n} : \A place \in CallPlaces :
            In(m, place)' <=> In(m, place)
      BY <1>1, <1>2, <2>2, <2>3, <2>4, <2>5, PlacesKept
    <2>7. /\ ~Asked(n) /\ ~Answered(n) /\ ~(n > calls)
          /\ \A c \in Clients : ~Planned(c, n)
      BY <2>1, <2>2 DEF OnceInv
    <2>8. \A to \in CallPlaces : ~In(n, to)'
      BY <1>1, <1>2, <2>2, <2>3, <2>4, <2>7 DEF PlaceInv, CallPlaces
    <2>9. In(n, "served")
      BY <2>1, <2>2 DEF PlaceInv
    <2>10. Service!Move(n, {"served"}, {})
      BY <2>2, <2>6, <2>8, <2>9, Moved DEF CallPlaces
    <2> QED BY <1>1, <1>5, <1>6, <2>1, <2>2, <2>10 DEF Service!Lose
  <1>11. CASE \/ Start \/ UnlinkIncome \/ UnlinkOutcome
              \/ Kill /\ dpc # "send"
    <2>1. UNCHANGED <<income, outcome>> /\ \A n : ~Served(n) /\ ~Served(n)'
      BY <1>11 DEF Start, Kill, UnlinkIncome, UnlinkOutcome, Down, queues, Served
    <2> QED BY <1>7, <2>1, SameQueues
  <1>12. CASE OpenIncome \/ OpenOutcome
    <2>1. \A n : ~Served(n) /\ ~Served(n)'
      BY <1>12 DEF OpenIncome, OpenOutcome, Served
    <2>2. /\ income' = income \/ income' = Append(income, <<>>)
          /\ outcome' = outcome \/ outcome' = Append(outcome, <<>>)
      BY <1>12 DEF OpenIncome, OpenOutcome
    <2>3. \A n : Asked(n)' <=> Asked(n)
      BY <2>2, SameQueues, AddedOnce, Primed DEF TypeInv, TypeOK
    <2>4. \A n : Answered(n)' <=> Answered(n)
      BY <2>2, SameQueues, AddedOnce, Primed DEF TypeInv, TypeOK
    <2> QED BY <1>7, <2>1, <2>3, <2>4
  <1> QED BY <1>8, <1>9, <1>10, <1>11, <1>12 DEF DaemonStep

LEMMA CallerServes ==
    ASSUME TypeInv, OnceInv, FreshInv, PlaceInv, PlaceInv', AnswersMatch',
           NEW c \in Clients,
           \/ ClientStep(c) \/ Interrupt(c)
           \/ \E kind \in Kinds : Call(c, kind)
    PROVE  [Service!Next]_(Service!vars)
  <1> DEFINE mine == [d \in Clients |-> call[d].id]
  <1>1. \A n : Served(n)' <=> Served(n)
    BY DEF ClientStep, Interrupt, Call, OpenSend, OpenRecv, Send, Take, GiveUp, End,
           daemon, Served
  <1>2. Once(income, IdOf) /\ Once(outcome, Self)
    BY DEF OnceInv
  <1>3. Calm' => Calm
    BY UpsetsGrow DEF Calm, Next
  <1>4. UNCHANGED call => mine' = mine
    OBVIOUS
  <1>5. ASSUME UNCHANGED <<income, outcome, call, calls, got>>,
               \A d \in Clients : \A n : Planned(d, n)' <=> Planned(d, n)
        PROVE  [Service!Next]_(Service!vars)
    <2>1. Whereabouts' = Whereabouts
      BY <1>1, <1>5, SameQueues, PlacesKept, Stays
    <2>2. CASE Calm' = Calm
      BY <1>4, <1>5, <2>1, <2>2 DEF Service!vars
    <2>3. CASE Calm' # Calm
      <3>1. ~Calm'
        BY <1>3, <2>3 DEF Calm
      <3> QED BY <1>4, <1>5, <2>1, <3>1 DEF Service!Next, Service!Disturb
    <2> QED BY <2>2, <2>3
  <1>6. ASSUME Planned(c, call[c].id), UNCHANGED <<call, calls>>,
               \A d \in Clients : \A n : Planned(d, n)' <=> Planned(d, n) /\ d # c,
               \A n : Answered(n)' <=> Answered(n),
               cpc[c] # "idle"
        PROVE  \E n \in 1..MaxCalls :
                 /\ n = call[c].id /\ In(n, "planned")
                 /\ \A m \in 1..MaxCalls : m # n /\ (Asked(m)' <=> Asked(m)) =>
                      \A place \in CallPlaces : In(m, place)' <=> In(m, place)
                 /\ \A d \in Clients : ~Planned(d, n)'
                 /\ ~Asked(n) /\ ~Served(n)' /\ ~Answered(n)' /\ ~(n > calls')
    <2>1. call[c].id \in 1..MaxCalls
      BY <1>6 DEF TypeInv, OpenInv, CallType
    <2>2. PICK n \in 1..MaxCalls : n = call[c].id
      BY <2>1
    <2>3. In(n, "planned")
      BY <1>6, <2>2 DEF PlaceInv
    <2>4. ASSUME NEW m \in 1..MaxCalls, m # n, Asked(m)' <=> Asked(m)
          PROVE  \A place \in CallPlaces : In(m, place)' <=> In(m, place)
      <3>1. ~Planned(c, m)
        BY <2>2, <2>4 DEF Planned
      <3>2. \A d \in Clients : Planned(d, m)' <=> Planned(d, m)
        BY <1>6, <3>1
      <3> QED BY <1>1, <1>6, <2>4, <3>2, PlacesKept
    <2>5. \A d \in Clients : ~Planned(d, n)'
      BY <1>6, <2>2 DEF OnceInv
    <2>6. ~Asked(n) /\ ~Served(n)' /\ ~Answered(n)' /\ ~(n > calls')
      BY <1>1, <1>6, <2>2 DEF OnceInv
    <2> QED BY <2>2, <2>3, <2>4, <2>5, <2>6
  <1>7. ASSUME NEW n \in 1..MaxCalls, Service!Go(n) \/ Service!Lose(n)
        PROVE  [Service!Next]_(Service!vars)
    BY <1>3, <1>7 DEF Service!Next
  <1>8. CASE OpenSend(c) \/ OpenRecv(c) \/ GiveUp(c)
    <2>1. UNCHANGED <<income, outcome, call, calls, got>>
      BY <1>8 DEF OpenSend, OpenRecv, GiveUp, End, queues
    <2>2. \A d \in Clients : \A n : Planned(d, n)' <=> Planned(d, n)
      BY <1>8, <2>1, Ended DEF OpenSend, OpenRecv, GiveUp, Planned, TypeInv, TypeOK
    <2> QED BY <1>5, <2>1, <2>2
  <1>9. CASE Interrupt(c)
    <2>1. UNCHANGED <<income, outcome, call, calls, got>> /\ cpc[c] # "idle" /\ ~Calm'
      BY <1>9 DEF Interrupt, End, queues, Upset, Calm
    <2>2. \A d \in Clients : \A n : Planned(d, n)' <=> Planned(d, n) /\ d # c
      BY <1>9, <2>1 DEF Interrupt, End, Planned, TypeInv, TypeOK
    <2>3. \A n : (Asked(n)' <=> Asked(n)) /\ (Answered(n)' <=> Answered(n))
      BY <2>1, SameQueues
    <2>4. CASE Planned(c, call[c].id)
      <3>1. PICK n \in 1..MaxCalls :
              /\ In(n, "planned")
              /\ \A m \in 1..MaxCalls : m # n /\ (Asked(m)' <=> Asked(m)) =>
                   \A place \in CallPlaces : In(m, place)' <=> In(m, place)
              /\ \A d \in Clients : ~Planned(d, n)'
              /\ ~Asked(n) /\ ~Served(n)' /\ ~Answered(n)' /\ ~(n > calls')
        BY <1>6, <2>1, <2>2, <2>3, <2>4
      <3>2. \A to \in CallPlaces : ~In(n, to)'
        BY <2>3, <3>1 DEF PlaceInv, CallPlaces
      <3>3. Service!Move(n, {"planned"}, {})
        BY <2>3, <3>1, <3>2, Moved DEF CallPlaces
      <3> QED BY <1>4, <1>7, <2>1, <3>3 DEF Service!Lose
    <2>5. CASE ~Planned(c, call[c].id)
      <3>1. \A n : ~Planned(c, n)
        BY <2>5 DEF Planned
      <3> QED BY <1>5, <2>1, <2>2, <3>1
    <2> QED BY <2>4, <2>5
  <1>10. CASE Send(c)
    <2>1. UNCHANGED <<outcome, call, calls, got>> /\ cpc[c] # "idle"
      BY <1>10 DEF Send, End
    <2>2. /\ \A d \in Clients : \A n : Planned(d, n)' <=> Planned(d, n) /\ d # c
          /\ Planned(c, call[c].id)
      BY <1>10, <2>1 DEF Send, End, Planned, TypeInv, TypeOK
    <2>3. \A n : Answered(n)' <=> Answered(n)
      BY <2>1, SameQueues
    <2>4. PICK n \in 1..MaxCalls :
            /\ n = call[c].id /\ In(n, "planned")
            /\ \A m \in 1..MaxCalls : m # n /\ (Asked(m)' <=> Asked(m)) =>
                 \A place \in CallPlaces : In(m, place)' <=> In(m, place)
            /\ \A d \in Clients : ~Planned(d, n)'
            /\ ~Asked(n) /\ ~Served(n)' /\ ~Answered(n)' /\ ~(n > calls')
      BY <1>6, <2>1, <2>2, <2>3
    <2>5. CASE cin[c] = None
      <3>1. \A m : Asked(m)' <=> Asked(m)
        BY <1>10, <2>5, SameQueues DEF Send, End
      <3>2. \A to \in CallPlaces : ~In(n, to)'
        BY <2>4, <3>1 DEF PlaceInv, CallPlaces
      <3>3. Service!Move(n, {"planned"}, {})
        BY <2>4, <3>1, <3>2, Moved DEF CallPlaces
      <3> QED BY <1>4, <1>7, <2>1, <3>3 DEF Service!Lose
    <2>6. CASE cin[c] # None
      <3>1. \A m : Asked(m)' <=> Asked(m) \/ m = call[c].id
        BY <1>2, <1>10, <2>4, <2>6, SendOnce
      <3>2. In(n, "queued")'
        BY <2>4, <3>1 DEF PlaceInv
      <3>3. Service!Move(n, {"planned"}, {"queued"})
        BY <2>4, <3>1, <3>2, Moved DEF CallPlaces
      <3> QED BY <1>4, <1>7, <2>1, <3>3 DEF Service!Go
    <2> QED BY <2>5, <2>6
  <1>11. CASE Take(c)
    <2>1. /\ UNCHANGED <<income, call, calls>> /\ got[c] = None
          /\ got' = [got EXCEPT ![c] = got'[c]] /\ cpc[c] = "wait" /\ cpc'[c] = "idle"
      BY <1>11 DEF Take, End, FreshInv, TypeInv, TypeOK
    <2>2. \A d \in Clients : \A n : Planned(d, n)' <=> Planned(d, n)
      BY <1>11, <2>1 DEF Take, End, Planned, TypeInv, TypeOK
    <2>3. /\ \A n : Answered(n)' => n # got'[c]
          /\ got'[c] \in 1..MaxCalls
          /\ \A n : Answered(n) <=> Answered(n)' \/ n = got'[c]
      BY <1>2, <1>11, TakeOnce
    <2>4. \A n : Asked(n)' <=> Asked(n)
      BY <2>1, SameQueues
    <2>5. PICK n \in 1..MaxCalls : n = got'[c]
      BY <2>3
    <2>6. \A m \in (1..MaxCalls) \ {n} : \A place \in CallPlaces :
            In(m, place)' <=> In(m, place)
      BY <1>1, <2>1, <2>2, <2>3, <2>4, <2>5, PlacesKept
    <2>7. In(n, "answered")
      BY <2>3, <2>5 DEF PlaceInv
    <2>8. /\ ~Asked(n)' /\ ~Served(n)' /\ ~Answered(n)' /\ ~(n > calls')
          /\ \A d \in Clients : ~Planned(d, n)'
      BY <1>1, <2>1, <2>2, <2>3, <2>4, <2>5 DEF OnceInv
    <2>9. \A to \in CallPlaces : ~In(n, to)'
      BY <2>8 DEF PlaceInv, CallPlaces
    <2>10. Service!Move(n, {"answered"}, {})
      BY <2>6, <2>7, <2>9, Moved DEF CallPlaces
    <2>11. Calm' => n = mine[c]
      <3>1. Calm' => got'[c] = call'[c].id
        BY <2>3 DEF AnswersMatch, Calm, None
      <3> QED BY <2>1, <2>5, <3>1
    <2>12. Service!Deliver(c, n)
      BY <1>4, <2>1, <2>5, <2>10, <2>11 DEF Service!Deliver, Service!None, None
    <2> QED BY <1>3, <2>12 DEF Service!Next
  <1>12. ASSUME NEW kind \in Kinds, Call(c, kind)
         PROVE  [Service!Next]_(Service!vars)
    <2>1. /\ UNCHANGED <<income, outcome>> /\ calls \in Nat /\ calls' = calls + 1
          /\ calls' \in 1..MaxCalls
      BY <1>12, BoundsAssumption DEF Call, queues, TypeInv, TypeOK
    <2>2. /\ \A n : Planned(c, n)' <=> n = calls'
          /\ \A d \in Clients \ {c} : \A n : Planned(d, n)' <=> Planned(d, n)
          /\ \A n : ~Planned(c, n)
      BY <1>12 DEF Call, Planned, TypeInv, TypeOK
    <2>3. \A n : (Asked(n)' <=> Asked(n)) /\ (Answered(n)' <=> Answered(n))
      BY <2>1, SameQueues
    <2>4. PICK n \in 1..MaxCalls : n = calls'
      BY <2>1
    <2>5. In(n, "unborn") /\ In(n, "planned")'
      BY <2>1, <2>2, <2>4 DEF PlaceInv
    <2>6. ASSUME NEW m \in (1..MaxCalls) \ {n}, NEW place \in CallPlaces
          PROVE  In(m, place)' <=> In(m, place)
      <3>1. \A d \in Clients : Planned(d, m)' <=> Planned(d, m)
        BY <2>2, <2>4
      <3>2. m > calls' <=> m > calls
        BY <2>1, <2>4
      <3> QED BY <1>1, <2>3, <3>1, <3>2 DEF PlaceInv, CallPlaces
    <2>7. Service!Move(n, {"unborn"}, {"planned"})
      BY <2>5, <2>6, Moved DEF CallPlaces
    <2>8. mine' = [mine EXCEPT ![c] = n] /\ got' = [got EXCEPT ![c] = None]
      <3>1. call' = [call EXCEPT ![c] = [id |-> n, kind |-> kind]]
        BY <1>12, <2>4 DEF Call
      <3>2. call'[c].id = n /\ \A d \in Clients \ {c} : call'[d] = call[d]
        BY <3>1 DEF TypeInv, TypeOK
      <3>3. \A d \in Clients : mine'[d] = IF d = c THEN n ELSE mine[d]
        BY <3>2
      <3>4. mine' = [mine EXCEPT ![c] = n]
        BY <3>3
      <3> QED BY <1>12, <3>4 DEF Call
    <2>9. Service!Ask(c, n)
      BY <2>7, <2>8 DEF Service!Ask, Service!None, None
    <2> QED BY <1>3, <2>9 DEF Service!Next
  <1> QED BY <1>8, <1>9, <1>10, <1>11, <1>12 DEF ClientStep

-----------------------------------------------------------------------------
MailInv == TypeInv /\ OnceInv /\ PairInv /\ NobodyInVain /\ MatchInv /\ FreshInv

LEMMA MailInvariant == Spec => []MailInv
  <1>1. Init => MailInv
    BY InitTyped, InitOnce, InitPair, InitOwed, InitMatch, InitFresh DEF MailInv
  <1>2. MailInv /\ [Next]_vars => MailInv'
    BY TypeStep, OnceStep, PairStep, OwedStep, MatchStep, FreshStep DEF MailInv
  <1> QED BY <1>1, <1>2, PTL DEF Spec

\* Every variable keeps to its values, every queue to mq_maxmsg, whoever starts,
\* stops, is killed or is refused a queue.
THEOREM TypeCorrect == Spec => []TypeOK
  <1>1. MailInv => TypeOK
    BY DEF MailInv, TypeInv
  <1> QED BY <1>1, MailInvariant, PTL

\* Every call is in one place at most, whatever is killed, refused a queue and
\* restarted.
THEOREM ServedOnceAlways == Spec => []ServedOnce
  <1>1. MailInv => ServedOnce
    BY OnceImplies DEF MailInv
  <1> QED BY <1>1, MailInvariant, PTL

\* While the daemon serves, nothing has failed (a kill, an mq_open) and nobody came
\* too early, it owes or has given as many answers as clients wait for one; with
\* no more clients than mq_maxmsg, the queue of answers never blocks it.
THEOREM AnswersOwedAlways == Spec => []AnswersOwed
  <1>1. MailInv => AnswersOwed
    BY OwedImplies DEF MailInv, AnswersOwed
  <1> QED BY <1>1, MailInvariant, PTL

\* Clients that run one at a time print the answers to their own commands, over
\* any number of stops and starts of the daemon.
THEOREM AnswersMatchAlways == Spec => []AnswersMatch
  <1>1. MailInv => AnswersMatch
    BY DEF MailInv, MatchInv, AnswersMatch
  <1> QED BY <1>1, MailInvariant, PTL

LEMMA ServiceInit == Init /\ MailInv => Service!Init
  <1> SUFFICES ASSUME Init, TypeInv, OnceInv PROVE Service!Init
    BY DEF MailInv
  <1>1. PlaceInv
    BY PlaceIs
  <1>2. \A n \in 1..MaxCalls : Whereabouts[n] = {"unborn"}
    BY <1>1 DEF PlaceInv, CallPlaces, Init
  <1>3. Whereabouts = [n \in 1..MaxCalls |-> {"unborn"}]
    BY <1>2 DEF Whereabouts
  <1> QED BY <1>3 DEF Init, Service!Init, Service!None, None, NoCall, Calm

LEMMA ServiceStep ==
    MailInv /\ MailInv' /\ PlaceInv /\ PlaceInv' /\ [Next]_vars
      => [Service!Next]_(Service!vars)
  <1> SUFFICES ASSUME MailInv, MailInv', PlaceInv, PlaceInv', [Next]_vars
               PROVE  [Service!Next]_(Service!vars)
    OBVIOUS
  <1>1. CASE UNCHANGED vars
    <2>1. /\ UNCHANGED <<income, outcome, call, got, upsets, cpc, calls>>
          /\ \A n : Served(n)' <=> Served(n)
      BY <1>1 DEF vars, queues, daemon, client, Served
    <2>2. Whereabouts' = Whereabouts
      BY <2>1, SameQueues, SamePlans, PlacesKept, Stays
    <2> QED BY <2>1, <2>2 DEF Service!vars, Calm
  <1>2. AnswersMatch'
    BY DEF MailInv, MatchInv, AnswersMatch
  <1> QED BY <1>1, <1>2, DaemonServes, CallerServes DEF Next, MailInv

\* Clients and the daemon implement CallService: a call goes through its places
\* in order and is in one at a time, whatever is killed, refused a queue and
\* restarted; its answer is printed once.  As long as clients come one at a time,
\* nothing fails and nobody is too early, the client that asked prints it, and no
\* call that is being served is lost.
THEOREM ServiceImplemented == Spec => CallsServed
  <1>1. MailInv => PlaceInv
    BY PlaceIs DEF MailInv
  <1> QED BY <1>1, ServiceInit, ServiceStep, MailInvariant, PTL
          DEF Spec, CallsServed, Service!Spec
=============================================================================
