----------------------------- MODULE SbapiProofs -----------------------------
(* What holds of Sbapi for any number of time slots, any size of the       *)
(* queues and any number of events: the link changes that main is told,    *)
(* the status bit that goes with them, and the probing of the network.     *)
EXTENDS Sbapi, SequenceTheorems, FiniteSetTheorems, TLAPS

USE SbapiAssumption

-----------------------------------------------------------------------------
(* Counting the entries of a queue                                         *)

LEMMA CountFacts ==
    ASSUME NEW q, NEW K, NEW i \in Nat
    PROVE  /\ IsFiniteSet({j \in 1..i : q[j] \in K})
           /\ CountIn(q, K, i) \in Nat
  <1>1. IsFiniteSet(1..i)
    BY FS_Interval
  <1>2. {j \in 1..i : q[j] \in K} \in SUBSET (1..i)
    OBVIOUS
  <1>3. IsFiniteSet({j \in 1..i : q[j] \in K})
    BY <1>1, <1>2, FS_Subset
  <1> QED
    BY <1>3, FS_CardinalityType DEF CountIn

(* The next entry counts if it is of one of the kinds.                     *)
LEMMA CountNext ==
    ASSUME NEW q, NEW K, NEW i \in Nat
    PROVE  CountIn(q, K, i + 1) = CountIn(q, K, i) + (IF q[i + 1] \in K THEN 1 ELSE 0)
  <1> DEFINE S == {j \in 1..i : q[j] \in K}
             T == {j \in 1..(i + 1) : q[j] \in K}
  <1>1. IsFiniteSet(S) /\ Cardinality(S) = CountIn(q, K, i) /\ CountIn(q, K, i) \in Nat
    BY CountFacts DEF CountIn
  <1>a. Cardinality(T) = CountIn(q, K, i + 1)
    BY DEF CountIn
  <1>2. CASE q[i + 1] \in K
    <2>1. T = S \cup {i + 1} /\ i + 1 \notin S
      BY <1>2
    <2>2. Cardinality(T) = Cardinality(S) + 1
      BY <2>1, <1>1, FS_AddElement
    <2> QED
      BY <2>2, <1>a, <1>1, <1>2
  <1>3. CASE q[i + 1] \notin K
    <2>1. T = S
      <3>1. \A j \in 1..(i + 1) : j = i + 1 \/ j \in 1..i
        OBVIOUS
      <3> QED
        BY <3>1, <1>3
    <2>2. Cardinality(T) = Cardinality(S)
      BY <2>1
    <2>3. (IF q[i + 1] \in K THEN 1 ELSE 0) = 0
      BY <1>3
    <2>4. CountIn(q, K, i + 1) = CountIn(q, K, i)
      BY <2>2, <1>a, <1>1
    <2> QED
      BY <2>3, <2>4, <1>1
  <1> QED
    BY <1>2, <1>3

LEMMA CountNone ==
    ASSUME NEW q, NEW K PROVE CountIn(q, K, 0) = 0
  <1>1. {j \in 1..0 : q[j] \in K} = {}
    OBVIOUS
  <1> QED
    BY <1>1, FS_EmptySet DEF CountIn

(* A shorter part of the queue has no more of them.                        *)
LEMMA CountGrows ==
    ASSUME NEW q, NEW K, NEW i \in Nat, NEW n \in Nat, i <= n
    PROVE  CountIn(q, K, i) <= CountIn(q, K, n)
  <1>1. {j \in 1..i : q[j] \in K} \in SUBSET {j \in 1..n : q[j] \in K}
    OBVIOUS
  <1>2. IsFiniteSet({j \in 1..n : q[j] \in K})
    BY CountFacts
  <1> QED
    BY <1>1, <1>2, FS_Subset DEF CountIn

(* Only what is counted matters.                                           *)
LEMMA CountSame ==
    ASSUME NEW q, NEW r, NEW K, NEW i \in Nat, \A j \in 1..i : q[j] = r[j]
    PROVE  CountIn(q, K, i) = CountIn(r, K, i)
  <1>1. {j \in 1..i : q[j] \in K} = {j \in 1..i : r[j] \in K}
    OBVIOUS
  <1> QED
    BY <1>1 DEF CountIn

LEMMA CountAppend ==
    ASSUME NEW S, NEW q \in Seq(S), NEW m \in S, NEW K
    PROVE  /\ \A i \in 0..Len(q) : CountIn(Append(q, m), K, i) = CountIn(q, K, i)
           /\ CountIn(Append(q, m), K, Len(q) + 1) = CountIn(q, K, Len(q)) + (IF m \in K THEN 1 ELSE 0)
  <1>1. Len(q) \in Nat
    OBVIOUS
  <1>2. \A j \in 1..Len(q) : Append(q, m)[j] = q[j]
    OBVIOUS
  <1>3. Append(q, m)[Len(q) + 1] = m
    OBVIOUS
  <1>4. \A i \in 0..Len(q) : CountIn(Append(q, m), K, i) = CountIn(q, K, i)
    <2> SUFFICES ASSUME NEW i \in 0..Len(q)
                 PROVE  CountIn(Append(q, m), K, i) = CountIn(q, K, i)
      OBVIOUS
    <2>1. \A j \in 1..i : Append(q, m)[j] = q[j]
      BY <1>1, <1>2
    <2>2. i \in Nat
      OBVIOUS
    <2>3. \A r : (\A j \in 1..i : r[j] = q[j]) => CountIn(r, K, i) = CountIn(q, K, i)
      BY <2>2, CountSame
    <2> QED
      BY <2>1, <2>3
  <1>5. CountIn(Append(q, m), K, Len(q)) = CountIn(q, K, Len(q))
    BY <1>1, <1>4
  <1>6. CountIn(Append(q, m), K, Len(q) + 1)
            = CountIn(Append(q, m), K, Len(q)) + (IF Append(q, m)[Len(q) + 1] \in K THEN 1 ELSE 0)
    BY <1>1, CountNext, ZenonT(60)
  <1> QED
    BY <1>3, <1>4, <1>5, <1>6

(* Without its head, which counts if it is of one of the kinds.            *)
LEMMA CountTail ==
    ASSUME NEW S, NEW q \in Seq(S), q # <<>>, NEW K, NEW i \in Nat, i + 1 <= Len(q)
    PROVE  CountIn(q, K, i + 1) = CountIn(Tail(q), K, i) + (IF Head(q) \in K THEN 1 ELSE 0)
  <1> DEFINE S0 == {j \in 1..i : Tail(q)[j] \in K}
             S1 == {j \in 2..(i + 1) : q[j] \in K}
             T == {j \in 1..(i + 1) : q[j] \in K}
             f == [j \in S0 |-> j + 1]
  <1>1. \A j \in 1..i : Tail(q)[j] = q[j + 1]
    OBVIOUS
  <1>2. f \in [S0 -> S1]
    BY <1>1
  <1>3. \A a, b \in S0 : f[a] = f[b] => a = b
    OBVIOUS
  <1>4. \A b \in S1 : b - 1 \in S0 /\ f[b - 1] = b
    BY <1>1
  <1>5. f \in Bijection(S0, S1)
    <2>1. f \in Injection(S0, S1)
      BY <1>2, <1>3 DEF Injection, IsInjective
    <2>2. f \in Surjection(S0, S1)
      BY <1>2, <1>4 DEF Surjection
    <2> QED
      BY <2>1, <2>2 DEF Bijection
  <1>6. IsFiniteSet(S0) /\ Cardinality(S0) = CountIn(Tail(q), K, i) /\ CountIn(Tail(q), K, i) \in Nat
    BY CountFacts DEF CountIn
  <1>7. IsFiniteSet(S1) /\ Cardinality(S1) = Cardinality(S0)
    <2>1. ExistsBijection(S0, S1)
      BY <1>5 DEF ExistsBijection
    <2> QED
      BY <2>1, <1>6, FS_Bijection
  <1>8. Cardinality(T) = CountIn(q, K, i + 1)
    BY DEF CountIn
  <1>9. q[1] = Head(q)
    OBVIOUS
  <1>10. CASE Head(q) \in K
    <2>1. T = S1 \cup {1} /\ 1 \notin S1
      BY <1>9, <1>10
    <2>2. Cardinality(T) = Cardinality(S1) + 1
      BY <2>1, <1>7, FS_AddElement
    <2> QED
      BY <2>2, <1>6, <1>7, <1>8, <1>10
  <1>11. CASE Head(q) \notin K
    <2>1. T = S1
      <3>1. \A j \in 1..(i + 1) : j = 1 \/ j \in 2..(i + 1)
        OBVIOUS
      <3> QED
        BY <3>1, <1>9, <1>11
    <2>2. Cardinality(T) = Cardinality(S1)
      BY <2>1
    <2>3. (IF Head(q) \in K THEN 1 ELSE 0) = 0
      BY <1>11
    <2>4. CountIn(q, K, i + 1) = CountIn(Tail(q), K, i)
      BY <2>2, <1>6, <1>7, <1>8
    <2> QED
      BY <2>3, <2>4, <1>6
  <1> QED
    BY <1>10, <1>11
-----------------------------------------------------------------------------
(* The inductive invariant                                                 *)

\* A message is in the hands of the one who has the driver's lock; main has it
\* during a call, sbapi while it starts SmartConfig.  Before main has created
\* the thread, nothing comes to sbapi.
PlaceInv ==
    /\ \A c \in Contexts : hand[c] # "none" => lock = c
    /\ lock = "main" => main \in {"policy", "mode", "call"}
    /\ lock = "sbapi" => sb \in {"policy", "smart"}
    /\ sb = "off" <=> main \in {"boot", "policy", "create"}
    /\ sb = "off" => sbQ = <<>> /\ ~timer
    /\ sb = "tell" => out \in LinkEvents

\* The status bit is that of the last change read, unless one was lost.
BitInv == lost \cap {"early", "self"} = {} => (ip <=> read # <<>> /\ Last(read) = "up")

\* An address was acquired before the bit was set.
ProbeInv == (ip => ipRoles # {}) /\ ProbingGoesOn

SbapiInv == TypeOK /\ PlaceInv /\ ToldInOrder /\ BitInv /\ ProbeInv

LEMMA SbapiInit == Init => SbapiInv
  <1> SUFFICES ASSUME Init PROVE SbapiInv
    OBVIOUS
  <1> USE DEF Init
  <1>1. TypeOK
    <2>1. /\ \A S : <<>> \in Seq(S)
          /\ Len(<<>>) = 0
      OBVIOUS
    <2>2. /\ mainQ \in Seq(LinkEvents \cup {"other"}) /\ Len(mainQ) <= Size
          /\ sbQ \in Seq(Messages \cup Ticks) /\ Len(sbQ) <= Size
          /\ told \in Seq(LinkEvents) /\ read \in Seq(LinkEvents)
      BY <2>1
    <2>3. /\ role \in {"sta", "ap"} /\ callback \in Ticks
          /\ hand \in [Contexts -> Messages \cup {"none"}]
      BY DEF Ticks
    <2>4. counter \in 0..MaxSlots /\ events \in 0..MaxEvents /\ others \in 0..MaxOthers /\ offers \in Nat
      OBVIOUS
    <2> QED
      BY <2>2, <2>3, <2>4 DEF TypeOK
  <1>2. PlaceInv
    BY DEF PlaceInv
  <1>3. CountIn(sbQ, LinkEvents, Len(sbQ)) = 0 /\ CountIn(sbQ, Ticks, Len(sbQ)) = 0
    <2>1. Len(sbQ) = 0
      OBVIOUS
    <2> QED
      BY <2>1, CountNone
  <1>4. InHand = {} /\ Cardinality(InHand) = 0
    <2>1. InHand = {}
      BY DEF InHand, LinkEvents
    <2> QED
      BY <2>1, FS_EmptySet
  <1>5. OnTheWay = 0
    BY <1>3, <1>4 DEF OnTheWay
  <1>6. ToldInOrder
    BY <1>4, <1>5 DEF ToldInOrder
  <1>7. BitInv
    BY DEF BitInv
  <1>8. ProbeInv
    BY <1>3 DEF ProbeInv, ProbingGoesOn, Probes
  <1> QED
    BY <1>1, <1>2, <1>6, <1>7, <1>8 DEF SbapiInv

LEMMA TypeStep == ASSUME TypeOK, PlaceInv, [Next]_vars PROVE TypeOK'
  <1> USE DEF TypeOK, nwpVars, mainVars, sbVars, timerVars, ghostVars, boundVars
  <1>1. CASE UNCHANGED vars
    BY <1>1 DEF vars
  <1>2. CASE MainStep
    <2>1. CASE Start
      BY <2>1 DEF Start
    <2>2. CASE CreateThread
      BY <2>2 DEF CreateThread
    <2>3. CASE MainReturns
      BY <2>3 DEF MainReturns, Contexts
    <2>4. CASE MainReceive
      BY <2>4 DEF MainReceive
    <2> QED
      BY <1>2, <2>1, <2>2, <2>3, <2>4 DEF MainStep
  <1>3. CASE Tick
    <2>1. callback \in Messages \cup Ticks /\ sbQ \in Seq(Messages \cup Ticks) /\ Len(sbQ) \in Nat
      OBVIOUS
    <2>2. /\ Append(sbQ, callback) \in Seq(Messages \cup Ticks)
          /\ Len(Append(sbQ, callback)) = Len(sbQ) + 1
      BY <2>1
    <2>3. /\ sbQ' \in {sbQ, Append(sbQ, callback)} /\ lost' \in {lost, lost \cup {"tick"}}
          /\ sbQ' = sbQ \/ Len(sbQ) < Size
      BY <1>3 DEF Tick
    <2>4. sbQ' \in Seq(Messages \cup Ticks) /\ Len(sbQ') <= Size
      <3>1. CASE sbQ' = sbQ
        BY <3>1
      <3>2. CASE Len(sbQ) < Size /\ sbQ' = Append(sbQ, callback)
        <4>1. Len(sbQ) + 1 <= Size
          BY <3>2, <2>1
        <4> QED
          BY <3>2, <4>1, <2>2
      <3> QED
        BY <2>3, <3>1, <3>2
    <2>5. lost' \subseteq {"early", "self", "tick"}
      BY <2>3
    <2>6. /\ UNCHANGED <<role, link, ip, lock, hand, smart, main, mainQ, sb, out, counter, loop>>
          /\ UNCHANGED <<callback, told, read, ipRoles, offers, events, others>>
          /\ timer' = FALSE
      BY <1>3 DEF Tick
    <2> QED
      BY <2>4, <2>5, <2>6, ZenonT(60)
  <1>4. CASE Other
    BY <1>4 DEF Other
  <1>5. CASE SbapiStep
    <2>1. ASSUME NEW m, Receive(m) PROVE sbQ' \in Seq(Messages \cup Ticks) /\ Len(sbQ') <= Size
      BY <2>1 DEF Receive
    <2>2. CASE Active
      BY <2>1, <2>2 DEF Active
    <2>3. CASE Slot
      <3>1. counter' \in 0..MaxSlots
        BY <2>3 DEF Slot
      <3>2. timer' \in BOOLEAN /\ sb' \in {"off", "recv", "policy"}
        BY <2>3 DEF Slot
      <3>3. sbQ' \in Seq(Messages \cup Ticks) /\ Len(sbQ') <= Size
        BY <2>1, <2>3 DEF Slot
      <3>4. UNCHANGED <<nwpVars, smart, mainVars, out, loop, callback, ghostVars, boundVars>>
        BY <2>3 DEF Slot
      <3> QED
        BY <3>1, <3>2, <3>3, <3>4
    <2>4. CASE SmartStarted
      BY <2>4 DEF SmartStarted, Contexts, Ticks
    <2>8. CASE PolicySet
      BY <2>8 DEF PolicySet
    <2>9. CASE SmartFails
      BY <2>9 DEF SmartFails
    <2>5. CASE WlanConnected
      BY <2>1, <2>5 DEF WlanConnected
    <2>6. CASE LinkChange
      BY <2>1, <2>6 DEF LinkChange
    <2>7. CASE Tell
      <3>1. out \in LinkEvents
        BY <2>7 DEF Tell, PlaceInv
      <3>2. /\ mainQ' \in Seq(LinkEvents \cup {"other"}) /\ Len(mainQ') <= Size
            /\ told' \in Seq(LinkEvents)
        BY <2>7, <3>1 DEF Tell
      <3> QED
        BY <2>7, <3>2 DEF Tell
    <2> QED
      BY <1>5, <2>2, <2>3, <2>4, <2>5, <2>6, <2>7, <2>8, <2>9 DEF SbapiStep
  <1>6. ASSUME NEW c \in Contexts, Call(c) PROVE TypeOK'
    BY <1>6 DEF Call
  <1>7. ASSUME NEW c \in Contexts, Post(c) PROVE TypeOK'
    <2>1. hand[c] \in Messages
      BY <1>7 DEF Post
    <2>2. sbQ' \in Seq(Messages \cup Ticks) /\ Len(sbQ') <= Size
      BY <1>7, <2>1 DEF Post
    <2>3. read' \in Seq(LinkEvents)
      <3>1. read # <<>> => Front(read) \in Seq(LinkEvents)
        BY DEF Front
      <3>2. read = <<>> => Front(read) = <<>>
        BY DEF Front
      <3> QED
        BY <1>7, <3>1, <3>2 DEF Post
    <2> QED
      BY <1>7, <2>2, <2>3 DEF Post, Contexts
  <1>8. ASSUME NEW c \in Contexts, NEW e \in Messages, HandleEvent(c, e) PROVE TypeOK'
    <2>1. link' \in {"none", "wlan", "ip"} /\ UNCHANGED role
      BY <1>8 DEF HandleEvent, Happens, Messages, LinkEvents
    <2>2. ip' \in BOOLEAN
      BY <1>8 DEF HandleEvent, Messages, LinkEvents
    <2>3. read' \in Seq(LinkEvents) /\ hand' \in [Contexts -> Messages \cup {"none"}]
      BY <1>8 DEF HandleEvent
    <2>4. ipRoles' \subseteq {"sta", "ap"} /\ lock' \in Contexts \cup {"free"}
      BY <1>8 DEF HandleEvent
    <2>5. events' \in 0..MaxEvents
      <3>1. events \in 0..MaxEvents
        OBVIOUS
      <3>2. events < MaxEvents /\ events' = events + 1
        BY <1>8 DEF HandleEvent
      <3> HIDE DEF TypeOK
      <3> QED
        BY <3>1, <3>2
    <2>6. UNCHANGED <<role, smart, mainVars, sbVars, sbQ, timerVars, told, lost, offers, others>>
      BY <1>8 DEF HandleEvent
    <2> QED
      BY <2>1, <2>2, <2>3, <2>4, <2>5, <2>6
  <1> QED
    BY <1>1, <1>2, <1>3, <1>4, <1>5, <1>6, <1>7, <1>8 DEF Next

LEMMA PlaceStep == ASSUME TypeOK, PlaceInv, [Next]_vars PROVE PlaceInv'
  <1> USE DEF PlaceInv, nwpVars, mainVars, sbVars, timerVars, ghostVars, boundVars
  <1>1. CASE UNCHANGED vars
    BY <1>1 DEF vars
  <1>2. CASE MainStep
    BY <1>2 DEF MainStep, Start, CreateThread, MainReturns, MainReceive
  <1>3. CASE Tick
    BY <1>3 DEF Tick
  <1>4. CASE Other
    BY <1>4 DEF Other
  <1>5. CASE SbapiStep
    <2>1. ASSUME NEW m, Receive(m), UNCHANGED <<lock, hand, main>>, sb' \in {"recv", "policy"}
          PROVE  PlaceInv'
      BY <2>1 DEF Receive
    <2>2. CASE Active
      BY <2>1, <2>2 DEF Active, Receive
    <2>3. CASE Slot
      <3>1. sb' \in {"recv", "policy"}
        BY <2>3 DEF Slot
      <3> QED
        BY <2>1, <2>3, <3>1 DEF Slot
    <2>4. CASE SmartStarted \/ PolicySet \/ SmartFails
      BY <2>4 DEF SmartStarted, PolicySet, SmartFails
    <2>5. CASE WlanConnected
      BY <2>1, <2>5 DEF WlanConnected, Receive
    <2>6. CASE LinkChange
      BY <2>6 DEF LinkChange, Receive
    <2>7. CASE Tell
      BY <2>7 DEF Tell
    <2> QED
      BY <1>5, <2>2, <2>3, <2>4, <2>5, <2>6, <2>7 DEF SbapiStep
  <1>6. ASSUME NEW c \in Contexts, Call(c) PROVE PlaceInv'
    BY <1>6 DEF Call, InCall, Contexts
  <1>7. ASSUME NEW c \in Contexts, Post(c) PROVE PlaceInv'
    <2>1. hand \in [Contexts -> Messages \cup {"none"}]
      BY DEF TypeOK
    <2>2. \A d \in Contexts : hand'[d] = IF d = c THEN "none" ELSE hand[d]
      BY <1>7, <2>1 DEF Post
    <2>3. hand[c] # "none" /\ lock = c /\ lock' \in {lock, "free"}
      BY <1>7 DEF Post
    <2>4. sb = "off" => sbQ' = sbQ
      BY <1>7 DEF Post
    <2>5. UNCHANGED <<main, sb, timer, out>>
      BY <1>7 DEF Post
    <2> QED
      BY <2>2, <2>3, <2>4, <2>5
  <1>8. ASSUME NEW c \in Contexts, NEW e \in Messages, HandleEvent(c, e) PROVE PlaceInv'
    <2>1. hand \in [Contexts -> Messages \cup {"none"}]
      BY DEF TypeOK
    <2>2. \A d \in Contexts : hand'[d] = IF d = c THEN e ELSE hand[d]
      BY <1>8, <2>1 DEF HandleEvent
    <2>3. lock = c \/ (c = "spawn" /\ lock = "free")
      BY <1>8 DEF HandleEvent
    <2>4. \A d \in Contexts : d # c => hand[d] = "none"
      BY <2>3 DEF Contexts
    <2>5. lock' = c /\ UNCHANGED <<main, sb, sbQ, timer, out>>
      BY <1>8 DEF HandleEvent
    <2> QED
      BY <2>2, <2>3, <2>4, <2>5
  <1> QED
    BY <1>1, <1>2, <1>3, <1>4, <1>5, <1>6, <1>7, <1>8 DEF Next

-----------------------------------------------------------------------------
(* The order of the link changes                                           *)

LEMMA SmallSets == Cardinality({}) = 0 /\ \A c : Cardinality({c}) = 1
  <1>1. IsFiniteSet({}) /\ Cardinality({}) = 0
    BY FS_EmptySet
  <1>2. \A c : {} \cup {c} = {c} /\ c \notin {}
    OBVIOUS
  <1>3. ASSUME NEW c PROVE Cardinality({} \cup {c}) = 1
    BY <1>1, FS_AddElement
  <1> QED
    BY <1>1, <1>2, <1>3

(* Where sbapi will be with the next link change it takes.                 *)
Passed == Len(told) + (IF sb = "tell" THEN 1 ELSE 0)
Links(i) == CountIn(sbQ, LinkEvents, i)

(* A link change in the queue has its place in read.                       *)
LEMMA OrderFacts ==
    ASSUME TypeOK, PlaceInv, ToldInOrder
    PROVE  /\ Len(told) \in Nat /\ Len(read) \in Nat /\ Len(sbQ) \in Nat /\ Passed \in Nat
           /\ Links(Len(sbQ)) \in Nat
           /\ Cardinality(InHand) \in {0, 1}
           /\ Len(read) = Passed + Links(Len(sbQ)) + Cardinality(InHand)
           /\ sb = "tell" => Len(told) + 1 \in 1..Passed
           /\ \A i \in DOMAIN sbQ : sbQ[i] \in LinkEvents =>
                  /\ Links(i) \in 1..Links(Len(sbQ))
                  /\ read[Passed + Links(i)] = sbQ[i]
  <1>1. Len(told) \in Nat /\ Len(read) \in Nat /\ Len(sbQ) \in Nat /\ Passed \in Nat
    BY DEF TypeOK, Passed
  <1>2. Links(Len(sbQ)) \in Nat
    BY <1>1, CountFacts DEF Links
  <1>3. Cardinality(InHand) \in {0, 1}
    <2>1. InHand = {} \/ InHand = {lock}
      BY DEF InHand, PlaceInv, LinkEvents
    <2> QED
      BY <2>1, SmallSets
  <1>4. Len(read) = Passed + Links(Len(sbQ)) + Cardinality(InHand)
    <2>1. Len(read) = Len(told) + ((IF sb = "tell" THEN 1 ELSE 0) + Links(Len(sbQ)) + Cardinality(InHand))
      BY DEF ToldInOrder, OnTheWay, Links
    <2> QED
      BY <2>1, <1>1, <1>2, <1>3 DEF Passed
  <1>5. sb = "tell" => Len(told) + 1 \in 1..Passed
    BY <1>1 DEF Passed
  <1>6. ASSUME NEW i \in DOMAIN sbQ, sbQ[i] \in LinkEvents
        PROVE  Links(i) \in 1..Links(Len(sbQ)) /\ read[Passed + Links(i)] = sbQ[i]
    <2>1. i \in 1..Len(sbQ)
      BY <1>6 DEF TypeOK
    <2>2. i \in Nat /\ i - 1 \in Nat /\ i - 1 + 1 = i
      BY <2>1, <1>1
    <2>3. CountIn(sbQ, LinkEvents, i - 1) \in Nat /\ Links(i) \in Nat
      BY <2>2, CountFacts DEF Links
    <2>4. CountIn(sbQ, LinkEvents, i - 1 + 1)
              = CountIn(sbQ, LinkEvents, i - 1) + (IF sbQ[i - 1 + 1] \in LinkEvents THEN 1 ELSE 0)
      BY <2>2, CountNext
    <2>5. Links(i) = CountIn(sbQ, LinkEvents, i - 1) + 1
      BY <2>2, <2>4, <1>6 DEF Links
    <2>6. Links(i) <= Links(Len(sbQ))
      BY <2>1, <2>2, <1>1, CountGrows DEF Links
    <2>7. read[Passed + Links(i)] = sbQ[i]
      BY <1>6 DEF ToldInOrder, Passed, Links
    <2> QED
      BY <2>3, <2>5, <2>6, <2>7, <1>2
  <1> QED
    BY <1>1, <1>2, <1>3, <1>4, <1>5, <1>6

(* What is to be shown after a step.                                       *)
LEMMA OrderAfter ==
    ASSUME TypeOK', Len(read') = Passed' + Links(Len(sbQ))' + Cardinality(InHand'),
           \A k \in DOMAIN told' : read'[k] = told'[k],
           sb' = "tell" => read'[Passed'] = out',
           \A i \in DOMAIN sbQ' : sbQ'[i] \in LinkEvents => read'[Passed' + Links(i)'] = sbQ'[i],
           \A c \in InHand' : Last(read') = hand'[c],
           Cardinality(InHand') \in {0, 1}
    PROVE  ToldInOrder'
  <1>1. Len(told') \in Nat /\ Len(sbQ') \in Nat
    BY DEF TypeOK
  <1>2. Links(Len(sbQ))' \in Nat
    BY <1>1, CountFacts DEF Links
  <1>3. Len(read') = Len(told') + OnTheWay'
    BY <1>1, <1>2 DEF OnTheWay, Passed, Links
  <1> QED
    BY <1>3 DEF ToldInOrder, Passed, Links

(* A message comes to sbapi's queue, ...                                   *)
LEMMA Queued ==
    ASSUME TypeOK, NEW m \in Messages \cup Ticks, sbQ' = Append(sbQ, m)
    PROVE  /\ DOMAIN sbQ' = 1..(Len(sbQ) + 1) /\ Len(sbQ') = Len(sbQ) + 1
           /\ \A i \in 1..Len(sbQ) : sbQ'[i] = sbQ[i] /\ Links(i)' = Links(i)
           /\ sbQ'[Len(sbQ) + 1] = m
           /\ Links(Len(sbQ))' = Links(Len(sbQ)) + (IF m \in LinkEvents THEN 1 ELSE 0)
  <1>1. sbQ \in Seq(Messages \cup Ticks) /\ Len(sbQ) \in Nat
    BY DEF TypeOK
  <1>2. /\ \A i \in 0..Len(sbQ) : CountIn(sbQ', LinkEvents, i) = CountIn(sbQ, LinkEvents, i)
        /\ CountIn(sbQ', LinkEvents, Len(sbQ) + 1)
               = CountIn(sbQ, LinkEvents, Len(sbQ)) + (IF m \in LinkEvents THEN 1 ELSE 0)
    BY <1>1, CountAppend
  <1>3. DOMAIN sbQ' = 1..(Len(sbQ) + 1) /\ Len(sbQ') = Len(sbQ) + 1
    BY <1>1
  <1>4. /\ \A i \in 1..Len(sbQ) : sbQ'[i] = sbQ[i]
        /\ sbQ'[Len(sbQ) + 1] = m
    BY <1>1
  <1>5. \A i \in 1..Len(sbQ) : i \in 0..Len(sbQ)
    BY <1>1
  <1> QED
    BY <1>2, <1>3, <1>4, <1>5 DEF Links

(* ... and sbapi takes the first.                                          *)
LEMMA Taken ==
    ASSUME TypeOK, NEW m, Receive(m)
    PROVE  /\ Len(sbQ) \in Nat \ {0} /\ DOMAIN sbQ = 1..Len(sbQ) /\ sbQ[1] = m
           /\ DOMAIN sbQ' = 1..(Len(sbQ) - 1)
           /\ \A i \in 1..(Len(sbQ) - 1) :
                  /\ sbQ'[i] = sbQ[i + 1]
                  /\ Links(i + 1) = Links(i)' + (IF m \in LinkEvents THEN 1 ELSE 0)
           /\ Links(Len(sbQ)) = Links(Len(sbQ))' + (IF m \in LinkEvents THEN 1 ELSE 0)
           /\ Links(1) = IF m \in LinkEvents THEN 1 ELSE 0
  <1>1. sbQ \in Seq(Messages \cup Ticks) /\ sbQ # <<>> /\ sbQ' = Tail(sbQ) /\ Head(sbQ) = m
    BY DEF TypeOK, Receive
  <1>2. Len(sbQ) \in Nat \ {0} /\ DOMAIN sbQ = 1..Len(sbQ) /\ sbQ[1] = m
    BY <1>1
  <1>3. /\ DOMAIN sbQ' = 1..(Len(sbQ) - 1) /\ Len(sbQ') = Len(sbQ) - 1
        /\ \A i \in 1..(Len(sbQ) - 1) : sbQ'[i] = sbQ[i + 1]
    BY <1>1
  <1>4. ASSUME NEW i \in 0..(Len(sbQ) - 1)
        PROVE  CountIn(sbQ, LinkEvents, i + 1)
                   = CountIn(sbQ', LinkEvents, i) + (IF m \in LinkEvents THEN 1 ELSE 0)
    <2>1. i \in Nat /\ i + 1 <= Len(sbQ)
      BY <1>2
    <2> QED
      BY <1>1, <2>1, CountTail
  <1>5. CountIn(sbQ, LinkEvents, Len(sbQ))
            = CountIn(sbQ', LinkEvents, Len(sbQ) - 1) + (IF m \in LinkEvents THEN 1 ELSE 0)
    <2>1. Len(sbQ) - 1 \in 0..(Len(sbQ) - 1) /\ Len(sbQ) - 1 + 1 = Len(sbQ)
      BY <1>2
    <2> QED
      BY <1>4, <2>1
  <1>6. CountIn(sbQ, LinkEvents, 1) = IF m \in LinkEvents THEN 1 ELSE 0
    <2>1. 0 \in 0..(Len(sbQ) - 1) /\ 0 + 1 = 1
      BY <1>2
    <2>2. CountIn(sbQ', LinkEvents, 0) = 0
      BY CountNone
    <2> QED
      BY <1>4, <2>1, <2>2
  <1>7. \A i \in 1..(Len(sbQ) - 1) : i \in 0..(Len(sbQ) - 1)
    BY <1>2
  <1> QED
    BY <1>2, <1>3, <1>4, <1>5, <1>6, <1>7 DEF Links

LEMMA OrderStep == ASSUME TypeOK, PlaceInv, ToldInOrder, TypeOK', [Next]_vars PROVE ToldInOrder'
  <1> DEFINE n == Links(Len(sbQ))
             h == Cardinality(InHand)
             d(m) == IF m \in LinkEvents THEN 1 ELSE 0
  <1>1. /\ Len(told) \in Nat /\ Len(read) \in Nat /\ Len(sbQ) \in Nat /\ Passed \in Nat
        /\ n \in Nat /\ h \in {0, 1}
        /\ Len(read) = Passed + n + h
        /\ sb = "tell" => Len(told) + 1 \in 1..Passed
    BY OrderFacts
  <1>2. \A i \in DOMAIN sbQ : sbQ[i] \in LinkEvents =>
            Links(i) \in 1..n /\ read[Passed + Links(i)] = sbQ[i]
    BY OrderFacts
  <1>3. /\ \A k \in DOMAIN told : read[k] = told[k]
        /\ sb = "tell" => read[Passed] = out
        /\ \A c \in InHand : Last(read) = hand[c]
    BY DEF ToldInOrder, Passed
  <1>4. ASSUME UNCHANGED <<told, out, sbQ, hand, read>>, sb' = "tell" <=> sb = "tell"
        PROVE  ToldInOrder'
    BY <1>4 DEF ToldInOrder, OnTheWay, InHand
  <1>5. ASSUME NEW m \in Messages \cup Ticks, sbQ' = Append(sbQ, m), UNCHANGED <<told, sb, out, read>>,
               IF m \in LinkEvents THEN h = 1 /\ InHand' = {} /\ Last(read) = m
                                   ELSE InHand' = InHand /\ \A c \in InHand : hand'[c] = hand[c]
        PROVE  ToldInOrder'
    <2>1. /\ DOMAIN sbQ' = 1..(Len(sbQ) + 1) /\ Len(sbQ') = Len(sbQ) + 1
          /\ \A i \in 1..Len(sbQ) : sbQ'[i] = sbQ[i] /\ Links(i)' = Links(i)
          /\ sbQ'[Len(sbQ) + 1] = m
          /\ Links(Len(sbQ))' = n + d(m)
      BY <1>5, Queued
    <2>2. Passed' = Passed /\ DOMAIN sbQ = 1..Len(sbQ)
      BY <1>5 DEF Passed, TypeOK
    <2>3. Cardinality(InHand') = h - d(m) /\ h - d(m) \in {0, 1}
      <3>1. CASE m \in LinkEvents
        <4>1. InHand' = {} /\ h = 1 /\ d(m) = 1
          BY <3>1, <1>5
        <4>2. Cardinality(InHand') = 0
          BY <4>1, SmallSets
        <4> QED
          BY <4>1, <4>2
      <3>2. CASE m \notin LinkEvents
        <4>1. InHand' = InHand /\ d(m) = 0
          BY <3>2, <1>5
        <4> QED
          BY <4>1, <1>1
      <3> QED
        BY <3>1, <3>2
    <2>4. Len(read') = Passed' + Links(Len(sbQ))' + Cardinality(InHand')
      <3>1. CASE m \in LinkEvents
        BY <1>1, <1>5, <2>1, <2>2, <2>3, <3>1
      <3>2. CASE m \notin LinkEvents
        BY <1>1, <1>5, <2>1, <2>2, <2>3, <3>2
      <3> QED
        BY <3>1, <3>2
    <2>5. ASSUME NEW i \in DOMAIN sbQ', sbQ'[i] \in LinkEvents PROVE read'[Passed' + Links(i)'] = sbQ'[i]
      <3>1. CASE i \in 1..Len(sbQ)
        BY <3>1, <2>1, <2>2, <2>5, <1>2, <1>5
      <3>2. CASE i = Len(sbQ) + 1
        <4>1. m \in LinkEvents /\ h = 1 /\ Last(read) = m
          BY <3>2, <2>1, <2>5, <1>5
        <4>2. Links(i)' = n + 1
          BY <3>2, <2>1, <4>1
        <4>3. Passed + (n + 1) = Len(read)
          BY <4>1, <1>1
        <4> QED
          BY <3>2, <4>1, <4>2, <4>3, <2>1, <2>2, <1>5 DEF Last
      <3> QED
        BY <2>1, <3>1, <3>2, <1>1
    <2>6. \A c \in InHand' : Last(read') = hand'[c]
      BY <1>3, <1>5
    <2> QED
      BY <2>2, <2>3, <2>4, <2>5, <2>6, <1>3, <1>5, OrderAfter
  <1>6. ASSUME NEW m, Receive(m), UNCHANGED <<told, hand, read>>,
               IF m \in LinkEvents THEN sb' = "tell" /\ out' = m ELSE sb' # "tell" /\ out' = out
        PROVE  ToldInOrder'
    <2>1. /\ Len(sbQ) \in Nat \ {0} /\ DOMAIN sbQ = 1..Len(sbQ) /\ sbQ[1] = m
          /\ DOMAIN sbQ' = 1..(Len(sbQ) - 1)
          /\ \A i \in 1..(Len(sbQ) - 1) : sbQ'[i] = sbQ[i + 1] /\ Links(i + 1) = Links(i)' + d(m)
          /\ n = Links(Len(sbQ))' + d(m)
          /\ Links(1) = d(m)
      BY <1>6, Taken
    <2>2. sb = "recv" /\ Passed = Len(told) /\ Passed' = Len(told) + d(m)
      BY <1>6, <1>1 DEF Receive, Passed
    <2>3. \A i \in Nat : Links(i)' \in Nat
      BY CountFacts DEF Links
    <2>4. Len(sbQ') \in Nat /\ Links(Len(sbQ))' \in Nat
      <3>1. Len(sbQ') \in Nat
        BY DEF TypeOK
      <3> QED
        BY <3>1, <2>3
    <2>5. InHand' = InHand /\ Cardinality(InHand') = h
      BY <1>6 DEF InHand
    <2>6. Len(read') = Passed' + Links(Len(sbQ))' + Cardinality(InHand')
      <3>1. d(m) \in {0, 1}
        OBVIOUS
      <3> QED
        BY <3>1, <1>1, <1>6, <2>1, <2>2, <2>4, <2>5, SMTT(30)
    <2>7. sb' = "tell" => read'[Passed'] = out'
      <3>1. SUFFICES ASSUME m \in LinkEvents PROVE read[Len(told) + 1] = m
        BY <1>6, <2>2
      <3>2. Links(1) = 1 /\ 1 \in DOMAIN sbQ
        BY <2>1, <3>1
      <3> QED
        BY <3>1, <3>2, <1>2, <2>1, <2>2
    <2>8. ASSUME NEW i \in DOMAIN sbQ', sbQ'[i] \in LinkEvents PROVE read'[Passed' + Links(i)'] = sbQ'[i]
      <3>1. i \in 1..(Len(sbQ) - 1) /\ i \in Nat /\ i + 1 \in DOMAIN sbQ
        BY <2>1
      <3>2. sbQ'[i] = sbQ[i + 1] /\ Links(i + 1) = Links(i)' + d(m) /\ Links(i)' \in Nat
        BY <2>1, <2>3, <3>1
      <3>3. read[Passed + Links(i + 1)] = sbQ[i + 1]
        BY <1>2, <2>8, <3>1, <3>2
      <3>4. d(m) \in {0, 1}
        OBVIOUS
      <3>5. Passed' + Links(i)' = Passed + Links(i + 1)
        <4>1. ASSUME NEW a \in Nat, NEW b \in Nat, NEW x \in {0, 1} PROVE (a + x) + b = a + (b + x)
          OBVIOUS
        <4>2. (Len(told) + d(m)) + Links(i)' = Len(told) + (Links(i)' + d(m))
          BY <3>2, <3>4, <4>1, <1>1
        <4> QED
          BY <2>2, <3>2, <4>2
      <3> QED
        BY <1>6, <3>2, <3>3, <3>5
    <2>9. \A c \in InHand' : Last(read') = hand'[c]
      BY <1>3, <1>6, <2>5
    <2> QED
      BY <2>5, <2>6, <2>7, <2>8, <2>9, <1>1, <1>3, <1>6, OrderAfter
  <1>7. ASSUME NEW c \in Contexts, hand[c] # "none"
        PROVE  InHand = IF hand[c] \in LinkEvents THEN {c} ELSE {}
    BY <1>7 DEF InHand, PlaceInv, LinkEvents
  <1>8. CASE UNCHANGED vars
    BY <1>4, <1>8 DEF vars, nwpVars, sbVars, ghostVars
  <1>9. CASE MainStep
    <2>1. UNCHANGED <<told, out, sbQ, hand, read>> /\ (sb' = "tell" <=> sb = "tell")
      BY <1>9 DEF MainStep, Start, CreateThread, MainReturns, MainReceive, nwpVars, sbVars, ghostVars, PlaceInv
    <2> QED
      BY <2>1, <1>4
  <1>10. CASE Tick
    <2>1. CASE sbQ' = sbQ
      BY <1>4, <1>10, <2>1 DEF Tick, nwpVars, sbVars
    <2>2. CASE sbQ' = Append(sbQ, callback)
      <3>1. callback \in Ticks /\ callback \notin LinkEvents
        BY DEF TypeOK, Ticks, LinkEvents
      <3>2. UNCHANGED <<told, sb, out, read, hand>>
        BY <1>10 DEF Tick, nwpVars, sbVars
      <3>3. InHand' = InHand /\ \A c \in InHand : hand'[c] = hand[c]
        BY <3>2 DEF InHand
      <3> QED
        BY <1>5, <2>2, <3>1, <3>2, <3>3
    <2> QED
      BY <1>10, <2>1, <2>2 DEF Tick
  <1>11. CASE Other
    BY <1>4, <1>11 DEF Other, nwpVars, sbVars, ghostVars
  <1>12. CASE SbapiStep
    <2>1. CASE Active
      <3>1. UNCHANGED <<told, hand, read, out, sb>> /\ Receive("active") /\ "active" \notin LinkEvents
        BY <2>1 DEF Active, nwpVars, sbVars, ghostVars, LinkEvents
      <3>2. sb' # "tell"
        BY <3>1 DEF Receive
      <3> QED
        BY <1>6, <3>1, <3>2
    <2>2. CASE Slot
      <3>1. UNCHANGED <<told, hand, read, out>> /\ sb' # "tell" /\ Receive("slot") /\ "slot" \notin LinkEvents
        BY <2>2 DEF Slot, nwpVars, ghostVars, LinkEvents
      <3> QED
        BY <1>6, <3>1
    <2>3. CASE SmartStarted \/ PolicySet \/ SmartFails
      <3>1. UNCHANGED <<told, out, sbQ, hand, read>> /\ (sb' = "tell" <=> sb = "tell")
        BY <2>3 DEF SmartStarted, PolicySet, SmartFails, PlaceInv, ghostVars
      <3> QED
        BY <3>1, <1>4
    <2>4. CASE WlanConnected
      <3>1. UNCHANGED <<told, hand, read, out, sb>> /\ Receive("wlan") /\ "wlan" \notin LinkEvents
        BY <2>4 DEF WlanConnected, nwpVars, sbVars, ghostVars, LinkEvents
      <3>2. sb' # "tell"
        BY <3>1 DEF Receive
      <3> QED
        BY <1>6, <3>1, <3>2
    <2>5. CASE LinkChange
      <3>1. PICK e \in LinkEvents : Receive(e) /\ sb' = "tell" /\ out' = e
        BY <2>5 DEF LinkChange
      <3>2. UNCHANGED <<told, hand, read>>
        BY <2>5 DEF LinkChange, nwpVars, ghostVars
      <3> QED
        BY <1>6, <3>1, <3>2
    <2>6. CASE Tell
      <3>1. /\ sb = "tell" /\ sb' = "recv" /\ told' = Append(told, out) /\ out \in LinkEvents
            /\ UNCHANGED <<hand, sbQ, read>>
        BY <2>6 DEF Tell, nwpVars, PlaceInv
      <3>2. told \in Seq(LinkEvents)
        BY DEF TypeOK
      <3>3. Passed = Len(told) + 1 /\ Passed' = Len(told) + 1
        BY <3>1, <3>2, <1>1 DEF Passed
      <3>4. \A k \in DOMAIN told' : read'[k] = told'[k]
        <4>1. SUFFICES ASSUME NEW k \in 1..(Len(told) + 1) PROVE read[k] = Append(told, out)[k]
          BY <3>1, <3>2
        <4>2. CASE k \in 1..Len(told)
          BY <4>2, <3>2, <1>3
        <4>3. CASE k = Len(told) + 1
          BY <4>3, <3>1, <3>2, <3>3, <1>3
        <4> QED
          BY <4>2, <4>3, <1>1
      <3>5. InHand' = InHand
        BY <3>1 DEF InHand
      <3>6. Links(Len(sbQ))' = n /\ \A i : Links(i)' = Links(i)
        BY <3>1 DEF Links
      <3>7. Len(read') = Passed' + Links(Len(sbQ))' + Cardinality(InHand')
        BY <3>1, <3>3, <3>5, <3>6, <1>1
      <3>8. \A i \in DOMAIN sbQ' : sbQ'[i] \in LinkEvents => read'[Passed' + Links(i)'] = sbQ'[i]
        BY <3>1, <3>3, <3>6, <1>2
      <3>9. \A c \in InHand' : Last(read') = hand'[c]
        BY <3>1, <3>5, <1>3
      <3> QED
        BY <3>1, <3>4, <3>5, <3>7, <3>8, <3>9, <1>1, OrderAfter
    <2> QED
      BY <1>12, <2>1, <2>2, <2>3, <2>4, <2>5, <2>6 DEF SbapiStep
  <1>13. ASSUME NEW c \in Contexts, Call(c) PROVE ToldInOrder'
    BY <1>4, <1>13 DEF Call, sbVars, ghostVars
  <1>14. ASSUME NEW c \in Contexts, Post(c) PROVE ToldInOrder'
    <2>1. hand[c] # "none" /\ hand[c] \in Messages /\ hand' = [hand EXCEPT ![c] = "none"]
      BY <1>14 DEF Post, TypeOK
    <2>2. UNCHANGED <<told, sb, out>>
      BY <1>14 DEF Post, sbVars
    <2>3. InHand = IF hand[c] \in LinkEvents THEN {c} ELSE {}
      BY <1>7, <2>1
    <2>4. InHand' = {}
      <3>1. \A e \in Contexts : hand'[e] = "none"
        BY <2>1 DEF PlaceInv, TypeOK
      <3> QED
        BY <3>1 DEF InHand, LinkEvents
    <2>5. hand[c] \in LinkEvents => h = 1 /\ Last(read) = hand[c]
      BY <2>3, <1>3, SmallSets
    <2>6. CASE sbQ' = Append(sbQ, hand[c]) /\ read' = read
      BY <1>5, <2>1, <2>2, <2>3, <2>4, <2>5, <2>6
    <2>7. CASE sbQ' = sbQ /\ hand[c] \notin LinkEvents /\ read' = read
      <3>1. InHand' = InHand /\ Passed' = Passed /\ \A i : Links(i)' = Links(i)
        BY <2>2, <2>3, <2>4, <2>7 DEF Passed, Links
      <3>2. Links(Len(sbQ))' = n
        BY <2>7 DEF Links
      <3>3. Len(read') = Passed' + Links(Len(sbQ))' + Cardinality(InHand')
        BY <3>1, <3>2, <2>7, <1>1
      <3>4. \A i \in DOMAIN sbQ' : sbQ'[i] \in LinkEvents => read'[Passed' + Links(i)'] = sbQ'[i]
        BY <3>1, <2>7, <1>2
      <3> QED
        BY <3>1, <3>3, <3>4, <2>2, <2>4, <2>7, <1>1, <1>3, OrderAfter
    <2>8. CASE sbQ' = sbQ /\ hand[c] \in LinkEvents /\ read' = Front(read)
      <3>1. h = 1 /\ Len(read) = Passed + n + 1
        BY <2>5, <2>8, <1>1
      <3>2. Len(read') = Passed + n /\ \A k \in 1..(Passed + n) : read'[k] = read[k]
        <4>1. read \in Seq(LinkEvents) /\ Passed + n \in Nat /\ Len(read) - 1 = Passed + n
          BY <3>1, <1>1, SMTT(30) DEF TypeOK
        <4>2. read' = SubSeq(read, 1, Passed + n)
          BY <2>8, <4>1 DEF Front
        <4> QED
          BY <4>1, <4>2
      <3>3. /\ Passed' = Passed /\ Links(Len(sbQ))' = n /\ \A i : Links(i)' = Links(i)
            /\ Cardinality(InHand') = 0
        BY <2>2, <2>4, <2>8, SmallSets DEF Passed, Links
      <3>4. Len(read') = Passed' + Links(Len(sbQ))' + Cardinality(InHand')
        BY <3>2, <3>3, <1>1
      <3>5. \A k \in DOMAIN told' : read'[k] = told'[k]
        <4>0. told' = told /\ DOMAIN told = 1..Len(told)
          <5>1. told \in Seq(LinkEvents)
            BY DEF TypeOK
          <5> QED
            BY <5>1, <2>2
        <4>1. SUFFICES ASSUME NEW k \in 1..Len(told) PROVE read'[k] = told[k]
          BY <4>0
        <4>2. Len(told) <= Passed
          BY <1>1 DEF Passed
        <4>3. k \in 1..(Passed + n) /\ k \in DOMAIN told
          BY <4>0, <4>2, <1>1
        <4> QED
          BY <4>3, <3>2, <1>3
      <3>6. sb' = "tell" => read'[Passed'] = out'
        <4>1. sb = "tell" => Passed \in 1..(Passed + n)
          BY <1>1
        <4> QED
          BY <4>1, <3>2, <3>3, <2>2, <1>3
      <3>7. ASSUME NEW i \in DOMAIN sbQ', sbQ'[i] \in LinkEvents PROVE read'[Passed' + Links(i)'] = sbQ'[i]
        <4>1. Links(i) \in 1..n /\ read[Passed + Links(i)] = sbQ[i]
          BY <3>7, <2>8, <1>2
        <4>2. Passed + Links(i) \in 1..(Passed + n)
          BY <4>1, <1>1
        <4> QED
          BY <4>1, <4>2, <3>2, <3>3, <2>8
      <3> QED
        BY <3>3, <3>4, <3>5, <3>6, <3>7, <2>4, OrderAfter
    <2> QED
      BY <1>14, <2>6, <2>7, <2>8 DEF Post
  <1>15. ASSUME NEW c \in Contexts, NEW e \in Messages, HandleEvent(c, e) PROVE ToldInOrder'
    <2>1. hand[c] = "none" /\ hand' = [hand EXCEPT ![c] = e] /\ UNCHANGED <<told, sb, out, sbQ>>
      BY <1>15 DEF HandleEvent, sbVars
    <2>2. \A b \in Contexts : hand[b] = "none"
      BY <1>15, <2>1 DEF HandleEvent, PlaceInv, Contexts
    <2>3. InHand = {} /\ h = 0
      <3>1. InHand = {}
        BY <2>2 DEF InHand, LinkEvents
      <3> QED
        BY <3>1, SmallSets
    <2>4. InHand' = IF e \in LinkEvents THEN {c} ELSE {}
      <3>1. \A b \in Contexts : hand'[b] = IF b = c THEN e ELSE "none"
        BY <2>1, <2>2 DEF TypeOK
      <3> QED
        BY <3>1 DEF InHand, LinkEvents
    <2>5. Passed' = Passed /\ Links(Len(sbQ))' = n /\ \A i : Links(i)' = Links(i)
      BY <2>1 DEF Passed, Links
    <2>6. CASE e \in LinkEvents
      <3>1. read' = Append(read, e) /\ read \in Seq(LinkEvents)
        BY <1>15, <2>6 DEF HandleEvent, TypeOK
      <3>2. /\ Len(read') = Len(read) + 1 /\ read'[Len(read) + 1] = e
            /\ \A k \in 1..Len(read) : read'[k] = read[k]
        BY <3>1
      <3>3. InHand' = {c} /\ Cardinality(InHand') = 1
        BY <2>4, <2>6, SmallSets
      <3>4. Len(read') = Passed' + Links(Len(sbQ))' + Cardinality(InHand')
        BY <3>2, <3>3, <2>3, <2>5, <1>1
      <3>5. \A k \in DOMAIN told' : read'[k] = told'[k]
        <4>0. told' = told /\ DOMAIN told = 1..Len(told)
          <5>1. told \in Seq(LinkEvents)
            BY DEF TypeOK
          <5> QED
            BY <5>1, <2>1
        <4>1. SUFFICES ASSUME NEW k \in 1..Len(told) PROVE read'[k] = told[k]
          BY <4>0
        <4>2. Len(told) <= Passed
          BY <1>1 DEF Passed
        <4>3. k \in 1..Len(read) /\ k \in DOMAIN told
          BY <4>0, <4>2, <2>3, <1>1
        <4> QED
          BY <4>3, <3>2, <1>3
      <3>6. sb' = "tell" => read'[Passed'] = out'
        <4>1. sb = "tell" => Passed \in 1..Len(read)
          BY <2>3, <1>1
        <4> QED
          BY <4>1, <3>2, <2>1, <2>5, <1>3
      <3>7. ASSUME NEW i \in DOMAIN sbQ', sbQ'[i] \in LinkEvents PROVE read'[Passed' + Links(i)'] = sbQ'[i]
        <4>1. Links(i) \in 1..n /\ read[Passed + Links(i)] = sbQ[i]
          BY <3>7, <2>1, <1>2
        <4>2. Passed + Links(i) \in 1..Len(read)
          BY <4>1, <2>3, <1>1
        <4> QED
          BY <4>1, <4>2, <3>2, <2>1, <2>5
      <3>8. \A b \in InHand' : Last(read') = hand'[b]
        <4>1. hand'[c] = e
          BY <2>1 DEF TypeOK
        <4> QED
          BY <3>2, <3>3, <4>1 DEF Last
      <3> QED
        BY <3>3, <3>4, <3>5, <3>6, <3>7, <3>8, OrderAfter
    <2>7. CASE e \notin LinkEvents
      <3>1. read' = read
        BY <1>15, <2>7 DEF HandleEvent
      <3>2. InHand' = {} /\ Cardinality(InHand') = 0
        BY <2>4, <2>7, SmallSets
      <3>3. Len(read') = Passed' + Links(Len(sbQ))' + Cardinality(InHand')
        BY <3>1, <3>2, <2>3, <2>5, <1>1
      <3>4. \A i \in DOMAIN sbQ' : sbQ'[i] \in LinkEvents => read'[Passed' + Links(i)'] = sbQ'[i]
        BY <3>1, <2>1, <2>5, <1>2
      <3> QED
        BY <3>1, <3>2, <3>3, <3>4, <2>1, <2>5, <1>3, OrderAfter
    <2> QED
      BY <2>6, <2>7
  <1> QED
    BY <1>8, <1>9, <1>10, <1>11, <1>12, <1>13, <1>14, <1>15 DEF Next

-----------------------------------------------------------------------------
(* The status bit and the probing                                          *)

LEMMA BitStep == ASSUME TypeOK, PlaceInv, BitInv, [Next]_vars PROVE BitInv'
  <1> USE DEF BitInv, nwpVars, mainVars, sbVars, timerVars, ghostVars, boundVars
  <1>1. CASE UNCHANGED <<ip, read, lost>>
    BY <1>1
  <1>2. CASE UNCHANGED vars \/ MainStep \/ Other \/ SbapiStep \/ \E c \in Contexts : Call(c)
    <2>1. UNCHANGED <<ip, read, lost>>
      BY <1>2 DEF vars, MainStep, Start, CreateThread, MainReturns, MainReceive, Other, SbapiStep,
         Active, Slot, SmartStarted, PolicySet, SmartFails, WlanConnected, LinkChange, Tell, Call
    <2> QED
      BY <2>1, <1>1
  <1>3. CASE Tick
    <2>1. UNCHANGED <<ip, read>> /\ lost' \in {lost, lost \cup {"tick"}}
      BY <1>3 DEF Tick
    <2> QED
      BY <2>1
  <1>4. ASSUME NEW c \in Contexts, Post(c) PROVE BitInv'
    <2>1. CASE sb = "off" \/ (c = "sbapi" /\ Len(sbQ) = Size)
      <3>1. "early" \in lost' \/ "self" \in lost'
        BY <1>4, <2>1 DEF Post
      <3> QED
        BY <3>1
    <2>2. CASE ~(sb = "off" \/ (c = "sbapi" /\ Len(sbQ) = Size))
      <3>1. UNCHANGED <<ip, read>> /\ lost' = lost
        BY <1>4, <2>2 DEF Post
      <3> QED
        BY <3>1
    <2> QED
      BY <2>1, <2>2
  <1>5. ASSUME NEW c \in Contexts, NEW e \in Messages, HandleEvent(c, e) PROVE BitInv'
    <2>1. lost' = lost /\ read \in Seq(LinkEvents)
      BY <1>5 DEF HandleEvent, TypeOK
    <2>2. CASE e = "wlan"
      <3>1. UNCHANGED <<ip, read>>
        BY <1>5, <2>2 DEF HandleEvent, LinkEvents
      <3> QED
        BY <3>1, <2>1
    <2>3. CASE e \in LinkEvents
      <3>1. read' = Append(read, e) /\ (ip' <=> e = "up")
        BY <1>5, <2>3 DEF HandleEvent, LinkEvents
      <3>2. read' # <<>> /\ Last(read') = e
        BY <3>1, <2>1, <2>3 DEF Last
      <3> QED
        BY <3>1, <3>2
    <2> QED
      BY <2>2, <2>3 DEF Messages
  <1> QED
    BY <1>2, <1>3, <1>4, <1>5 DEF Next

(* The places where the next time slot can be.                             *)
TimerOn  == IF timer THEN 1 ELSE 0
TicksIn  == CountIn(sbQ, Ticks, Len(sbQ))
Starting == IF sb \in {"policy", "smart"} THEN 1 ELSE 0

LEMMA ProbeStep == ASSUME TypeOK, PlaceInv, ProbeInv, [Next]_vars PROVE ProbeInv'
  <1> USE DEF nwpVars, mainVars, sbVars, timerVars, ghostVars, boundVars
  <1>1. /\ TimerOn \in {0, 1} /\ TicksIn \in Nat /\ Starting \in {0, 1}
        /\ TimerOn + TicksIn + Starting <= 1
        /\ sb \notin {"off", "panic"} /\ ipRoles = {} /\ "tick" \notin lost => TimerOn + TicksIn + Starting = 1
        /\ ip => ipRoles # {}
    <2>1. Len(sbQ) \in Nat
      BY DEF TypeOK
    <2>2. TicksIn \in Nat
      BY <2>1, CountFacts DEF TicksIn
    <2> QED
      BY <2>2 DEF ProbeInv, ProbingGoesOn, Probes, TimerOn, TicksIn, Starting
  <1>2. ASSUME ip' => ipRoles' # {}, TimerOn' + TicksIn' + Starting' <= 1,
               sb' \notin {"off", "panic"} /\ ipRoles' = {} /\ "tick" \notin lost' => TimerOn' + TicksIn' + Starting' = 1
        PROVE  ProbeInv'
    BY <1>2 DEF ProbeInv, ProbingGoesOn, Probes, TimerOn, TicksIn, Starting
  <1>3. ASSUME UNCHANGED <<timer, sbQ, ip, ipRoles, lost>>, sb' = sb \/ {sb, sb'} = {"tell", "recv"}
        PROVE  ProbeInv'
    <2>1. TimerOn' = TimerOn /\ TicksIn' = TicksIn /\ Starting' = Starting
          /\ (sb' \in {"off", "panic"} <=> sb \in {"off", "panic"})
      BY <1>3 DEF TimerOn, TicksIn, Starting
    <2> QED
      BY <1>1, <1>2, <1>3, <2>1
  <1>4. ASSUME NEW m \in Messages \cup Ticks, sbQ' = Append(sbQ, m)
        PROVE  TicksIn' = TicksIn + (IF m \in Ticks THEN 1 ELSE 0)
    <2>1. sbQ \in Seq(Messages \cup Ticks) /\ Len(sbQ') = Len(sbQ) + 1
      BY <1>4 DEF TypeOK
    <2> QED
      BY <1>4, <2>1, CountAppend DEF TicksIn
  <1>5. ASSUME NEW m, Receive(m)
        PROVE  /\ TicksIn' \in Nat /\ TicksIn = TicksIn' + (IF m \in Ticks THEN 1 ELSE 0)
               /\ Starting = 0 /\ sb = "recv"
    <2>1. sbQ \in Seq(Messages \cup Ticks) /\ sbQ # <<>> /\ sbQ' = Tail(sbQ) /\ Head(sbQ) = m
      BY <1>5 DEF TypeOK, Receive
    <2>2. Len(sbQ') \in Nat /\ Len(sbQ') + 1 = Len(sbQ)
      BY <2>1
    <2>3. CountIn(sbQ, Ticks, Len(sbQ') + 1) = CountIn(sbQ', Ticks, Len(sbQ')) + (IF m \in Ticks THEN 1 ELSE 0)
      BY <2>1, <2>2, CountTail
    <2>4. TicksIn' \in Nat
      BY <2>2, CountFacts DEF TicksIn
    <2> QED
      BY <1>5, <2>2, <2>3, <2>4 DEF TicksIn, Starting, Receive
  <1>6. CASE UNCHANGED vars
    BY <1>3, <1>6 DEF vars
  <1>7. CASE MainStep
    <2>1. CASE Start \/ MainReturns \/ MainReceive
      BY <1>3, <2>1 DEF Start, MainReturns, MainReceive
    <2>2. CASE CreateThread
      <3>1. sbQ = <<>> /\ sbQ' = sbQ /\ timer' = TRUE /\ sb' = "recv" /\ UNCHANGED <<ip, ipRoles>>
        BY <2>2 DEF CreateThread, PlaceInv
      <3>2. Len(sbQ') = 0
        BY <3>1
      <3>3. TicksIn' = 0
        BY <3>2, CountNone DEF TicksIn
      <3>4. TimerOn' = 1 /\ Starting' = 0
        BY <3>1 DEF TimerOn, Starting
      <3> QED
        BY <1>1, <1>2, <3>1, <3>3, <3>4
    <2> QED
      BY <1>7, <2>1, <2>2 DEF MainStep
  <1>8. CASE Tick
    <2>1. timer /\ timer' = FALSE /\ UNCHANGED <<ip, ipRoles, sb>>
      BY <1>8 DEF Tick
    <2>2. TimerOn = 1 /\ TimerOn' = 0 /\ Starting' = Starting
      BY <2>1 DEF TimerOn, Starting
    <2>3. CASE sbQ' = Append(sbQ, callback) /\ lost' = lost
      <3>1. callback \in Ticks
        BY DEF TypeOK
      <3>2. TicksIn' = TicksIn + 1
        BY <1>4, <2>3, <3>1
      <3> QED
        BY <1>1, <1>2, <2>1, <2>2, <2>3, <3>2
    <2>4. CASE sbQ' = sbQ /\ "tick" \in lost'
      <3>1. TicksIn' = TicksIn
        BY <2>4 DEF TicksIn
      <3> QED
        BY <1>1, <1>2, <2>1, <2>2, <2>4, <3>1
    <2> QED
      BY <1>8, <2>3, <2>4 DEF Tick
  <1>9. CASE Other
    BY <1>3, <1>9 DEF Other
  <1>10. CASE SbapiStep
    <2>1. CASE Active
      <3>1. Receive("active") /\ timer' = ~ip /\ UNCHANGED <<sb, ip, ipRoles, lost>> /\ "active" \in Ticks
        BY <2>1 DEF Active, Ticks
      <3>2. TicksIn = 1 /\ TicksIn' = 0 /\ Starting = 0
        BY <1>1, <1>5, <3>1
      <3>3. Starting' = 0 /\ TimerOn' = IF ip THEN 0 ELSE 1
        BY <3>1, <3>2 DEF Starting, TimerOn
      <3>4. TimerOn' + TicksIn' + Starting' = IF ip THEN 0 ELSE 1
        BY <3>2, <3>3
      <3> QED
        BY <1>1, <1>2, <3>1, <3>4
    <2>2. CASE Slot
      <3>1. Receive("slot") /\ "slot" \in Ticks /\ UNCHANGED <<ip, ipRoles, lost>>
        BY <2>2 DEF Slot, Ticks
      <3>2. TicksIn = 1 /\ TicksIn' = 0
        BY <1>1, <1>5, <3>1
      <3>3. \/ sb' = "policy" /\ timer' = FALSE
            \/ sb' = "recv" /\ timer' = TRUE
            \/ sb' = "recv" /\ timer' = FALSE /\ ip
        BY <2>2 DEF Slot, TypeOK
      <3>4. TimerOn' + Starting' \in {0, 1} /\ (~ip => TimerOn' + Starting' = 1)
        BY <3>3 DEF TimerOn, Starting
      <3>5. TimerOn' \in {0, 1} /\ Starting' \in {0, 1}
        BY DEF TimerOn, Starting
      <3>6. TimerOn' + TicksIn' + Starting' = TimerOn' + Starting'
        BY <3>2, <3>5
      <3> QED
        BY <1>1, <1>2, <3>1, <3>4, <3>6
    <2>3. CASE SmartStarted
      <3>1. sb = "smart" /\ sb' = "recv" /\ timer' = TRUE /\ UNCHANGED <<sbQ, ip, ipRoles>>
        BY <2>3 DEF SmartStarted, PlaceInv
      <3>2. Starting = 1 /\ Starting' = 0 /\ TimerOn' = 1 /\ TicksIn' = TicksIn
        BY <3>1 DEF Starting, TimerOn, TicksIn
      <3> QED
        BY <1>1, <1>2, <3>1, <3>2
    <2>8. CASE PolicySet
      <3>1. Starting' = Starting /\ TimerOn' = TimerOn /\ TicksIn' = TicksIn
            /\ sb \notin {"off", "panic"} /\ UNCHANGED <<ip, ipRoles, lost>>
        BY <2>8 DEF PolicySet, Starting, TimerOn, TicksIn
      <3> QED
        BY <1>1, <1>2, <3>1
    <2>9. CASE SmartFails
      <3>1. Starting' = 0 /\ TimerOn' = TimerOn /\ TicksIn' = TicksIn /\ sb' = "panic"
            /\ UNCHANGED <<ip, ipRoles, lost>>
        BY <2>9 DEF SmartFails, Starting, TimerOn, TicksIn
      <3> QED
        BY <1>1, <1>2, <3>1
    <2>4. ASSUME NEW m, Receive(m), m \notin Ticks, sb' \in {"recv", "tell"}, UNCHANGED <<timer, ip, ipRoles, lost>>
          PROVE  ProbeInv'
      <3>1. TicksIn' = TicksIn /\ Starting = 0 /\ sb = "recv"
        BY <1>5, <2>4
      <3>2. Starting' = 0 /\ TimerOn' = TimerOn
        BY <2>4 DEF Starting, TimerOn
      <3> QED
        BY <1>1, <1>2, <2>4, <3>1, <3>2
    <2>5. CASE WlanConnected
      BY <2>4, <2>5 DEF WlanConnected, Ticks, Receive
    <2>6. CASE LinkChange
      BY <2>4, <2>6 DEF LinkChange, LinkEvents, Ticks
    <2>7. CASE Tell
      BY <1>3, <2>7 DEF Tell
    <2> QED
      BY <1>10, <2>1, <2>2, <2>3, <2>5, <2>6, <2>7, <2>8, <2>9 DEF SbapiStep
  <1>11. ASSUME NEW c \in Contexts, Call(c) PROVE ProbeInv'
    BY <1>3, <1>11 DEF Call
  <1>12. ASSUME NEW c \in Contexts, Post(c) PROVE ProbeInv'
    <2>1. UNCHANGED <<timer, sb, ip, ipRoles>> /\ ("tick" \in lost' <=> "tick" \in lost)
      BY <1>12 DEF Post
    <2>2. hand[c] \in Messages /\ hand[c] \notin Ticks
      BY <1>12 DEF Post, TypeOK, Messages, LinkEvents, Ticks
    <2>3. sbQ' \in {sbQ, Append(sbQ, hand[c])}
      BY <1>12 DEF Post
    <2>4. TicksIn' = TicksIn
      <3>1. CASE sbQ' = sbQ
        BY <3>1 DEF TicksIn
      <3>2. CASE sbQ' = Append(sbQ, hand[c])
        BY <3>2, <2>2, <1>1, <1>4
      <3> QED
        BY <2>3, <3>1, <3>2
    <2>5. TimerOn' = TimerOn /\ Starting' = Starting
      BY <2>1 DEF TimerOn, Starting
    <2> QED
      BY <1>1, <1>2, <2>1, <2>4, <2>5
  <1>13. ASSUME NEW c \in Contexts, NEW e \in Messages, HandleEvent(c, e) PROVE ProbeInv'
    <2>1. UNCHANGED <<timer, sbQ, sb, lost>> /\ ipRoles \subseteq ipRoles'
      BY <1>13 DEF HandleEvent
    <2>2. ip' => ipRoles' # {}
      BY <1>13, <1>1, <2>1 DEF HandleEvent, Messages, LinkEvents
    <2>3. TimerOn' = TimerOn /\ TicksIn' = TicksIn /\ Starting' = Starting
      BY <2>1 DEF TimerOn, TicksIn, Starting
    <2> QED
      BY <1>1, <1>2, <2>1, <2>2, <2>3
  <1> QED
    BY <1>6, <1>7, <1>8, <1>9, <1>10, <1>11, <1>12, <1>13 DEF Next

-----------------------------------------------------------------------------
LEMMA SbapiInvariant == Spec => []SbapiInv
  <1>1. SbapiInv /\ [Next]_vars => SbapiInv'
    BY TypeStep, PlaceStep, OrderStep, BitStep, ProbeStep DEF SbapiInv
  <1> QED
    BY SbapiInit, <1>1, PTL DEF Spec

(* Every variable keeps its type: no queue grows beyond its size, and only *)
(* link changes are told to main (_sbapi_loop).                            *)
THEOREM TypeCorrect == Spec => []TypeOK
  <1>1. SbapiInv => TypeOK
    BY DEF SbapiInv
  <1> QED
    BY SbapiInvariant, <1>1, PTL

(* sbapi tells main the link changes in the order in which they were read, *)
(* each once, whichever thread reads them (the handlers of                 *)
(* sbapi_cc3200.c:139-395 and the loop at 823-842).                        *)
THEOREM MainIsToldInOrder == Spec => []ToldInOrder
  <1>1. SbapiInv => ToldInOrder
    BY DEF SbapiInv
  <1> QED
    BY SbapiInvariant, <1>1, PTL

(* When nothing is on its way, the bit that sbapi_is_connected reads and   *)
(* what main was told last agree: then all that was read has been told.    *)
THEOREM BitAgreesWithMessages == Spec => []BitAndMessageAgree
  <1>1. SbapiInv => BitAndMessageAgree
    <2> SUFFICES ASSUME SbapiInv, OnTheWay = 0, lost \cap {"early", "self"} = {}
                 PROVE  ip <=> told # <<>> /\ Last(told) = "up"
      BY DEF BitAndMessageAgree
    <2>1. read \in Seq(LinkEvents) /\ told \in Seq(LinkEvents)
      BY DEF SbapiInv, TypeOK
    <2>2. Len(read) = Len(told) /\ \A k \in DOMAIN told : read[k] = told[k]
      BY <2>1 DEF SbapiInv, ToldInOrder
    <2>3. read = told
      BY <2>1, <2>2
    <2> QED
      BY <2>3 DEF SbapiInv, BitInv
  <1> QED
    BY SbapiInvariant, <1>1, PTL

(* The board goes on probing until it has an address, unless a tick found  *)
(* the queue full or a call of smartconfig_connect failed, and there is    *)
(* never a second tick (retry_connection, smartconfig_still_active and     *)
(* AUTO_CONNECTION_TIME_SLOT).                                             *)
THEOREM NeverStopsProbing == Spec => []ProbingGoesOn
  <1>1. SbapiInv => ProbingGoesOn
    BY DEF SbapiInv, ProbeInv
  <1> QED
    BY SbapiInvariant, <1>1, PTL
==============================================================================
