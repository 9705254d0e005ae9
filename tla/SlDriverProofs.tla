--------------------------- MODULE SlDriverProofs ---------------------------
(* Proofs about the driver of the network processor, for any number of     *)
(* threads, pool objects and transmit buffers and any calls.               *)
EXTENDS SlDriver, FiniteSetTheorems, SequenceTheorems, TLAPS

-----------------------------------------------------------------------------
(* The inductive invariant                                                 *)

\* Where a thread is while its command has the global lock.
Cmd == {"loop", "sleep", "done"}

\* One thread at a time reads messages, and one at a time waits for a buffer.
LockInv ==
    /\ \A t \in Threads : pc[t] \in Cmd => lock = t
    /\ \A t \in Threads : pc[t] \in {"txwait", "data"} => txLock = t
    /\ sp \in {"read", "done"} => lock = "spawn"
    /\ waited => \E t \in Threads : pc[t] \in Cmd
    /\ \A t \in Threads : pc[t] \in {"sleep", "done"} => waited

\* What kind of call comes to which step, and who has a pool object.
StageInv == \A t \in Threads :
    /\ pc[t] = "idle" <=> call[t] = NoCall
    /\ pc[t] \in {"pool", "pend", "again", "wait", "release"} => call[t].kind \in Late
    /\ pc[t] \in Cmd \cup {"lock", "check"} => call[t].kind \in {"cmd", "connect", "select"}
    /\ pc[t] \in {"tx", "txwait", "data"} => call[t].kind \in {"recv", "send"}
    /\ own[t] # 0 <=> call[t].kind \in Late /\ pc[t] # "pool"

\* A pool object has one owner, and carries its call.
OwnInv ==
    /\ \A t, u \in Threads : own[t] = own[u] /\ own[t] # 0 => t = u
    /\ \A t \in Threads : own[t] # 0 => objCall[own[t]] = call[t]

\* No object is twice in a list, and its owner's place tells in which it is.
OneEach(s) == \A i, j \in DOMAIN s : s[i] = s[j] => i = j
Active(t)  == own[t] # 0 /\ pc[t] \notin {"pend", "again"}
OnHold(t)  == pc[t] = "pend" /\ own[t] \notin signalled
ListInv ==
    /\ OneEach(free) /\ OneEach(active) /\ OneEach(pending)
    /\ \A o \in Objects : o \in Range(free) <=> \A t \in Threads : own[t] # o
    /\ \A o \in Objects : o \in Range(active) <=> \E t \in Threads : own[t] = o /\ Active(t)
    /\ \A o \in Objects : o \in Range(pending) <=> \E t \in Threads : own[t] = o /\ OnHold(t)

\* Active calls have different bits in the bitmap, which has no others.
KeyInv ==
    /\ bitmap = {Key(objCall[o]) : o \in Range(active)}
    /\ \A o, p \in Range(active) : Key(objCall[o]) = Key(objCall[p]) => o = p

\* The response to a command is on its way only while its thread waits for it.
Responses == {i \in DOMAIN wire : wire[i].k = "resp"}
CmdInv ==
    /\ asked # NoCall =>
           /\ \E t \in Threads : pc[t] \in Cmd /\ asked = call[t]
           /\ waited /\ Responses = {} /\ last.k # "resp"
    /\ \A i \in Responses :
           /\ \E t \in Threads : pc[t] \in Cmd /\ wire[i].c = call[t]
           /\ waited /\ Responses = {i} /\ last.k # "resp"
    /\ last.k = "resp" => waited /\ \E t \in Threads : pc[t] = "done" /\ last.c = call[t]

\* The network processor has taken the call of t on: its result will come.
SaidYes == (\E i \in Responses : wire[i].ok) \/ (last.k = "resp" /\ last.ok)
Accepted(t) ==
    /\ own[t] # 0
    /\ \/ pc[t] = "wait"
       \/ pc[t] = "check" /\ status[t]
       \/ pc[t] = "loop" /\ ~waited /\ status[t]
       \/ pc[t] \in Cmd /\ waited /\ SaidYes

\* An object is signalled for a call that was woken or whose result has come.
SigInv == \A o \in signalled : \E t \in Threads : own[t] = o /\ (pc[t] = "pend" \/ Accepted(t))

\* A result is on its way once, and to a call that waits for it.
Results == {i \in DOMAIN wire : wire[i].k = "done"}
Expected(c) == \E t \in Threads : Accepted(t) /\ call[t] = c /\ own[t] \notin signalled
ResultInv ==
    /\ \A c \in due : Expected(c)
    /\ \A i \in Results : Expected(wire[i].c) /\ wire[i].c \notin due
    /\ \A i, j \in Results : wire[i].c = wire[j].c => i = j
    /\ last.k = "done" /\ last.c.kind # "recv" =>
           /\ last.c \notin due /\ \A i \in Results : wire[i].c # last.c
           /\ \E t \in Threads : /\ Accepted(t) /\ call[t] = last.c
                                 /\ own[t] = found /\ own[t] \notin signalled

\* An unread message masks the interrupt or is the one being read.
Reading == sp = "done" \/ \E t \in Threads : pc[t] = "done"
UnreadInv ==
    /\ unread = (IF masked THEN 1 ELSE 0) + (IF Reading THEN 1 ELSE 0)
    /\ raised = IF masked THEN 1 ELSE 0
    /\ masked => wire # <<>>

\* Whoever is called for an unread message has it in front of him.
LookInv ==
    /\ UnreadIsRead
    /\ sp = "done" /\ masked => spawnQ > 0

\* The driver never believes in more buffers than there are, and enough of
\* them between the check and the write.
TxInv ==
    /\ txCnt <= buffers
    /\ \A t \in Threads : pc[t] = "data" => txCnt > Reserve(t)
    /\ txSync /\ (\E t \in Threads : pc[t] = "txwait") => txCnt > FlowMin

\* The threads that may still call for the spawn thread have room in its queue.
Callers == {t \in Threads : pc[t] \in Cmd \cup {"check"}}
Taken   == IF sp \in {"lock", "read"} THEN 1 ELSE 0
Spare   == IF masked /\ ~waited THEN 1 ELSE 0
InUse   == Cardinality(Callers)
SpawnInv == spawnQ + Taken + InUse <= Cardinality(Threads) + Spare

DriverInv ==
    /\ TypeOK /\ LockInv /\ StageInv /\ OwnInv /\ ListInv /\ KeyInv
    /\ CmdInv /\ SigInv /\ ResultInv /\ UnreadInv /\ LookInv /\ TxInv /\ SpawnInv
    /\ NoFault

-----------------------------------------------------------------------------
(* Lists of pool objects                                                   *)

(* A new head.                                                             *)
LEMMA ConsFacts ==
    ASSUME NEW S, NEW s \in Seq(S), NEW e \in S
    PROVE  /\ <<e>> \o s \in Seq(S)
           /\ Range(<<e>> \o s) = Range(s) \cup {e}
           /\ OneEach(s) /\ e \notin Range(s) => OneEach(<<e>> \o s)
  <1> DEFINE r == <<e>> \o s
  <1>1. /\ r \in Seq(S) /\ DOMAIN r = 1..Len(s) + 1 /\ DOMAIN s = 1..Len(s) /\ Len(s) \in Nat
        /\ r[1] = e /\ \A i \in 1..Len(s) : r[i + 1] = s[i]
    OBVIOUS
  <1>2. \A i \in DOMAIN r : i = 1 \/ (i - 1 \in DOMAIN s /\ r[i] = s[i - 1])
    BY <1>1
  <1>3. \A j \in DOMAIN s : j + 1 \in DOMAIN r /\ r[j + 1] = s[j]
    BY <1>1
  <1> HIDE DEF r
  <1>4. Range(r) = Range(s) \cup {e}
    <2>1. ASSUME NEW x \in Range(r) PROVE x \in Range(s) \cup {e}
      BY <1>1, <1>2 DEF Range
    <2>2. ASSUME NEW x \in Range(s) PROVE x \in Range(r)
      BY <1>1, <1>3 DEF Range
    <2>3. e \in Range(r)
      BY <1>1 DEF Range
    <2> QED
      BY <2>1, <2>2, <2>3
  <1>5. ASSUME OneEach(s), e \notin Range(s), NEW i \in DOMAIN r, NEW j \in DOMAIN r, r[i] = r[j]
        PROVE  i = j
    <2>1. \A k \in DOMAIN s : s[k] # e
      BY <1>5 DEF Range
    <2> QED
      BY <1>1, <1>2, <1>5, <2>1 DEF OneEach
  <1>6. OneEach(s) /\ e \notin Range(s) => OneEach(r)
    BY <1>5 DEF OneEach
  <1> QED
    BY <1>1, <1>4, <1>6 DEF r

(* Without its head.                                                       *)
LEMMA TailFacts ==
    ASSUME NEW S, NEW s \in Seq(S), s # <<>>
    PROVE  /\ Head(s) \in Range(s) /\ Head(s) \in S
           /\ Tail(s) \in Seq(S)
           /\ OneEach(s) => OneEach(Tail(s)) /\ Range(Tail(s)) = Range(s) \ {Head(s)}
  <1> DEFINE r == Tail(s)
  <1>1. /\ r \in Seq(S) /\ DOMAIN s = 1..Len(s) /\ Len(s) \in Nat \ {0}
        /\ DOMAIN r = 1..Len(s) - 1
        /\ \A i \in DOMAIN r : i + 1 \in DOMAIN s /\ r[i] = s[i + 1]
        /\ Head(s) = s[1] /\ 1 \in DOMAIN s /\ Head(s) \in S
    OBVIOUS
  <1>2. \A j \in DOMAIN s : j = 1 \/ (j - 1 \in DOMAIN r /\ r[j - 1] = s[j])
    BY <1>1
  <1> HIDE DEF r
  <1>3. Head(s) \in Range(s)
    BY <1>1 DEF Range
  <1>4. ASSUME OneEach(s) PROVE OneEach(r)
    <2>1. ASSUME NEW i \in DOMAIN r, NEW j \in DOMAIN r, r[i] = r[j] PROVE i = j
      <3>1. i + 1 = j + 1
        BY <1>1, <1>4, <2>1 DEF OneEach
      <3> QED
        BY <1>1, <3>1
    <2> QED
      BY <2>1 DEF OneEach
  <1>5. ASSUME OneEach(s) PROVE Range(r) = Range(s) \ {Head(s)}
    <2>1. ASSUME NEW x \in Range(r) PROVE x \in Range(s) /\ x # Head(s)
      <3>1. PICK i \in DOMAIN r : x = r[i]
        BY DEF Range
      <3>2. x = s[i + 1] /\ i + 1 \in DOMAIN s /\ i + 1 # 1
        BY <1>1, <3>1
      <3> QED
        BY <1>1, <1>5, <3>2 DEF OneEach, Range
    <2>2. ASSUME NEW x \in Range(s), x # Head(s) PROVE x \in Range(r)
      <3>1. PICK j \in DOMAIN s : x = s[j]
        BY DEF Range
      <3>2. j - 1 \in DOMAIN r /\ r[j - 1] = x
        BY <1>1, <1>2, <2>2, <3>1
      <3> QED
        BY <3>2 DEF Range
    <2> QED
      BY <2>1, <2>2
  <1> QED
    BY <1>1, <1>3, <1>4, <1>5 DEF r

(* _SlRemoveFromList takes out the object that is in the list once.        *)
LEMMA RemoveFacts ==
    ASSUME NEW S, NEW s \in Seq(S), NEW e \in Range(s), OneEach(s)
    PROVE  /\ RemoveFromList(s, e) \in Seq(S)
           /\ OneEach(RemoveFromList(s, e))
           /\ Range(RemoveFromList(s, e)) = Range(s) \ {e}
  <1>1. PICK k \in DOMAIN s : s[k] = e
    BY DEF Range
  <1>2. DOMAIN s = 1..Len(s) /\ Len(s) \in Nat /\ k \in 1..Len(s)
    BY <1>1
  <1>3. CASE Len(s) = 1
    <2>1. RemoveFromList(s, e) = <<>>
      BY <1>3 DEF RemoveFromList
    <2>2. \A i \in DOMAIN s : s[i] = e
      BY <1>1, <1>2, <1>3
    <2>3. Range(s) = {e}
      BY <2>2, <1>1 DEF Range
    <2>4. Range(<<>>) = {} /\ OneEach(<<>>) /\ <<>> \in Seq(S)
      BY DEF Range, OneEach
    <2> QED
      BY <2>1, <2>3, <2>4
  <1>4. CASE Len(s) # 1
    <2> DEFINE r == SubSeq(s, 1, k - 1) \o SubSeq(s, k + 1, Len(s))
    <2>1. RemoveFromList(s, e) = r
      <3>1. {i \in 1..Len(s) : s[i] = e} = {k}
        BY <1>1, <1>2 DEF OneEach
      <3>2. SelectInSeq(s, LAMBDA v : v = e) = Min({k})
        BY <3>1, <1>2 DEF SelectInSeq
      <3>3. Min({k}) = k
        <4>1. Min({k}) \in {k}
          BY <1>2 DEF Min
        <4> QED
          BY <4>1
      <3> QED
        BY <1>1, <1>2, <1>4, <3>2, <3>3 DEF RemoveFromList, RemoveFirst, RemoveAt
    <2>2. /\ r \in Seq(S) /\ Len(r) = Len(s) - 1 /\ DOMAIN r = 1..Len(s) - 1
          /\ \A i \in 1..Len(s) - 1 : r[i] = IF i < k THEN s[i] ELSE s[i + 1]
      <3> DEFINE a == SubSeq(s, 1, k - 1)
                 b == SubSeq(s, k + 1, Len(s))
      <3>1. a \in Seq(S) /\ Len(a) = k - 1 /\ \A i \in 1..k - 1 : a[i] = s[i]
        BY <1>2, ElementOfSeq, SubSeqProperties
      <3>2. b \in Seq(S) /\ Len(b) = Len(s) - k /\ \A i \in 1..Len(s) - k : b[i] = s[k + i]
        BY <1>2, ElementOfSeq, SubSeqProperties
      <3> HIDE DEF a, b
      <3>3. /\ a \o b \in Seq(S) /\ Len(a \o b) = Len(a) + Len(b)
            /\ \A i \in 1..Len(a) + Len(b) : (a \o b)[i] = IF i <= Len(a) THEN a[i] ELSE b[i - Len(a)]
        BY <3>1, <3>2, ConcatProperties
      <3>4. Len(a) + Len(b) = Len(s) - 1 /\ DOMAIN (a \o b) = 1..Len(a \o b)
        BY <1>2, <3>1, <3>2, <3>3
      <3>5. ASSUME NEW i \in 1..Len(s) - 1 PROVE (a \o b)[i] = IF i < k THEN s[i] ELSE s[i + 1]
        <4>1. CASE i < k
          BY <1>2, <3>1, <3>3, <3>4, <4>1
        <4>2. CASE ~(i < k)
          <5>1. i - (k - 1) \in 1..Len(s) - k /\ k + (i - (k - 1)) = i + 1
            BY <1>2, <4>2
          <5>2. (a \o b)[i] = b[i - (k - 1)]
            BY <1>2, <3>1, <3>3, <3>4, <4>2
          <5>3. b[i - (k - 1)] = s[k + (i - (k - 1))]
            BY <3>2, <5>1
          <5> QED
            BY <4>2, <5>1, <5>2, <5>3
        <4> QED
          BY <4>1, <4>2
      <3> QED
        BY <3>3, <3>4, <3>5 DEF r, a, b
    <2> HIDE DEF r
    <2>3. ASSUME NEW i \in DOMAIN r, NEW j \in DOMAIN r, r[i] = r[j] PROVE i = j
      <3> DEFINE at(n) == IF n < k THEN n ELSE n + 1
      <3>1. at(i) \in DOMAIN s /\ at(j) \in DOMAIN s /\ r[i] = s[at(i)] /\ r[j] = s[at(j)]
        BY <1>2, <2>2
      <3>2. at(i) = at(j)
        BY <2>3, <3>1 DEF OneEach
      <3> QED
        BY <1>2, <2>2, <3>2
    <2>4. ASSUME NEW x \in Range(r) PROVE x \in Range(s) /\ x # e
      <3>1. PICK i \in DOMAIN r : x = r[i]
        BY DEF Range
      <3>2. PICK n \in DOMAIN s : x = s[n] /\ n # k
        BY <1>2, <2>2, <3>1, SMTT(30)
      <3> QED
        BY <1>1, <3>2 DEF OneEach, Range
    <2>5. ASSUME NEW x \in Range(s), x # e PROVE x \in Range(r)
      <3>1. PICK n \in DOMAIN s : x = s[n]
        BY DEF Range
      <3>2. n # k
        BY <1>1, <2>5, <3>1
      <3>3. CASE n < k
        <4>1. n \in DOMAIN r /\ r[n] = x
          BY <1>2, <2>2, <3>1, <3>3
        <4> QED
          BY <4>1 DEF Range
      <3>4. CASE n > k
        <4>1. n - 1 \in DOMAIN r /\ r[n - 1] = x
          BY <1>2, <2>2, <3>1, <3>4
        <4> QED
          BY <4>1 DEF Range
      <3> QED
        BY <1>2, <3>2, <3>3, <3>4
    <2>6. OneEach(r) /\ Range(r) = Range(s) \ {e}
      BY <2>3, <2>4, <2>5 DEF OneEach
    <2> QED
      BY <2>1, <2>2, <2>6
  <1> QED
    BY <1>3, <1>4

-----------------------------------------------------------------------------
(* Initially                                                               *)

LEMMA DriverInit == Init => DriverInv
  <1> SUFFICES ASSUME Init PROVE DriverInv
    OBVIOUS
  <1> USE SlDriverAssumption
  <1>0. DOMAIN free = Objects /\ \A i \in Objects : free[i] = i
    BY DEF Init
  <1>1. free \in Seq(Objects)
    BY DEF Init, Objects
  <1>2. <<>> \in Seq(Objects) /\ <<>> \in Seq(Messages) /\ Range(<<>>) = {} /\ OneEach(<<>>)
        /\ Len(<<>>) = 0 /\ DOMAIN <<>> = {}
    BY DEF Range, OneEach
  <1>3. Range(free) = Objects /\ OneEach(free)
    BY <1>0 DEF Range, OneEach
  <1>4. 0 \notin Objects
    BY DEF Objects
  <1>5. TypeOK
    <2>1. lock \in Threads \cup {"spawn", "free"} /\ txLock \in Threads \cup {"free"}
      BY DEF Init
    <2>2. /\ pc \in [Threads -> {"idle", "pool", "pend", "again", "lock", "loop", "sleep", "done",
                           "check", "tx", "txwait", "data", "wait", "release"}]
          /\ call \in [Threads -> Calls \cup {NoCall}] /\ own \in [Threads -> 0..Pool]
          /\ status \in [Threads -> BOOLEAN]
      BY DEF Init
    <2>3. /\ free \in Seq(Objects) /\ active \in Seq(Objects) /\ pending \in Seq(Objects)
          /\ objCall \in [Objects -> Calls \cup {NoCall}] /\ signalled \subseteq Objects
      BY <1>1, <1>2 DEF Init
    <2>4. /\ waited \in BOOLEAN /\ cmdSync \in BOOLEAN /\ txSync \in BOOLEAN /\ masked \in BOOLEAN
          /\ sp \in {"idle", "lock", "read", "done"}
      BY DEF Init
    <2>5. /\ txCnt \in 0..Buffers /\ unread \in 0..2 /\ spawnQ \in 0..SpawnSize
          /\ found \in 0..Pool /\ buffers \in 0..Buffers /\ calls \in 0..MaxCalls
      BY DEF Init
    <2>6. last \in Messages /\ asked \in Calls \cup {NoCall} /\ due \subseteq Calls
      BY DEF Init, NoMessage, Messages
    <2>7. wire \in Seq(Messages) /\ raised \in 0..Len(wire)
      BY <1>2 DEF Init
    <2>8. fault \subseteq {"stray response", "stray completion", "lost spawn", "assert", "overrun"}
      BY DEF Init
    <2> QED
      BY <2>1, <2>2, <2>3, <2>4, <2>5, <2>6, <2>7, <2>8 DEF TypeOK
  <1>6. LockInv /\ StageInv /\ OwnInv
    <2>1. NoCall.kind \notin Late
      BY DEF NoCall, Late
    <2> QED
      BY <2>1 DEF Init, LockInv, StageInv, OwnInv, Cmd
  <1>7. ListInv
    <2>1. OneEach(free) /\ OneEach(active) /\ OneEach(pending)
      BY <1>2, <1>3 DEF Init
    <2>2. \A t \in Threads : own[t] = 0
      BY DEF Init
    <2>3. Range(active) = {} /\ Range(pending) = {}
      BY <1>2 DEF Init
    <2>4. \A o \in Objects : \A t \in Threads : own[t] # o
      BY <1>4, <2>2
    <2> QED
      BY <1>3, <2>1, <2>3, <2>4 DEF ListInv
  <1>8. KeyInv
    BY <1>2 DEF Init, KeyInv
  <1>9. CmdInv /\ SigInv /\ ResultInv
    <2>1. Responses = {} /\ Results = {}
      BY <1>2 DEF Init, Responses, Results
    <2>2. last.k = "dummy" /\ signalled = {} /\ due = {} /\ asked = NoCall
      BY DEF Init, NoMessage
    <2> QED
      BY <2>1, <2>2 DEF CmdInv, SigInv, ResultInv
  <1>10. UnreadInv /\ LookInv /\ TxInv
    BY DEF Init, UnreadInv, LookInv, TxInv, UnreadIsRead, Reading
  <1>11. SpawnInv
    <2>1. Callers = {}
      BY DEF Init, Callers, Cmd
    <2>2. InUse = 0
      BY <2>1, FS_EmptySet DEF InUse
    <2>3. Cardinality(Threads) \in Nat
      BY SpawnAssumption, FS_CardinalityType
    <2>4. spawnQ = 0 /\ Taken = 0 /\ Spare = 0
      BY DEF Init, Taken, Spare
    <2> QED
      BY <2>2, <2>3, <2>4 DEF SpawnInv
  <1> QED
    BY <1>5, <1>6, <1>7, <1>8, <1>9, <1>10, <1>11 DEF DriverInv, NoFault, Init

-----------------------------------------------------------------------------
(* Types                                                                   *)

ThreadType ==
    /\ pc \in [Threads -> {"idle", "pool", "pend", "again", "lock", "loop", "sleep", "done",
                           "check", "tx", "txwait", "data", "wait", "release"}]
    /\ call \in [Threads -> Calls \cup {NoCall}] /\ own \in [Threads -> 0..Pool]
    /\ status \in [Threads -> BOOLEAN]
PoolType ==
    /\ free \in Seq(Objects) /\ active \in Seq(Objects) /\ pending \in Seq(Objects)
    /\ objCall \in [Objects -> Calls \cup {NoCall}] /\ signalled \subseteq Objects
    /\ last \in Messages /\ found \in 0..Pool
    /\ asked \in Calls \cup {NoCall} /\ due \subseteq Calls /\ wire \in Seq(Messages)
CountType ==
    /\ txCnt \in 0..Buffers /\ spawnQ \in 0..SpawnSize
    /\ buffers \in 0..Buffers /\ calls \in 0..MaxCalls
RestType ==
    /\ lock \in Threads \cup {"spawn", "free"} /\ txLock \in Threads \cup {"free"}
    /\ waited \in BOOLEAN /\ cmdSync \in BOOLEAN /\ txSync \in BOOLEAN /\ masked \in BOOLEAN
    /\ sp \in {"idle", "lock", "read", "done"}
    /\ fault \subseteq {"stray response", "stray completion", "lost spawn", "assert", "overrun"}

(* A message that is read is one of the network processor's.               *)
LEMMA HeadFacts ==
    ASSUME TypeOK, wire # <<>>
    PROVE  Head(wire) \in Messages /\ Tail(wire) \in Seq(Messages)
  <1>1. wire \in Seq(Messages)
    BY DEF TypeOK
  <1> QED
    BY <1>1, TailFacts

LEMMA ThreadTypeStep == ASSUME DriverInv, [Next]_vars PROVE ThreadType'
  <1>1. ThreadType
    BY DEF DriverInv, TypeOK, ThreadType
  <1>2. CASE UNCHANGED thrVars
    BY <1>1, <1>2 DEF thrVars, ThreadType
  <1>3. ASSUME NEW t \in Threads, NEW c \in Calls, Begin(t, c) PROVE ThreadType'
    BY <1>1, <1>3, SlDriverAssumption DEF Begin, ThreadType, Goto, Kinds
  <1>4. ASSUME NEW t \in Threads, TakeObj(t) PROVE ThreadType'
    <2>0. free \in Seq(Objects) /\ free # <<>>
      BY <1>4 DEF DriverInv, TypeOK, TakeObj
    <2>1. Head(free) \in Objects
      BY <2>0, TailFacts
    <2>2. Head(free) \in 0..Pool
      BY <2>1, SlDriverAssumption DEF Objects
    <2> QED
      BY <1>1, <1>4, <2>2 DEF TakeObj, Suspend, Activate, Goto, ThreadType
  <1>5. ASSUME NEW t \in Threads, PoolEmpty(t) \/ Woken(t) \/ TryAgain(t) PROVE ThreadType'
    BY <1>1, <1>5 DEF PoolEmpty, Woken, TryAgain, Suspend, Activate, Goto, Return, ThreadType
  <1>11. ASSUME NEW t \in Threads, ReleaseObj(t) PROVE ThreadType'
    <2>1. /\ pc' = [pc EXCEPT ![t] = "idle"] /\ call' = [call EXCEPT ![t] = NoCall]
          /\ own' = [own EXCEPT ![t] = 0] /\ UNCHANGED status
      BY <1>11 DEF ReleaseObj, Return, Goto
    <2> QED
      BY <1>1, <2>1, SlDriverAssumption DEF ThreadType
  <1>6. ASSUME NEW t \in Threads, SendCommand(t) \/ Sleep(t) \/ Wake(t) \/ ReadInCommand(t)
        PROVE ThreadType'
    BY <1>1, <1>6 DEF SendCommand, Sleep, Wake, ReadInCommand, Read, Goto, ThreadType
  <1>7. ASSUME NEW t \in Threads, DoneInCommand(t) PROVE ThreadType'
    <2>1. last.ok \in BOOLEAN
      BY DEF DriverInv, TypeOK, Messages
    <2>2. pc' = [pc EXCEPT ![t] = "loop"] /\ UNCHANGED <<call, own>>
      BY <1>7 DEF DoneInCommand, Goto
    <2>3. status' = status \/ status' = [status EXCEPT ![t] = last.ok]
      BY <1>7 DEF DoneInCommand
    <2>4. status' \in [Threads -> BOOLEAN]
      BY <1>1, <2>1, <2>3 DEF ThreadType
    <2> QED
      BY <1>1, <2>2, <2>4 DEF ThreadType
  <1>8. ASSUME NEW t \in Threads, EndCommand(t) \/ CheckUnread(t) \/ Completed(t)
        PROVE ThreadType'
    BY <1>1, <1>8 DEF EndCommand, CheckUnread, Completed, Goto, Go, Return, ThreadType
  <1>9. ASSUME NEW t \in Threads, LockTx(t) \/ SendRefused(t) \/ WaitTx(t) \/ SendData(t)
        PROVE ThreadType'
    BY <1>1, <1>9 DEF LockTx, SendRefused, WaitTx, SendData, Goto, Go, Return, ThreadType
  <1>10. CASE Spawn \/ Interrupt \/ Answer \/ FreeBuffer \/ Event
    BY <1>2, <1>10 DEF Spawn, SpawnTake, SpawnLock, ReadInSpawn, Read, SpawnDone, Interrupt,
                       Answer, Respond, Complete, FreeBuffer, Event, NwpOnly, thrVars
  <1> QED
    BY <1>2, <1>3, <1>4, <1>5, <1>6, <1>7, <1>8, <1>9, <1>10, <1>11
       DEF Next, Progress, Steps, vars

LEMMA CountTypeStep == ASSUME DriverInv, [Next]_vars PROVE CountType'
  <1> USE SlDriverAssumption
  <1>1. CountType
    BY DEF DriverInv, TypeOK, CountType
  <1>2. CASE UNCHANGED <<txCnt, spawnQ, buffers, calls>>
    BY <1>1, <1>2 DEF CountType
  <1>3. ASSUME NEW t \in Threads, NEW c \in Calls, Begin(t, c) PROVE CountType'
    <2>1. calls < MaxCalls /\ calls' = calls + 1 /\ UNCHANGED <<txCnt, spawnQ, buffers>>
      BY <1>3 DEF Begin, rxVars, txVars, nwpVars
    <2> QED
      BY <1>1, <2>1 DEF CountType
  <1>4. ASSUME NEW t \in Threads, TakeObj(t) \/ PoolEmpty(t) \/ Woken(t) \/ TryAgain(t) \/ ReleaseObj(t)
                                  \/ Sleep(t) \/ Completed(t)
        PROVE CountType'
    BY <1>2, <1>4 DEF TakeObj, PoolEmpty, Woken, TryAgain, ReleaseObj, Sleep, Completed,
                      rxVars, txVars, nwpVars
  <1>5. ASSUME NEW t \in Threads, SendCommand(t) \/ Wake(t) \/ EndCommand(t) \/ DoneInCommand(t)
        PROVE CountType'
    BY <1>2, <1>5 DEF SendCommand, Wake, EndCommand, DoneInCommand, rxVars, txVars, nwpVars
  <1>6. ASSUME Read PROVE CountType'
    <2>1. txCnt' = buffers /\ UNCHANGED <<spawnQ, buffers, calls>>
      BY <1>6 DEF Read
    <2> QED
      BY <1>1, <2>1 DEF CountType
  <1>7. ASSUME NEW t \in Threads, CheckUnread(t) PROVE CountType'
    <2>1. /\ spawnQ' = spawnQ \/ (spawnQ < SpawnSize /\ spawnQ' = spawnQ + 1)
          /\ UNCHANGED <<txCnt, buffers, calls>>
      BY <1>7 DEF CheckUnread, txVars, nwpVars
    <2> QED
      BY <1>1, <2>1 DEF CountType
  <1>8. ASSUME NEW t \in Threads, LockTx(t) \/ SendRefused(t) \/ WaitTx(t) PROVE CountType'
    BY <1>2, <1>8 DEF LockTx, SendRefused, WaitTx, rxVars, nwpVars
  <1>9. ASSUME NEW t \in Threads, SendData(t) PROVE CountType'
    <2>1. Reserve(t) \in {1, 2}
      BY DEF Reserve, FlowMin
    <2>2. /\ \/ txCnt > Reserve(t) /\ txCnt' = txCnt - 1
                /\ buffers' = IF buffers = 0 THEN 0 ELSE buffers - 1
             \/ UNCHANGED <<txCnt, buffers>>
          /\ UNCHANGED <<spawnQ, calls>>
      BY <1>9 DEF SendData, rxVars
    <2> QED
      BY <1>1, <2>1, <2>2 DEF CountType
  <1>10. CASE SpawnTake
    <2>1. spawnQ > 0 /\ spawnQ' = spawnQ - 1 /\ UNCHANGED <<txCnt, buffers, calls>>
      BY <1>10 DEF SpawnTake, txVars, nwpVars
    <2> QED
      BY <1>1, <2>1 DEF CountType
  <1>11. CASE SpawnLock \/ SpawnDone \/ Answer
    BY <1>2, <1>11 DEF SpawnLock, SpawnDone, Answer, Respond, Complete, NwpOnly,
                       rxVars, txVars, nwpVars
  <1>12. CASE Interrupt
    <2>1. /\ spawnQ' = spawnQ \/ (spawnQ < SpawnSize /\ spawnQ' = spawnQ + 1)
          /\ UNCHANGED <<txCnt, buffers, calls>>
      BY <1>12 DEF Interrupt, txVars
    <2> QED
      BY <1>1, <2>1 DEF CountType
  <1>13. CASE FreeBuffer
    <2>1. buffers < Buffers /\ buffers' = buffers + 1 /\ UNCHANGED <<txCnt, spawnQ, calls>>
      BY <1>13 DEF FreeBuffer, NwpOnly, rxVars, txVars
    <2> QED
      BY <1>1, <2>1 DEF CountType
  <1>14. CASE Event
    <2>1. calls < MaxCalls /\ calls' = calls + 1 /\ UNCHANGED <<txCnt, spawnQ, buffers>>
      BY <1>14 DEF Event, NwpOnly, rxVars, txVars
    <2> QED
      BY <1>1, <2>1 DEF CountType
  <1>15. CASE UNCHANGED vars
    BY <1>2, <1>15 DEF vars, rxVars, txVars, nwpVars
  <1> QED
    BY <1>3, <1>4, <1>5, <1>6, <1>7, <1>8, <1>9, <1>10, <1>11, <1>12, <1>13, <1>14, <1>15
       DEF Next, Progress, Steps, Spawn, ReadInCommand, ReadInSpawn

LEMMA RestTypeStep == ASSUME DriverInv, [Next]_vars PROVE RestType'
  <1>1. RestType
    BY DEF DriverInv, TypeOK, RestType
  <1>2. CASE UNCHANGED <<lockVars, waited, cmdSync, masked, txSync, sp, fault>>
    BY <1>1, <1>2 DEF lockVars, RestType
  <1>3. ASSUME NEW t \in Threads, NEW c \in Calls, Begin(t, c) PROVE RestType'
    BY <1>2, <1>3 DEF Begin, rxVars, txVars
  <1>4. ASSUME NEW t \in Threads, TakeObj(t) \/ PoolEmpty(t) \/ Woken(t) \/ TryAgain(t) \/ ReleaseObj(t)
                                  \/ Sleep(t) \/ Completed(t) \/ CheckUnread(t)
        PROVE RestType'
    BY <1>2, <1>4 DEF TakeObj, PoolEmpty, Woken, TryAgain, ReleaseObj, Sleep, Completed,
                      CheckUnread, rxVars, txVars, nwpVars
  <1>5. ASSUME NEW t \in Threads, SendCommand(t) \/ Wake(t) \/ EndCommand(t) PROVE RestType'
    BY <1>1, <1>5 DEF SendCommand, Wake, EndCommand, RestType, lockVars, rxVars, txVars
  <1>6. ASSUME Read, UNCHANGED sp \/ sp' = "done" PROVE RestType'
    <2>1. /\ UNCHANGED <<lockVars, waited, cmdSync>> /\ masked' = FALSE /\ txSync' \in BOOLEAN
          /\ fault' = fault \/ fault' = fault \cup {"stray completion"}
      BY <1>1, <1>6 DEF Read, lockVars, RestType
    <2> QED
      BY <1>1, <1>6, <2>1 DEF RestType, lockVars
  <1>7. ASSUME NEW t \in Threads, ReadInCommand(t) PROVE RestType'
    BY <1>6, <1>7 DEF ReadInCommand
  <1>8. CASE ReadInSpawn
    BY <1>6, <1>8 DEF ReadInSpawn
  <1>9. ASSUME NEW t \in Threads, DoneInCommand(t) PROVE RestType'
    <2>1. waited' \in BOOLEAN /\ cmdSync' \in BOOLEAN
      BY <1>9 DEF DoneInCommand
    <2>2. fault' = fault \/ fault' = fault \cup {"stray response"}
      BY <1>9 DEF DoneInCommand
    <2> QED
      BY <1>1, <1>9, <2>1, <2>2 DEF DoneInCommand, RestType, lockVars, txVars
  <1>10. ASSUME NEW t \in Threads, LockTx(t) \/ SendRefused(t) \/ WaitTx(t) PROVE RestType'
    BY <1>1, <1>10 DEF LockTx, SendRefused, WaitTx, RestType, lockVars, rxVars
  <1>11. ASSUME NEW t \in Threads, SendData(t) PROVE RestType'
    <2>1. lock' \in {t, lock} /\ txLock' \in {"free", txLock}
      BY <1>11 DEF SendData
    <2>2. fault' \subseteq fault \cup {"assert", "overrun"}
      BY <1>11 DEF SendData
    <2>3. UNCHANGED <<waited, cmdSync, masked, txSync, sp>>
      BY <1>11 DEF SendData, rxVars
    <2> QED
      BY <1>1, <2>1, <2>2, <2>3 DEF RestType
  <1>12. CASE SpawnTake
    BY <1>1, <1>12 DEF SpawnTake, RestType, lockVars, txVars
  <1>13. CASE SpawnLock
    BY <1>1, <1>13 DEF SpawnLock, RestType, lockVars, txVars
  <1>14. CASE SpawnDone
    BY <1>1, <1>14 DEF SpawnDone, RestType, lockVars, txVars
  <1>15. CASE Interrupt
    <2>1. /\ cmdSync' \in {TRUE, cmdSync} /\ masked' = TRUE /\ fault' \subseteq fault \cup {"lost spawn"}
          /\ UNCHANGED <<lockVars, waited, sp, txSync>>
      BY <1>15 DEF Interrupt, Mask, txVars
    <2> QED
      BY <1>1, <2>1 DEF RestType, lockVars
  <1>16. CASE Answer \/ FreeBuffer \/ Event
    BY <1>2, <1>16 DEF Answer, Respond, Complete, FreeBuffer, Event, NwpOnly, rxVars, txVars
  <1>17. CASE UNCHANGED vars
    BY <1>2, <1>17 DEF vars, rxVars, txVars
  <1> QED
    BY <1>3, <1>4, <1>5, <1>7, <1>8, <1>9, <1>10, <1>11, <1>12, <1>13, <1>14, <1>15, <1>16, <1>17
       DEF Next, Progress, Steps, Spawn

-----------------------------------------------------------------------------
(* The pool                                                                *)

\* What _SlDrvWaitForPoolObj does with the object o of thread t.
Activated(t, o) ==
    /\ active' \in Seq(Objects) /\ OneEach(active') /\ Range(active') = Range(active) \cup {o}
    /\ bitmap' = bitmap \cup {Key(call[t])} /\ Key(call[t]) \notin bitmap
    /\ pc' = [pc EXCEPT ![t] = IF call[t].kind = "recv" THEN "tx" ELSE "lock"]
    /\ UNCHANGED pending
Suspended(t, o) ==
    /\ pending' \in Seq(Objects) /\ OneEach(pending') /\ Range(pending') = Range(pending) \cup {o}
    /\ Key(call[t]) \in bitmap
    /\ pc' = [pc EXCEPT ![t] = "pend"]
    /\ UNCHANGED <<active, bitmap>>

(* An object that is in neither list is put into one of them.              *)
LEMMA Placed ==
    ASSUME DriverInv, NEW t \in Threads, NEW o \in Objects,
           o \notin Range(active), o \notin Range(pending),
           IF Key(call[t]) \in bitmap THEN Suspend(t, o) ELSE Activate(t, o)
    PROVE  Activated(t, o) \/ Suspended(t, o)
  <1>1. active \in Seq(Objects) /\ pending \in Seq(Objects) /\ OneEach(active) /\ OneEach(pending)
    BY DEF DriverInv, TypeOK, ListInv
  <1>2. CASE Key(call[t]) \in bitmap
    <2>1. pending' = <<o>> \o pending
      BY <1>2 DEF Suspend
    <2>2. /\ <<o>> \o pending \in Seq(Objects) /\ OneEach(<<o>> \o pending)
          /\ Range(<<o>> \o pending) = Range(pending) \cup {o}
      BY <1>1, ConsFacts
    <2> QED
      BY <1>2, <2>1, <2>2 DEF Suspend, Suspended, Goto
  <1>3. CASE Key(call[t]) \notin bitmap
    <2>1. active' = <<o>> \o active
      BY <1>3 DEF Activate
    <2>2. /\ <<o>> \o active \in Seq(Objects) /\ OneEach(<<o>> \o active)
          /\ Range(<<o>> \o active) = Range(active) \cup {o}
      BY <1>1, ConsFacts
    <2> QED
      BY <1>3, <2>1, <2>2 DEF Activate, Activated, Goto
  <1> QED
    BY <1>2, <1>3

(* A call takes a free object.                                             *)
LEMMA TakeFacts ==
    ASSUME DriverInv, NEW t \in Threads, TakeObj(t)
    PROVE  \E o \in Objects :
               /\ o \in Range(free) /\ o \notin Range(active) /\ o \notin Range(pending)
               /\ o \notin signalled /\ \A u \in Threads : own[u] # o
               /\ free' \in Seq(Objects) /\ OneEach(free') /\ Range(free') = Range(free) \ {o}
               /\ own' = [own EXCEPT ![t] = o] /\ objCall' = [objCall EXCEPT ![o] = call[t]]
               /\ Activated(t, o) \/ Suspended(t, o)
  <1> DEFINE o == Head(free)
  <1>1. free \in Seq(Objects) /\ free # <<>> /\ OneEach(free)
    BY DEF DriverInv, TypeOK, ListInv, TakeObj
  <1>2. /\ o \in Range(free) /\ o \in Objects
        /\ Tail(free) \in Seq(Objects) /\ OneEach(Tail(free)) /\ Range(Tail(free)) = Range(free) \ {o}
    BY <1>1, TailFacts
  <1>3. /\ free' = Tail(free) /\ own' = [own EXCEPT ![t] = o]
        /\ objCall' = [objCall EXCEPT ![o] = call[t]]
        /\ IF Key(call[t]) \in bitmap THEN Suspend(t, o) ELSE Activate(t, o)
    BY DEF TakeObj
  <1> HIDE DEF o
  <1>4. \A u \in Threads : own[u] # o
    BY <1>2 DEF DriverInv, ListInv
  <1>5. o \notin Range(active) /\ o \notin Range(pending)
    BY <1>2, <1>4 DEF DriverInv, ListInv
  <1>6. o \notin signalled
    BY <1>4 DEF DriverInv, SigInv
  <1>7. Activated(t, o) \/ Suspended(t, o)
    BY <1>2, <1>3, <1>5, Placed
  <1> QED
    BY <1>2, <1>3, <1>4, <1>5, <1>6, <1>7

(* A woken call looks again.                                               *)
LEMMA AgainFacts ==
    ASSUME DriverInv, NEW t \in Threads, TryAgain(t)
    PROVE  /\ own[t] \in Objects /\ own[t] \notin Range(active) /\ own[t] \notin Range(pending)
           /\ own[t] \notin signalled
           /\ Activated(t, own[t]) \/ Suspended(t, own[t])
  <1>1. pc[t] = "again"
    BY DEF TryAgain
  <1>2. own[t] # 0 /\ own[t] \in 0..Pool
    BY <1>1, SlDriverAssumption DEF DriverInv, TypeOK, StageInv
  <1>3. own[t] \in Objects
    BY <1>2, SlDriverAssumption DEF Objects
  <1>4. \A u \in Threads : own[u] = own[t] => u = t
    BY <1>2 DEF DriverInv, OwnInv
  <1>5. own[t] \notin Range(active) /\ own[t] \notin Range(pending)
    BY <1>1, <1>3, <1>4 DEF DriverInv, ListInv, Active, OnHold
  <1>6. own[t] \notin signalled
    BY <1>1, <1>4 DEF DriverInv, SigInv, Accepted, Cmd
  <1> QED
    BY <1>3, <1>5, <1>6, Placed DEF TryAgain

(* A call that ends wakes one that waits for the same, if there is one,    *)
(* and gives its object back.                                              *)
LEMMA ReleaseFacts ==
    ASSUME DriverInv, NEW t \in Threads, ReleaseObj(t)
    PROVE  /\ pc[t] = "release" /\ own[t] \in Objects /\ own[t] \in Range(active)
           /\ own[t] \notin signalled /\ own[t] \notin Range(free) /\ own[t] \notin Range(pending)
           /\ \A u \in Threads : own[u] = own[t] => u = t
           /\ pc' = [pc EXCEPT ![t] = "idle"] /\ call' = [call EXCEPT ![t] = NoCall]
           /\ own' = [own EXCEPT ![t] = 0] /\ objCall' = [objCall EXCEPT ![own[t]] = NoCall]
           /\ bitmap' = bitmap \ {Key(objCall[own[t]])}
           /\ active' \in Seq(Objects) /\ OneEach(active') /\ Range(active') = Range(active) \ {own[t]}
           /\ free' \in Seq(Objects) /\ OneEach(free') /\ Range(free') = Range(free) \cup {own[t]}
           /\ \/ /\ UNCHANGED <<pending, signalled>>
                 /\ \A p \in Range(pending) : objCall[p] # objCall[own[t]]
              \/ \E p \in Range(pending) :
                     /\ objCall[p] = objCall[own[t]] /\ signalled' = signalled \cup {p}
                     /\ pending' \in Seq(Objects) /\ OneEach(pending')
                     /\ Range(pending') = Range(pending) \ {p}
  <1>1. pc[t] = "release"
    BY DEF ReleaseObj
  <1>2. own[t] # 0 /\ own[t] \in 0..Pool
    BY <1>1, SlDriverAssumption DEF DriverInv, TypeOK, StageInv
  <1>3. own[t] \in Objects
    BY <1>2, SlDriverAssumption DEF Objects
  <1>4. \A u \in Threads : own[u] = own[t] => u = t
    BY <1>2 DEF DriverInv, OwnInv
  <1>5. own[t] \in Range(active) /\ own[t] \notin Range(pending) /\ own[t] \notin Range(free)
    BY <1>1, <1>2, <1>3, <1>4 DEF DriverInv, ListInv, Active, OnHold
  <1>6. own[t] \notin signalled
    BY <1>1, <1>4 DEF DriverInv, SigInv, Accepted, Cmd
  <1>7. /\ active \in Seq(Objects) /\ pending \in Seq(Objects) /\ free \in Seq(Objects)
        /\ OneEach(active) /\ OneEach(pending) /\ OneEach(free)
    BY DEF DriverInv, TypeOK, ListInv
  <1>8. /\ active' \in Seq(Objects) /\ OneEach(active') /\ Range(active') = Range(active) \ {own[t]}
    <2>1. active' = RemoveFromList(active, own[t])
      BY DEF ReleaseObj
    <2> QED
      BY <1>5, <1>7, <2>1, RemoveFacts
  <1>9. /\ free' \in Seq(Objects) /\ OneEach(free') /\ Range(free') = Range(free) \cup {own[t]}
    <2>1. free' = <<own[t]>> \o free
      BY DEF ReleaseObj
    <2> QED
      BY <1>3, <1>5, <1>7, <2>1, ConsFacts
  <1>10. DOMAIN pending = 1..Len(pending) /\ Len(pending) \in Nat
    BY <1>7
  <1>11. CASE Alike(own[t]) = {}
    <2>1. UNCHANGED <<pending, signalled>>
      BY <1>11 DEF ReleaseObj
    <2>2. \A i \in DOMAIN pending : objCall[pending[i]] # objCall[own[t]]
      BY <1>10, <1>11 DEF Alike
    <2>3. \A p \in Range(pending) : objCall[p] # objCall[own[t]]
      BY <2>2 DEF Range
    <2> QED
      BY <1>1, <1>3, <1>4, <1>5, <1>6, <1>8, <1>9, <2>1, <2>3 DEF ReleaseObj, Return, Goto
  <1>12. CASE Alike(own[t]) # {}
    <2>2. PICK i \in Alike(own[t]) :
               /\ pending' = RemoveFromList(pending, pending[i])
               /\ signalled' = signalled \cup {pending[i]}
      BY <1>12 DEF ReleaseObj
    <2>3. pending[i] \in Range(pending) /\ objCall[pending[i]] = objCall[own[t]]
      BY <1>10 DEF Alike, Range
    <2>4. /\ pending' \in Seq(Objects) /\ OneEach(pending')
          /\ Range(pending') = Range(pending) \ {pending[i]}
      BY <1>7, <2>2, <2>3, RemoveFacts
    <2> QED
      BY <1>1, <1>3, <1>4, <1>5, <1>6, <1>8, <1>9, <2>2, <2>3, <2>4 DEF ReleaseObj, Return, Goto
  <1> QED
    BY <1>11, <1>12

(* The pool and the messages.                                              *)
LEMMA PoolTypeStep == ASSUME DriverInv, [Next]_vars PROVE PoolType'
  <1>1. PoolType
    BY DEF DriverInv, TypeOK, PoolType
  <1>a. call \in [Threads -> Calls \cup {NoCall}]
    BY DEF DriverInv, TypeOK
  <1>b. NoMessage \in Messages
    BY DEF NoMessage, Messages
  <1>c. 0 \in 0..Pool /\ Objects \subseteq 0..Pool
    BY SlDriverAssumption DEF Objects
  <1>2. CASE UNCHANGED <<free, active, pending, objCall, signalled, last, found, asked, due, wire>>
    BY <1>1, <1>2 DEF PoolType
  <1>3. ASSUME NEW t \in Threads, NEW c \in Calls, Begin(t, c) PROVE PoolType'
    BY <1>2, <1>3 DEF Begin, poolVars, rxVars, nwpVars
  <1>4. ASSUME NEW t \in Threads, TakeObj(t) PROVE PoolType'
    <2>1. PICK o \in Objects :
               /\ free' \in Seq(Objects) /\ objCall' = [objCall EXCEPT ![o] = call[t]]
               /\ Activated(t, o) \/ Suspended(t, o)
      BY <1>4, TakeFacts
    <2>2. active' \in Seq(Objects) /\ pending' \in Seq(Objects)
      BY <1>1, <2>1 DEF Activated, Suspended, PoolType
    <2>3. objCall' \in [Objects -> Calls \cup {NoCall}]
      BY <1>1, <1>a, <2>1 DEF PoolType
    <2> QED
      BY <1>1, <1>4, <2>1, <2>2, <2>3 DEF TakeObj, PoolType, rxVars, nwpVars
  <1>5. ASSUME NEW t \in Threads, PoolEmpty(t) \/ Sleep(t) \/ Wake(t) \/ EndCommand(t)
                                  \/ CheckUnread(t) \/ LockTx(t) \/ SendRefused(t) \/ WaitTx(t)
        PROVE PoolType'
    BY <1>2, <1>5 DEF PoolEmpty, Sleep, Wake, EndCommand, CheckUnread, LockTx, SendRefused, WaitTx,
                      poolVars, rxVars, nwpVars
  <1>6. ASSUME NEW t \in Threads, Woken(t) \/ Completed(t) PROVE PoolType'
    BY <1>1, <1>6 DEF Woken, Completed, PoolType, rxVars, nwpVars
  <1>7. ASSUME NEW t \in Threads, TryAgain(t) PROVE PoolType'
    <2>1. Activated(t, own[t]) \/ Suspended(t, own[t])
      BY <1>7, AgainFacts
    <2>2. active' \in Seq(Objects) /\ pending' \in Seq(Objects)
      BY <1>1, <2>1 DEF Activated, Suspended, PoolType
    <2> QED
      BY <1>1, <1>7, <2>2 DEF TryAgain, PoolType, rxVars, nwpVars
  <1>8. ASSUME NEW t \in Threads, ReleaseObj(t) PROVE PoolType'
    <2>1. /\ objCall' = [objCall EXCEPT ![own[t]] = NoCall]
          /\ active' \in Seq(Objects) /\ free' \in Seq(Objects)
          /\ \/ UNCHANGED <<pending, signalled>>
             \/ \E p \in Range(pending) : pending' \in Seq(Objects) /\ signalled' = signalled \cup {p}
      BY <1>8, ReleaseFacts
    <2>2. Range(pending) \subseteq Objects
      BY <1>1 DEF Range, PoolType
    <2>3. pending' \in Seq(Objects) /\ signalled' \subseteq Objects
      BY <1>1, <2>1, <2>2 DEF PoolType
    <2> QED
      BY <1>1, <1>8, <2>1, <2>3 DEF ReleaseObj, PoolType, rxVars, nwpVars
  <1>9. ASSUME NEW t \in Threads, SendCommand(t) PROVE PoolType'
    BY <1>1, <1>9, <1>a DEF SendCommand, PoolType, poolVars
  <1>10. ASSUME Read PROVE PoolType'
    <2>1. Head(wire) \in Messages /\ Tail(wire) \in Seq(Messages)
      BY <1>10, HeadFacts DEF Read, DriverInv
    <2>2. ActiveFor(Head(wire)) \subseteq Objects
      BY <1>1 DEF ActiveFor, Range, PoolType
    <2>3. found' \in 0..Pool
      <3>1. ActiveFor(Head(wire)) # {} =>
                (CHOOSE o \in ActiveFor(Head(wire)) : TRUE) \in ActiveFor(Head(wire))
        OBVIOUS
      <3>2. found' = IF ActiveFor(Head(wire)) = {} THEN 0 ELSE CHOOSE o \in ActiveFor(Head(wire)) : TRUE
        BY <1>10 DEF Read
      <3> QED
        BY <1>c, <2>2, <3>1, <3>2
    <2>4. signalled' \subseteq Objects
      BY <1>1, <1>10, <2>2 DEF Read, PoolType
    <2> QED
      BY <1>1, <1>10, <2>1, <2>3, <2>4 DEF Read, PoolType
  <1>11. Signalled \subseteq Objects
    BY <1>1, SlDriverAssumption DEF Signalled, PoolType, Objects
  <1>12. ASSUME NEW t \in Threads, DoneInCommand(t) PROVE PoolType'
    BY <1>1, <1>11, <1>12, <1>b, <1>c DEF DoneInCommand, Forget, PoolType, nwpVars
  <1>13. CASE SpawnDone
    BY <1>1, <1>11, <1>13, <1>b, <1>c DEF SpawnDone, Forget, PoolType, nwpVars
  <1>14. ASSUME NEW t \in Threads, SendData(t) PROVE PoolType'
    <2>1. pc[t] = "data"
      BY <1>14 DEF SendData
    <2>2. call[t] # NoCall
      BY <2>1 DEF DriverInv, StageInv
    <2>3. due' \subseteq Calls
      BY <1>1, <1>14, <1>a, <2>2 DEF SendData, PoolType
    <2> QED
      BY <1>1, <1>14, <2>3 DEF SendData, PoolType, poolVars, rxVars
  <1>15. CASE SpawnTake \/ SpawnLock \/ Interrupt
    BY <1>2, <1>15 DEF SpawnTake, SpawnLock, Interrupt, poolVars, nwpVars
  <1>16. ASSUME NEW k \in {"resp", "done", "event", "dummy"}, NEW c \in Calls \cup {NoCall},
                NEW ok \in BOOLEAN, wire' = Append(wire, [k |-> k, c |-> c, ok |-> ok])
         PROVE  wire' \in Seq(Messages)
    <2>1. [k |-> k, c |-> c, ok |-> ok] \in Messages
      BY DEF Messages
    <2> QED
      BY <1>1, <1>16, <2>1 DEF PoolType
  <1>17. ASSUME NEW ok \in BOOLEAN, Respond(ok) PROVE PoolType'
    <2>1. wire' \in Seq(Messages)
      BY <1>1, <1>16, <1>17 DEF Respond, Says, PoolType
    <2> QED
      BY <1>1, <1>17, <2>1 DEF Respond, NwpOnly, PoolType, poolVars, rxVars
  <1>18. ASSUME NEW c \in Calls, Complete(c) PROVE PoolType'
    <2>1. wire' \in Seq(Messages)
      BY <1>16, <1>18 DEF Complete, Says
    <2> QED
      BY <1>1, <1>18, <2>1 DEF Complete, NwpOnly, PoolType, poolVars, rxVars
  <1>19. CASE FreeBuffer \/ Event
    <2>1. wire' \in Seq(Messages)
      BY <1>16, <1>19 DEF FreeBuffer, Event, Says
    <2> QED
      BY <1>1, <1>19, <2>1 DEF FreeBuffer, Event, NwpOnly, PoolType, poolVars, rxVars
  <1>20. CASE UNCHANGED vars
    BY <1>2, <1>20 DEF vars, poolVars, rxVars, nwpVars
  <1> QED
    BY <1>3, <1>4, <1>5, <1>6, <1>7, <1>8, <1>9, <1>10, <1>12, <1>13, <1>14, <1>15, <1>17, <1>18,
       <1>19, <1>20
       DEF Next, Progress, Steps, Spawn, Answer, ReadInCommand, ReadInSpawn

(* No step takes a thread from its place unless it is the thread's own.    *)
LEMMA LockStep == ASSUME DriverInv, [Next]_vars PROVE LockInv'
  <1>1. LockInv /\ ThreadType /\ "spawn" \notin Threads /\ "free" \notin Threads
    BY SlDriverAssumption DEF DriverInv, TypeOK, ThreadType
  <1>2. CASE UNCHANGED <<pc, lock, txLock, sp, waited>>
    BY <1>1, <1>2 DEF LockInv
  <1>3. ASSUME NEW t \in Threads, NEW c \in Calls, Begin(t, c) PROVE LockInv'
    BY <1>1, <1>3 DEF Begin, Goto, LockInv, Cmd, ThreadType, lockVars, rxVars
  <1>4. ASSUME NEW t \in Threads, PoolEmpty(t) \/ Woken(t) \/ Sleep(t) \/ Completed(t)
        PROVE LockInv'
    BY <1>1, <1>4 DEF PoolEmpty, Woken, Sleep, Completed, Goto, Return,
                      LockInv, Cmd, ThreadType, lockVars, rxVars
  <1>5. ASSUME NEW t \in Threads, TakeObj(t) \/ TryAgain(t) \/ ReleaseObj(t) PROVE LockInv'
    BY <1>1, <1>5 DEF TakeObj, TryAgain, ReleaseObj, Suspend, Activate, Goto, Return,
                      LockInv, Cmd, ThreadType, lockVars, rxVars
  <1>6. ASSUME NEW t \in Threads, SendCommand(t) PROVE LockInv'
    BY <1>1, <1>6 DEF SendCommand, Goto, LockInv, Cmd, ThreadType
  <1>7. ASSUME NEW t \in Threads, Wake(t) \/ ReadInCommand(t) PROVE LockInv'
    <2>1. /\ pc[t] \in Cmd /\ pc' = [pc EXCEPT ![t] = pc'[t]] /\ pc'[t] \in Cmd
          /\ UNCHANGED <<lock, txLock, sp, waited>>
      BY <1>1, <1>7 DEF Wake, ReadInCommand, Read, Goto, Cmd, ThreadType, lockVars
    <2>2. waited
      BY <1>1, <1>7 DEF Wake, ReadInCommand, LockInv
    <2> QED
      BY <1>1, <2>1, <2>2 DEF LockInv, Cmd, ThreadType
  <1>8. ASSUME NEW t \in Threads, DoneInCommand(t) PROVE LockInv'
    BY <1>1, <1>8 DEF DoneInCommand, Goto, LockInv, Cmd, ThreadType, lockVars
  <1>9. ASSUME NEW t \in Threads, EndCommand(t) PROVE LockInv'
    BY <1>1, <1>9 DEF EndCommand, Goto, LockInv, Cmd, ThreadType, rxVars
  <1>10. ASSUME NEW t \in Threads, CheckUnread(t) PROVE LockInv'
    BY <1>1, <1>10 DEF CheckUnread, Goto, Go, Return, LockInv, Cmd, ThreadType, lockVars
  <1>11. ASSUME NEW t \in Threads, LockTx(t) \/ SendRefused(t) \/ WaitTx(t) PROVE LockInv'
    BY <1>1, <1>11 DEF LockTx, SendRefused, WaitTx, Goto, Return, LockInv, Cmd, ThreadType,
                       lockVars, rxVars
  <1>12. ASSUME NEW t \in Threads, SendData(t) PROVE LockInv'
    BY <1>1, <1>12 DEF SendData, Goto, Go, Return, LockInv, Cmd, ThreadType, rxVars
  <1>13. CASE SpawnTake \/ SpawnLock \/ ReadInSpawn \/ SpawnDone
    <2>1. UNCHANGED <<pc, txLock, waited>>
      BY <1>13 DEF SpawnTake, SpawnLock, ReadInSpawn, Read, SpawnDone, lockVars, thrVars
    <2>2. \A t \in Threads : pc[t] \in Cmd => lock' = t
      BY <1>1, <1>13 DEF SpawnTake, SpawnLock, ReadInSpawn, Read, SpawnDone, LockInv, lockVars
    <2>3. sp' \in {"read", "done"} => lock' = "spawn"
      BY <1>1, <1>13 DEF SpawnTake, SpawnLock, ReadInSpawn, Read, SpawnDone, LockInv, lockVars
    <2> QED
      BY <1>1, <2>1, <2>2, <2>3 DEF LockInv
  <1>14. CASE Interrupt \/ Answer \/ FreeBuffer \/ Event
    BY <1>2, <1>14 DEF Interrupt, Answer, Respond, Complete, FreeBuffer, Event, NwpOnly,
                       lockVars, thrVars, rxVars
  <1>15. CASE UNCHANGED vars
    BY <1>2, <1>15 DEF vars, lockVars, thrVars, rxVars
  <1> QED
    BY <1>3, <1>4, <1>5, <1>6, <1>7, <1>8, <1>9, <1>10, <1>11, <1>12, <1>13, <1>14, <1>15
       DEF Next, Progress, Steps, Spawn

(* The driver's belief is right when it sends: see TxInv.                  *)
LEMMA SendFacts ==
    ASSUME DriverInv, NEW t \in Threads, SendData(t)
    PROVE  /\ pc[t] = "data" /\ txLock = t
           /\ txCnt > Reserve(t) /\ buffers # 0 /\ fault' = fault
           /\ txCnt' = txCnt - 1 /\ buffers' = buffers - 1 /\ txLock' = "free" /\ lock' = lock
           /\ \/ call[t].kind = "recv" /\ pc' = [pc EXCEPT ![t] = "wait"] /\ UNCHANGED call
                 /\ due' = due \cup {call[t]}
              \/ call[t].kind = "send" /\ pc' = [pc EXCEPT ![t] = "idle"]
                 /\ call' = [call EXCEPT ![t] = NoCall] /\ due' = due
  <1>1. pc[t] = "data"
    BY DEF SendData
  <1>2. txCnt > Reserve(t) /\ txLock = t /\ call[t].kind \in {"recv", "send"}
    BY <1>1 DEF DriverInv, TxInv, LockInv, StageInv
  <1>a. CountType /\ txCnt <= buffers
    BY DEF DriverInv, TypeOK, CountType, TxInv
  <1>b. Reserve(t) \in {1, 2}
    BY DEF Reserve, FlowMin
  <1>3. txCnt <= buffers /\ txCnt \in Nat /\ buffers \in Nat /\ Reserve(t) \in {1, 2}
    BY <1>a, <1>b, SlDriverAssumption DEF CountType
  <1>4. buffers # 0
    BY <1>2, <1>3
  <1>5. /\ txCnt' = txCnt - 1 /\ buffers' = buffers - 1 /\ txLock' = "free" /\ lock' = lock
        /\ fault' = fault
    BY <1>2, <1>4 DEF SendData
  <1>6. CASE call[t].kind = "recv"
    BY <1>1, <1>2, <1>4, <1>5, <1>6 DEF SendData, Go, Goto
  <1>7. CASE call[t].kind = "send"
    BY <1>1, <1>2, <1>4, <1>5, <1>7 DEF SendData, Return, Goto
  <1> QED
    BY <1>2, <1>6, <1>7

(* A thread does the steps of its call.                                    *)
LEMMA StageStep == ASSUME DriverInv, [Next]_vars PROVE StageInv'
  <1>1. StageInv /\ ThreadType /\ NoCall \notin Calls /\ NoCall.kind = "none"
    BY SlDriverAssumption DEF DriverInv, TypeOK, ThreadType, NoCall, Kinds
  <1>2. CASE UNCHANGED <<pc, call, own>>
    BY <1>1, <1>2 DEF StageInv
  <1>3. ASSUME NEW t \in Threads, NEW c \in Calls, Begin(t, c) PROVE StageInv'
    <2>1. c.kind \in Kinds
      BY SlDriverAssumption
    <2>2. /\ pc' = [pc EXCEPT ![t] = CASE c.kind = "cmd" -> "lock" [] c.kind = "send" -> "tx"
                                         [] OTHER -> "pool"]
          /\ call' = [call EXCEPT ![t] = c] /\ UNCHANGED own /\ pc[t] = "idle"
      BY <1>3 DEF Begin, Goto
    <2>3. own[t] = 0
      BY <1>1, <2>2 DEF StageInv, Late
    <2> QED
      BY <1>1, <2>1, <2>2, <2>3 DEF StageInv, ThreadType, Cmd, Late, Kinds
  <1>4. ASSUME NEW t \in Threads, TakeObj(t) PROVE StageInv'
    <2>1. PICK o \in Objects : /\ own' = [own EXCEPT ![t] = o]
                               /\ Activated(t, o) \/ Suspended(t, o)
      BY <1>4, TakeFacts
    <2>2. o # 0
      BY SlDriverAssumption DEF Objects
    <2>3. UNCHANGED call /\ pc[t] = "pool"
      BY <1>4 DEF TakeObj
    <2> QED
      BY <1>1, <2>1, <2>2, <2>3 DEF Activated, Suspended, StageInv, ThreadType, Cmd, Late
  <1>5. ASSUME NEW t \in Threads, TryAgain(t) PROVE StageInv'
    <2>1. Activated(t, own[t]) \/ Suspended(t, own[t])
      BY <1>5, AgainFacts
    <2>2. UNCHANGED <<call, own>> /\ pc[t] = "again"
      BY <1>5 DEF TryAgain
    <2> QED
      BY <1>1, <2>1, <2>2 DEF Activated, Suspended, StageInv, ThreadType, Cmd, Late
  <1>6. ASSUME NEW t \in Threads, PoolEmpty(t) \/ Woken(t) \/ Completed(t) PROVE StageInv'
    BY <1>1, <1>6 DEF PoolEmpty, Woken, Completed, Goto, Return, StageInv, ThreadType, Cmd, Late
  <1>7. ASSUME NEW t \in Threads, ReleaseObj(t) PROVE StageInv'
    <2>1. /\ pc' = [pc EXCEPT ![t] = "idle"] /\ call' = [call EXCEPT ![t] = NoCall]
          /\ own' = [own EXCEPT ![t] = 0]
      BY <1>7, ReleaseFacts
    <2> QED
      BY <1>1, <2>1 DEF StageInv, ThreadType, Cmd, Late
  <1>8. ASSUME NEW t \in Threads, SendCommand(t) \/ Sleep(t) \/ Wake(t) \/ ReadInCommand(t)
        PROVE StageInv'
    <2>1. /\ UNCHANGED <<call, own>> /\ pc[t] \in {"lock", "loop", "sleep"}
          /\ \E p \in Cmd : pc' = [pc EXCEPT ![t] = p]
      BY <1>8 DEF SendCommand, Sleep, Wake, ReadInCommand, Read, Goto, Cmd
    <2> QED
      BY <1>1, <2>1 DEF StageInv, ThreadType, Cmd, Late
  <1>9. ASSUME NEW t \in Threads, DoneInCommand(t) \/ EndCommand(t) PROVE StageInv'
    <2>1. /\ UNCHANGED <<call, own>> /\ pc[t] \in {"loop", "done"}
          /\ \E p \in {"loop", "check"} : pc' = [pc EXCEPT ![t] = p]
      BY <1>9 DEF DoneInCommand, EndCommand, Goto
    <2> QED
      BY <1>1, <2>1 DEF StageInv, ThreadType, Cmd, Late
  <1>10. ASSUME NEW t \in Threads, CheckUnread(t) PROVE StageInv'
    BY <1>1, <1>10 DEF CheckUnread, Go, Goto, Return, StageInv, ThreadType, Cmd, Late
  <1>11. ASSUME NEW t \in Threads, LockTx(t) \/ SendRefused(t) \/ WaitTx(t) PROVE StageInv'
    BY <1>1, <1>11 DEF LockTx, SendRefused, WaitTx, Goto, Return, StageInv, ThreadType, Cmd, Late
  <1>12. ASSUME NEW t \in Threads, SendData(t) PROVE StageInv'
    <2>1. /\ pc[t] = "data" /\ UNCHANGED own
          /\ \/ call[t].kind = "recv" /\ pc' = [pc EXCEPT ![t] = "wait"] /\ UNCHANGED call
             \/ call[t].kind = "send" /\ pc' = [pc EXCEPT ![t] = "idle"]
                /\ call' = [call EXCEPT ![t] = NoCall]
      BY <1>12, SendFacts DEF SendData
    <2> QED
      BY <1>1, <2>1 DEF StageInv, ThreadType, Cmd, Late
  <1>13. CASE Spawn \/ Interrupt \/ Answer \/ FreeBuffer \/ Event
    BY <1>2, <1>13 DEF Spawn, SpawnTake, SpawnLock, ReadInSpawn, Read, SpawnDone, Interrupt,
                       Answer, Respond, Complete, FreeBuffer, Event, NwpOnly, thrVars
  <1>14. CASE UNCHANGED vars
    BY <1>2, <1>14 DEF vars, thrVars
  <1> QED
    BY <1>3, <1>4, <1>5, <1>6, <1>7, <1>8, <1>9, <1>10, <1>11, <1>12, <1>13, <1>14
       DEF Next, Progress, Steps

(* An object has one owner.                                                *)
LEMMA OwnStep == ASSUME DriverInv, [Next]_vars PROVE OwnInv'
  <1>a. 0 \notin Objects
    BY DEF Objects
  <1>1. /\ OwnInv /\ ThreadType /\ objCall \in [Objects -> Calls \cup {NoCall}]
        /\ 0 \notin Objects
    BY <1>a DEF DriverInv, TypeOK, ThreadType
  <1>b. \A u \in Threads : own[u] # 0 => own[u] \in Objects
    BY <1>1, SlDriverAssumption DEF ThreadType, Objects
  <1>2. CASE UNCHANGED <<own, objCall, call>>
    BY <1>1, <1>2 DEF OwnInv
  <1>3. ASSUME NEW t \in Threads, UNCHANGED <<own, objCall>>, own[t] = 0,
               NEW c, call' = [call EXCEPT ![t] = c]
        PROVE OwnInv'
    BY <1>1, <1>3 DEF OwnInv, ThreadType
  <1>4. ASSUME NEW t \in Threads, NEW c \in Calls, Begin(t, c) PROVE OwnInv'
    <2>1. own[t] = 0
      BY <1>4 DEF Begin, DriverInv, StageInv, NoCall, Late
    <2> QED
      BY <1>3, <1>4, <2>1 DEF Begin, poolVars
  <1>5. ASSUME NEW t \in Threads, TakeObj(t) PROVE OwnInv'
    <2>1. PICK o \in Objects : /\ own' = [own EXCEPT ![t] = o]
                               /\ objCall' = [objCall EXCEPT ![o] = call[t]]
                               /\ \A u \in Threads : own[u] # o
      BY <1>5, TakeFacts
    <2>2. UNCHANGED call
      BY <1>5 DEF TakeObj
    <2> QED
      BY <1>1, <1>b, <2>1, <2>2 DEF OwnInv, ThreadType
  <1>6. ASSUME NEW t \in Threads, ReleaseObj(t) PROVE OwnInv'
    <2>1. /\ call' = [call EXCEPT ![t] = NoCall] /\ own' = [own EXCEPT ![t] = 0]
          /\ objCall' = [objCall EXCEPT ![own[t]] = NoCall]
          /\ \A u \in Threads : own[u] = own[t] => u = t
      BY <1>6, ReleaseFacts
    <2> QED
      BY <1>1, <1>b, <2>1 DEF OwnInv, ThreadType
  <1>7. ASSUME NEW t \in Threads, Woken(t) \/ TryAgain(t) \/ Completed(t) \/ SendCommand(t) \/ Sleep(t)
                       \/ Wake(t) \/ ReadInCommand(t) \/ DoneInCommand(t) \/ EndCommand(t) \/ LockTx(t)
        PROVE OwnInv'
    BY <1>2, <1>7 DEF Woken, TryAgain, Completed, SendCommand, Sleep, Wake, ReadInCommand, Read,
                      DoneInCommand, EndCommand, LockTx, poolVars
  <1>8. ASSUME NEW t \in Threads, PoolEmpty(t) PROVE OwnInv'
    <2>1. own[t] = 0
      BY <1>8 DEF PoolEmpty, DriverInv, StageInv
    <2> QED
      BY <1>3, <1>8, <2>1 DEF PoolEmpty, Return, poolVars
  <1>9. ASSUME NEW t \in Threads, CheckUnread(t) PROVE OwnInv'
    <2>1. CASE call[t].kind = "cmd"
      <3>1. own[t] = 0
        BY <2>1 DEF DriverInv, StageInv, Late
      <3> QED
        BY <1>3, <1>9, <2>1, <3>1 DEF CheckUnread, Return, poolVars
    <2>2. CASE call[t].kind # "cmd"
      BY <1>2, <1>9, <2>2 DEF CheckUnread, Go, poolVars
    <2> QED
      BY <2>1, <2>2
  <1>10. ASSUME NEW t \in Threads, SendRefused(t) \/ WaitTx(t) PROVE OwnInv'
    <2>1. CASE SendRefused(t)
      <3>1. own[t] = 0
        BY <2>1 DEF SendRefused, DriverInv, StageInv, Late
      <3> QED
        BY <1>3, <2>1, <3>1 DEF SendRefused, Return, poolVars
    <2>2. CASE WaitTx(t)
      BY <1>2, <2>2 DEF WaitTx, poolVars
    <2> QED
      BY <1>10, <2>1, <2>2
  <1>11. ASSUME NEW t \in Threads, SendData(t) PROVE OwnInv'
    <2>1. /\ UNCHANGED <<own, objCall>>
          /\ \/ UNCHANGED call
             \/ call[t].kind = "send" /\ call' = [call EXCEPT ![t] = NoCall]
      BY <1>11, SendFacts DEF SendData, poolVars
    <2>2. call[t].kind = "send" => own[t] = 0
      BY DEF DriverInv, StageInv, Late
    <2> QED
      BY <1>2, <1>3, <2>1, <2>2
  <1>12. CASE Spawn \/ Interrupt \/ Answer \/ FreeBuffer \/ Event
    BY <1>2, <1>12 DEF Spawn, SpawnTake, SpawnLock, ReadInSpawn, Read, SpawnDone, Interrupt,
                       Answer, Respond, Complete, FreeBuffer, Event, NwpOnly, thrVars, poolVars
  <1>13. CASE UNCHANGED vars
    BY <1>2, <1>13 DEF vars, thrVars, poolVars
  <1> QED
    BY <1>4, <1>5, <1>6, <1>7, <1>8, <1>9, <1>10, <1>11, <1>12, <1>13 DEF Next, Progress, Steps

\* The step moves no call between the lists, and signals active objects only.
Settled ==
    /\ UNCHANGED <<free, active, pending, own>>
    /\ signalled' \subseteq signalled \cup Range(active)
    /\ \A t \in Threads : pc[t] \in {"pend", "again"} <=> pc'[t] \in {"pend", "again"}
    /\ \A t \in Threads : pc[t] \in {"pend", "again"} =>
           pc'[t] = pc[t] /\ (own[t] \in signalled => own[t] \in signalled')

LEMMA SettledStep == ASSUME DriverInv, Settled PROVE ListInv'
  <1>1. ListInv
    BY DEF DriverInv
  <1>2. ASSUME NEW t \in Threads PROVE Active(t)' <=> Active(t)
    BY DEF Settled, Active
  <1>3. ASSUME NEW t \in Threads PROVE OnHold(t)' <=> OnHold(t)
    <2>1. CASE pc[t] = "pend"
      <3>1. own[t] # 0 /\ own[t] \in 0..Pool
        BY <2>1 DEF DriverInv, TypeOK, StageInv
      <3>2. own[t] \in Objects
        BY <3>1, SlDriverAssumption DEF Objects
      <3>3. own[t] \notin Range(active)
        BY <2>1, <3>1, <3>2 DEF DriverInv, ListInv, OwnInv, Active
      <3> QED
        BY <2>1, <3>3 DEF Settled, OnHold
    <2>2. CASE pc[t] # "pend"
      BY <2>2 DEF Settled, OnHold
    <2> QED
      BY <2>1, <2>2
  <1>4. UNCHANGED <<free, active, pending, own>>
    BY DEF Settled
  <1>5. \A o \in Objects : o \in Range(active') <=> \E t \in Threads : own'[t] = o /\ Active(t)'
    BY <1>1, <1>2, <1>4 DEF ListInv
  <1>6. \A o \in Objects : o \in Range(pending') <=> \E t \in Threads : own'[t] = o /\ OnHold(t)'
    BY <1>1, <1>3, <1>4 DEF ListInv
  <1> QED
    BY <1>1, <1>4, <1>5, <1>6 DEF ListInv, OneEach, Range

(* An accepted call has an active object.                                  *)
LEMMA AcceptedActive ==
    ASSUME DriverInv, NEW t \in Threads, Accepted(t)
    PROVE  own[t] \in Objects /\ own[t] \in Range(active) /\ pc[t] \notin {"pend", "again", "release"}
  <1>1. own[t] # 0 /\ own[t] \in 0..Pool /\ pc[t] \notin {"pend", "again", "release"}
    BY DEF DriverInv, TypeOK, Accepted, Cmd
  <1>2. own[t] \in Objects
    BY <1>1, SlDriverAssumption DEF Objects
  <1> QED
    BY <1>1, <1>2 DEF DriverInv, ListInv, Active

(* The handler of a message signals the object of an active call.          *)
LEMMA SignalledFacts ==
    ASSUME DriverInv
    PROVE  signalled \subseteq Signalled /\ Signalled \subseteq signalled \cup Range(active)
  <1>1. last.k = "done" /\ last.c.kind # "recv" => found \in Range(active)
    BY AcceptedActive DEF DriverInv, ResultInv
  <1> QED
    BY <1>1 DEF Signalled

(* Every object stays in the list its owner's place tells.                 *)
LEMMA ListStep == ASSUME DriverInv, [Next]_vars PROVE ListInv'
  <1>1. ListInv /\ ThreadType /\ PoolType /\ OwnInv
    BY DEF DriverInv, TypeOK, ThreadType, PoolType
  <1>a. 0 \notin Objects
    BY DEF Objects
  <1>2. CASE Settled
    BY <1>2, SettledStep
  <1>3. ASSUME NEW t \in Threads, NEW c \in Calls, Begin(t, c) PROVE ListInv'
    BY <1>1, <1>2, <1>3 DEF Begin, Goto, Settled, ThreadType, poolVars
  <1>4. ASSUME NEW t \in Threads, TakeObj(t) PROVE ListInv'
    <2>1. PICK o \in Objects :
               /\ o \in Range(free) /\ o \notin Range(active) /\ o \notin Range(pending)
               /\ o \notin signalled /\ \A u \in Threads : own[u] # o
               /\ free' \in Seq(Objects) /\ OneEach(free') /\ Range(free') = Range(free) \ {o}
               /\ own' = [own EXCEPT ![t] = o]
               /\ Activated(t, o) \/ Suspended(t, o)
      BY <1>4, TakeFacts
    <2>2. UNCHANGED signalled /\ pc[t] = "pool" /\ own[t] = 0
      BY <1>4 DEF TakeObj, DriverInv, StageInv
    <2>3. \A u \in Threads : u # t => own'[u] = own[u]
      BY <1>1, <2>1 DEF ThreadType
    <2>4. own'[t] = o /\ o # 0
      BY <1>1, <1>a, <2>1 DEF ThreadType
    <2>5. \A u \in Threads : u # t => pc'[u] = pc[u]
      BY <1>1, <2>1 DEF ThreadType, Activated, Suspended
    <2>6. /\ OneEach(active') /\ OneEach(pending')
          /\ pc'[t] = "pend" => Range(active') = Range(active) /\ Range(pending') = Range(pending) \cup {o}
          /\ pc'[t] # "pend" => Range(pending') = Range(pending) /\ Range(active') = Range(active) \cup {o}
          /\ pc'[t] # "again"
      BY <1>1, <2>1 DEF ThreadType, Activated, Suspended, ListInv
    <2>7. \A u \in Threads : u # t => (Active(u)' <=> Active(u)) /\ (OnHold(u)' <=> OnHold(u))
      BY <2>2, <2>3, <2>5 DEF Active, OnHold
    <2>8. ~Active(t) /\ ~OnHold(t) /\ (Active(t)' <=> pc'[t] # "pend") /\ (OnHold(t)' <=> pc'[t] = "pend")
      BY <2>1, <2>2, <2>4, <2>6 DEF Active, OnHold
    <2>9. \A p \in Objects : p \in Range(free') <=> \A u \in Threads : own'[u] # p
      BY <1>1, <1>a, <2>1, <2>2, <2>3, <2>4 DEF ListInv
    <2>10. \A p \in Objects : p \in Range(active') <=> \E u \in Threads : own'[u] = p /\ Active(u)'
      BY <1>1, <2>3, <2>4, <2>6, <2>7, <2>8 DEF ListInv
    <2>11. \A p \in Objects : p \in Range(pending') <=> \E u \in Threads : own'[u] = p /\ OnHold(u)'
      BY <1>1, <2>3, <2>4, <2>6, <2>7, <2>8 DEF ListInv
    <2> QED
      BY <2>1, <2>6, <2>9, <2>10, <2>11 DEF ListInv, OneEach, Range
  <1>5. ASSUME NEW t \in Threads, TryAgain(t) PROVE ListInv'
    <2> DEFINE o == own[t]
    <2>1. /\ o \in Objects /\ o \notin Range(active) /\ o \notin Range(pending) /\ o \notin signalled
          /\ Activated(t, o) \/ Suspended(t, o)
      BY <1>5, AgainFacts
    <2>2. UNCHANGED <<free, own, signalled>> /\ pc[t] = "again"
      BY <1>5 DEF TryAgain
    <2>5. \A u \in Threads : u # t => pc'[u] = pc[u]
      BY <1>1, <2>1 DEF ThreadType, Activated, Suspended
    <2>6. /\ OneEach(active') /\ OneEach(pending')
          /\ pc'[t] = "pend" => Range(active') = Range(active) /\ Range(pending') = Range(pending) \cup {o}
          /\ pc'[t] # "pend" => Range(pending') = Range(pending) /\ Range(active') = Range(active) \cup {o}
          /\ pc'[t] # "again"
      BY <1>1, <2>1 DEF ThreadType, Activated, Suspended, ListInv
    <2>7. \A u \in Threads : u # t => (Active(u)' <=> Active(u)) /\ (OnHold(u)' <=> OnHold(u))
      BY <2>2, <2>5 DEF Active, OnHold
    <2>8. ~Active(t) /\ ~OnHold(t) /\ (Active(t)' <=> pc'[t] # "pend") /\ (OnHold(t)' <=> pc'[t] = "pend")
      BY <1>a, <2>1, <2>2, <2>6 DEF Active, OnHold
    <2>10. \A p \in Objects : p \in Range(active') <=> \E u \in Threads : own'[u] = p /\ Active(u)'
      BY <1>1, <2>2, <2>6, <2>7, <2>8 DEF ListInv
    <2>11. \A p \in Objects : p \in Range(pending') <=> \E u \in Threads : own'[u] = p /\ OnHold(u)'
      BY <1>1, <2>2, <2>6, <2>7, <2>8 DEF ListInv
    <2> QED
      BY <1>1, <2>2, <2>6, <2>10, <2>11 DEF ListInv, OneEach, Range
  <1>6. ASSUME NEW t \in Threads, ReleaseObj(t) PROVE ListInv'
    <2> DEFINE o == own[t]
    <2>1. /\ pc[t] = "release" /\ o \in Objects /\ o \in Range(active)
          /\ o \notin signalled /\ o \notin Range(free) /\ o \notin Range(pending)
          /\ \A u \in Threads : own[u] = o => u = t
          /\ pc' = [pc EXCEPT ![t] = "idle"] /\ own' = [own EXCEPT ![t] = 0]
          /\ OneEach(active') /\ Range(active') = Range(active) \ {o}
          /\ OneEach(free') /\ Range(free') = Range(free) \cup {o}
          /\ \/ UNCHANGED <<pending, signalled>>
             \/ \E p \in Range(pending) :
                    /\ signalled' = signalled \cup {p} /\ OneEach(pending')
                    /\ Range(pending') = Range(pending) \ {p}
      BY <1>6, ReleaseFacts
    <2>2. \A u \in Threads : u # t => own'[u] = own[u] /\ pc'[u] = pc[u]
      BY <1>1, <2>1 DEF ThreadType
    <2>3. own'[t] = 0 /\ pc'[t] = "idle"
      BY <1>1, <2>1 DEF ThreadType
    <2> HIDE DEF o
    <2>4. \A u \in Threads : u # t => (Active(u)' <=> Active(u))
      BY <2>2 DEF Active
    <2>5. ~Active(t)' /\ ~OnHold(t)' /\ ~OnHold(t)
      BY <2>1, <2>3 DEF Active, OnHold
    <2>6. \A p \in Objects : p \in Range(free') <=> \A u \in Threads : own'[u] # p
      BY <1>1, <1>a, <2>1, <2>2, <2>3 DEF ListInv, o
    <2>7. \A p \in Objects : p \in Range(active') <=> \E u \in Threads : own'[u] = p /\ Active(u)'
      BY <1>1, <2>1, <2>2, <2>4, <2>5 DEF ListInv, o
    <2>8. OneEach(pending') /\ \A p \in Objects : p \in Range(pending')
                                 <=> \E u \in Threads : own'[u] = p /\ OnHold(u)'
      <3>1. CASE UNCHANGED <<pending, signalled>>
        <4>1. \A u \in Threads : u # t => (OnHold(u)' <=> OnHold(u))
          BY <2>2, <3>1 DEF OnHold
        <4>2. \A p \in Objects : p \in Range(pending) <=> \E u \in Threads : own'[u] = p /\ OnHold(u)'
          BY <1>1, <2>2, <2>5, <4>1 DEF ListInv
        <4> QED
          BY <1>1, <3>1, <4>2 DEF ListInv, OneEach, Range
      <3>2. ASSUME NEW q \in Range(pending), signalled' = signalled \cup {q}, OneEach(pending'),
                   Range(pending') = Range(pending) \ {q}
            PROVE  OneEach(pending') /\ \A p \in Objects : p \in Range(pending')
                                 <=> \E u \in Threads : own'[u] = p /\ OnHold(u)'
        <4>1. \A u \in Threads : u # t => (OnHold(u)' <=> OnHold(u) /\ own[u] # q)
          BY <2>2, <3>2 DEF OnHold
        <4>2. \A p \in Objects : p \in Range(pending') <=> \E u \in Threads : own'[u] = p /\ OnHold(u)'
          BY <1>1, <2>2, <2>5, <3>2, <4>1 DEF ListInv
        <4> QED
          BY <3>2, <4>2
      <3> QED
        BY <2>1, <3>1, <3>2
    <2> QED
      BY <2>1, <2>6, <2>7, <2>8 DEF ListInv, OneEach, Range
  <1>7. ASSUME NEW t \in Threads, Woken(t) PROVE ListInv'
    <2>1. /\ pc[t] = "pend" /\ own[t] \in signalled /\ signalled' = signalled \ {own[t]}
          /\ pc' = [pc EXCEPT ![t] = "again"] /\ UNCHANGED <<free, active, pending, own>>
      BY <1>7 DEF Woken, Goto
    <2>2. own[t] # 0
      BY <2>1 DEF DriverInv, StageInv
    <2>3. \A u \in Threads : own[u] = own[t] => u = t
      BY <1>1, <2>2 DEF OwnInv
    <2>4. \A u \in Threads : (Active(u)' <=> Active(u)) /\ (OnHold(u)' <=> OnHold(u))
      BY <1>1, <2>1, <2>3 DEF Active, OnHold, ThreadType
    <2>5. \A p \in Objects : p \in Range(active) <=> \E u \in Threads : own'[u] = p /\ Active(u)'
      BY <1>1, <2>1, <2>4 DEF ListInv
    <2>6. \A p \in Objects : p \in Range(pending) <=> \E u \in Threads : own'[u] = p /\ OnHold(u)'
      BY <1>1, <2>1, <2>4 DEF ListInv
    <2> QED
      BY <1>1, <2>1, <2>5, <2>6 DEF ListInv, OneEach, Range
  <1>8. ASSUME NEW t \in Threads, Completed(t) PROVE Settled
    <2>1. /\ pc[t] = "wait" /\ signalled' = signalled \ {own[t]}
          /\ pc' = [pc EXCEPT ![t] = "release"] /\ UNCHANGED <<free, active, pending, own>>
      BY <1>8 DEF Completed, Goto
    <2>2. own[t] # 0
      BY <2>1 DEF DriverInv, StageInv
    <2>3. \A u \in Threads : own[u] = own[t] => u = t
      BY <1>1, <2>2 DEF OwnInv
    <2> QED
      BY <1>1, <2>1, <2>3 DEF Settled, ThreadType
  <1>9. ASSUME NEW t \in Threads, PoolEmpty(t) \/ SendCommand(t) \/ Sleep(t) \/ Wake(t) \/ EndCommand(t)
                       \/ LockTx(t) \/ SendRefused(t) \/ WaitTx(t)
        PROVE Settled
    BY <1>1, <1>9 DEF PoolEmpty, SendCommand, Sleep, Wake, EndCommand, LockTx, SendRefused, WaitTx,
                      Goto, Return, Settled, ThreadType, poolVars
  <1>10. ASSUME NEW t \in Threads, CheckUnread(t) PROVE Settled
    BY <1>1, <1>10 DEF CheckUnread, Goto, Go, Return, Settled, ThreadType, poolVars
  <1>11. ASSUME NEW t \in Threads, SendData(t) PROVE Settled
    <2>1. pc[t] = "data" /\ (pc' = [pc EXCEPT ![t] = "wait"] \/ pc' = [pc EXCEPT ![t] = "idle"])
      BY <1>11, SendFacts
    <2> QED
      BY <1>1, <1>11, <2>1 DEF SendData, Settled, ThreadType, poolVars
  <1>12. ASSUME Read, \/ UNCHANGED pc
                      \/ \E t \in Threads : pc[t] = "loop" /\ pc' = [pc EXCEPT ![t] = "done"]
         PROVE  Settled
    <2>1. ActiveFor(Head(wire)) \subseteq Range(active)
      BY DEF ActiveFor
    <2>2. /\ signalled \subseteq signalled' /\ signalled' \subseteq signalled \cup Range(active)
          /\ UNCHANGED <<free, active, pending, own>>
      BY <1>12, <2>1 DEF Read
    <2> QED
      BY <1>1, <1>12, <2>2 DEF Settled, ThreadType
  <1>13. ASSUME NEW t \in Threads, ReadInCommand(t) PROVE Settled
    BY <1>12, <1>13 DEF ReadInCommand, Goto
  <1>14. CASE ReadInSpawn
    BY <1>2, <1>12, <1>14 DEF ReadInSpawn
  <1>15. ASSUME NEW t \in Threads, DoneInCommand(t) PROVE Settled
    BY <1>1, <1>15, SignalledFacts DEF DoneInCommand, Goto, Settled, ThreadType
  <1>16. CASE SpawnDone
    BY <1>2, <1>16, SignalledFacts DEF SpawnDone, Settled, thrVars
  <1>17. CASE SpawnTake \/ SpawnLock \/ Interrupt \/ Answer \/ FreeBuffer \/ Event
    BY <1>2, <1>17 DEF SpawnTake, SpawnLock, Interrupt, Answer, Respond, Complete, FreeBuffer, Event,
                       NwpOnly, Settled, thrVars, poolVars
  <1>18. CASE UNCHANGED vars
    BY <1>2, <1>18 DEF vars, thrVars, poolVars, Settled
  <1> QED
    BY <1>2, <1>3, <1>4, <1>5, <1>6, <1>7, <1>8, <1>9, <1>10, <1>11, <1>13, <1>14, <1>15, <1>16,
       <1>17, <1>18
       DEF Next, Progress, Steps, Spawn

(* The bits of the bitmap are those of the active calls.                   *)
LEMMA KeyStep == ASSUME DriverInv, [Next]_vars PROVE KeyInv'
  <1>1. KeyInv /\ ListInv /\ OwnInv /\ ThreadType /\ PoolType
    BY DEF DriverInv, TypeOK, ThreadType, PoolType
  <1>a. Range(active) \subseteq Objects
    BY <1>1 DEF PoolType, Range
  <1>2. CASE UNCHANGED <<active, bitmap, objCall>>
    BY <1>1, <1>2 DEF KeyInv, Range
  <1>3. ASSUME NEW o \in Objects, o \notin Range(active), NEW c,
               objCall'[o] = c, \A p \in Objects : p # o => objCall'[p] = objCall[p],
               Range(active') = Range(active) \cup {o},
               bitmap' = bitmap \cup {Key(c)}, Key(c) \notin bitmap
        PROVE  KeyInv'
    <2>1. \A p \in Range(active) : objCall'[p] = objCall[p]
      BY <1>a, <1>3
    <2>2. bitmap' = {Key(objCall'[p]) : p \in Range(active')}
      BY <1>1, <1>3, <2>1 DEF KeyInv
    <2>3. \A p \in Range(active) : Key(objCall'[p]) # Key(c)
      BY <1>1, <1>3, <2>1 DEF KeyInv
    <2>4. ASSUME NEW p \in Range(active'), NEW q \in Range(active'), Key(objCall'[p]) = Key(objCall'[q])
          PROVE  p = q
      BY <1>1, <1>3, <2>1, <2>3, <2>4 DEF KeyInv
    <2> QED
      BY <2>2, <2>4 DEF KeyInv, Range, Key
  <1>4. ASSUME NEW t \in Threads, TakeObj(t) PROVE KeyInv'
    <2>1. PICK o \in Objects :
               /\ o \notin Range(active) /\ o \notin Range(pending)
               /\ objCall' = [objCall EXCEPT ![o] = call[t]]
               /\ Activated(t, o) \/ Suspended(t, o)
      BY <1>4, TakeFacts
    <2>2. objCall'[o] = call[t] /\ \A p \in Objects : p # o => objCall'[p] = objCall[p]
      BY <1>1, <2>1 DEF PoolType
    <2>3. CASE Activated(t, o)
      BY <1>3, <2>1, <2>2, <2>3 DEF Activated
    <2>4. CASE Suspended(t, o)
      <3>1. active' = active /\ bitmap' = bitmap
        BY <2>4 DEF Suspended
      <3>2. \A p \in Range(active) : objCall'[p] = objCall[p]
        BY <1>a, <2>1, <2>2
      <3>3. bitmap = {Key(objCall'[p]) : p \in Range(active)}
        BY <1>1, <3>2 DEF KeyInv
      <3>4. \A p, q \in Range(active) : Key(objCall'[p]) = Key(objCall'[q]) => p = q
        BY <1>1, <3>2 DEF KeyInv
      <3> QED
        BY <3>1, <3>3, <3>4 DEF KeyInv, Range, Key
    <2> QED
      BY <2>1, <2>3, <2>4
  <1>5. ASSUME NEW t \in Threads, TryAgain(t) PROVE KeyInv'
    <2>1. /\ own[t] \in Objects /\ own[t] \notin Range(active)
          /\ Activated(t, own[t]) \/ Suspended(t, own[t])
      BY <1>5, AgainFacts
    <2>2. UNCHANGED objCall
      BY <1>5 DEF TryAgain
    <2>3. objCall[own[t]] = call[t]
      BY <2>1 DEF DriverInv, OwnInv, Objects
    <2>4. CASE Activated(t, own[t])
      BY <1>3, <2>1, <2>2, <2>3, <2>4 DEF Activated
    <2>5. CASE Suspended(t, own[t])
      BY <1>2, <2>2, <2>5 DEF Suspended
    <2> QED
      BY <2>1, <2>4, <2>5
  <1>6. ASSUME NEW t \in Threads, ReleaseObj(t) PROVE KeyInv'
    <2>1. /\ own[t] \in Objects /\ own[t] \in Range(active)
          /\ objCall' = [objCall EXCEPT ![own[t]] = NoCall]
          /\ bitmap' = bitmap \ {Key(objCall[own[t]])}
          /\ Range(active') = Range(active) \ {own[t]}
      BY <1>6, ReleaseFacts
    <2>2. \A p \in Range(active') : objCall'[p] = objCall[p]
      BY <1>1, <1>a, <2>1 DEF PoolType
    <2>3. \A p \in Range(active') : Key(objCall[p]) # Key(objCall[own[t]])
      BY <1>1, <2>1 DEF KeyInv
    <2>4. bitmap' = {Key(objCall[p]) : p \in Range(active')}
      BY <1>1, <2>1, <2>3 DEF KeyInv
    <2>5. bitmap' = {Key(objCall'[p]) : p \in Range(active')}
      BY <2>2, <2>4
    <2>6. \A p, q \in Range(active') : Key(objCall'[p]) = Key(objCall'[q]) => p = q
      BY <1>1, <2>1, <2>2 DEF KeyInv
    <2> QED
      BY <2>5, <2>6 DEF KeyInv, Range, Key
  <1>7. ASSUME NEW t \in Threads, NEW c \in Calls, Begin(t, c) PROVE KeyInv'
    BY <1>2, <1>7 DEF Begin, poolVars
  <1>8. ASSUME NEW t \in Threads, PoolEmpty(t) \/ Woken(t) \/ Completed(t) \/ SendCommand(t) \/ Sleep(t)
                       \/ Wake(t) \/ ReadInCommand(t) \/ DoneInCommand(t) \/ EndCommand(t)
                       \/ CheckUnread(t) \/ LockTx(t) \/ SendRefused(t) \/ WaitTx(t) \/ SendData(t)
        PROVE KeyInv'
    BY <1>2, <1>8 DEF PoolEmpty, Woken, Completed, SendCommand, Sleep, Wake, ReadInCommand, Read,
                      DoneInCommand, EndCommand, CheckUnread, LockTx, SendRefused, WaitTx, SendData,
                      poolVars
  <1>9. CASE Spawn \/ Interrupt \/ Answer \/ FreeBuffer \/ Event
    BY <1>2, <1>9 DEF Spawn, SpawnTake, SpawnLock, ReadInSpawn, Read, SpawnDone, Interrupt,
                      Answer, Respond, Complete, FreeBuffer, Event, NwpOnly, poolVars
  <1>10. CASE UNCHANGED vars
    BY <1>2, <1>10 DEF vars, poolVars
  <1> QED
    BY <1>4, <1>5, <1>6, <1>7, <1>8, <1>9, <1>10 DEF Next, Progress, Steps

-----------------------------------------------------------------------------
(* Messages                                                                *)

(* What is on the wire after a message is read, or written.                *)
LEMMA WireRead ==
    ASSUME DriverInv, Read
    PROVE  /\ wire # <<>> /\ 1 \in DOMAIN wire /\ Head(wire) = wire[1]
           /\ \A i \in DOMAIN wire' : i \in Nat /\ i + 1 \in DOMAIN wire /\ i + 1 # 1
                                      /\ wire'[i] = wire[i + 1]
  <1>1. wire \in Seq(Messages) /\ wire # <<>> /\ wire' = Tail(wire)
    BY DEF DriverInv, TypeOK, Read
  <1>2. DOMAIN wire = 1..Len(wire) /\ Len(wire) \in Nat \ {0} /\ Head(wire) = wire[1]
    BY <1>1
  <1>3. DOMAIN wire' = 1..Len(wire) - 1 /\ \A i \in 1..Len(wire) - 1 : wire'[i] = wire[i + 1]
    BY <1>1
  <1> QED
    BY <1>1, <1>2, <1>3

LEMMA WireWritten ==
    ASSUME DriverInv, NEW m \in Messages, wire' = Append(wire, m)
    PROVE  /\ wire' # <<>>
           /\ \E n \in Nat : /\ n \notin DOMAIN wire /\ DOMAIN wire' = DOMAIN wire \cup {n}
                             /\ wire'[n] = m
                             /\ \A i \in DOMAIN wire : wire'[i] = wire[i]
  <1>1. wire \in Seq(Messages)
    BY DEF DriverInv, TypeOK
  <1>2. /\ DOMAIN wire = 1..Len(wire) /\ Len(wire) \in Nat
        /\ DOMAIN wire' = 1..Len(wire) + 1 /\ wire'[Len(wire) + 1] = m
        /\ \A i \in 1..Len(wire) : wire'[i] = wire[i]
    BY <1>1
  <1>3. Len(wire) + 1 \notin DOMAIN wire /\ DOMAIN wire' = DOMAIN wire \cup {Len(wire) + 1}
    BY <1>2
  <1> QED
    BY <1>1, <1>2, <1>3

(* The global lock is held by one: by a thread in its command or by the    *)
(* spawn thread that reads.                                                *)
LEMMA OneReader ==
    ASSUME DriverInv, NEW t \in Threads, pc[t] \in Cmd
    PROVE  /\ \A u \in Threads : pc[u] \in Cmd => u = t
           /\ sp \notin {"read", "done"}
  BY SlDriverAssumption DEF DriverInv, LockInv

(* While no command waits, there is no response.                           *)
LEMMA NoResponse ==
    ASSUME DriverInv, ~waited
    PROVE  asked = NoCall /\ Responses = {} /\ last.k # "resp"
  BY DEF DriverInv, CmdInv

(* A response is for the thread that waits in its command.                 *)
LEMMA CmdStep == ASSUME DriverInv, [Next]_vars PROVE CmdInv'
  <1>1. CmdInv /\ ThreadType /\ PoolType /\ LockInv
    BY DEF DriverInv, TypeOK, ThreadType, PoolType
  <1>2. ASSUME UNCHANGED <<asked, wire, last, waited>>,
               \A t \in Threads : pc[t] \in Cmd => pc'[t] = pc[t] /\ call'[t] = call[t]
        PROVE  CmdInv'
    <2>1. Responses' = Responses
      BY <1>2 DEF Responses
    <2> QED
      BY <1>1, <1>2, <2>1 DEF CmdInv, Cmd
  <1>3. ASSUME NEW t \in Threads, NEW c \in Calls, Begin(t, c) PROVE CmdInv'
    BY <1>1, <1>2, <1>3 DEF Begin, Goto, ThreadType, Cmd, rxVars, nwpVars
  <1>4. ASSUME NEW t \in Threads, TakeObj(t) \/ PoolEmpty(t) \/ Woken(t) \/ TryAgain(t) PROVE CmdInv'
    BY <1>1, <1>2, <1>4 DEF TakeObj, PoolEmpty, Woken, TryAgain, Activate, Suspend, Goto, Return,
                            ThreadType, Cmd, rxVars, nwpVars
  <1>5. ASSUME NEW t \in Threads, ReleaseObj(t) \/ Completed(t) \/ CheckUnread(t) PROVE CmdInv'
    BY <1>1, <1>2, <1>5 DEF ReleaseObj, Completed, CheckUnread, Goto, Go, Return,
                            ThreadType, Cmd, rxVars, nwpVars
  <1>6. ASSUME NEW t \in Threads, LockTx(t) \/ SendRefused(t) \/ WaitTx(t) PROVE CmdInv'
    BY <1>1, <1>2, <1>6 DEF LockTx, SendRefused, WaitTx, Goto, Return, ThreadType, Cmd, rxVars, nwpVars
  <1>7. ASSUME NEW t \in Threads, SendData(t) PROVE CmdInv'
    BY <1>1, <1>2, <1>7 DEF SendData, Goto, Go, Return, ThreadType, Cmd, rxVars
  <1>8. ASSUME NEW t \in Threads, SendCommand(t) PROVE CmdInv'
    <2>1. \A u \in Threads : pc[u] \notin Cmd
      BY <1>1, <1>8, SlDriverAssumption DEF SendCommand, LockInv
    <2>2. asked = NoCall /\ Responses = {} /\ last.k # "resp"
      BY <1>1, <2>1, NoResponse DEF LockInv
    <2>3. Responses' = Responses
      BY <1>8 DEF SendCommand, Responses
    <2>4. pc'[t] \in Cmd /\ asked' = call'[t] /\ waited' /\ last' = last
      BY <1>1, <1>8 DEF SendCommand, Goto, ThreadType, Cmd
    <2> QED
      BY <2>2, <2>3, <2>4 DEF CmdInv
  <1>9. ASSUME NEW t \in Threads, Sleep(t) \/ Wake(t) PROVE CmdInv'
    <2>1. pc[t] \in Cmd /\ pc[t] # "done" /\ pc'[t] \in Cmd /\ \A u \in Threads : u # t => pc'[u] = pc[u]
      BY <1>1, <1>9 DEF Sleep, Wake, Goto, ThreadType, Cmd
    <2>2. UNCHANGED <<asked, wire, last, waited, call>>
      BY <1>9 DEF Sleep, Wake, rxVars, nwpVars
    <2>3. last.k # "resp"
      BY <1>1, <2>1, OneReader DEF CmdInv, Cmd
    <2>4. Responses' = Responses
      BY <2>2 DEF Responses
    <2>5. \A u \in Threads : pc[u] \in Cmd => pc'[u] \in Cmd
      BY <2>1
    <2> QED
      BY <1>1, <2>2, <2>3, <2>4, <2>5 DEF CmdInv
  <1>10. ASSUME Read,
                \/ \E t \in Threads : pc[t] = "loop" /\ pc' = [pc EXCEPT ![t] = "done"] /\ waited
                \/ sp = "read" /\ UNCHANGED pc
         PROVE CmdInv'
    <2>1. /\ 1 \in DOMAIN wire /\ Head(wire) = wire[1]
          /\ \A i \in DOMAIN wire' : i \in Nat /\ i + 1 \in DOMAIN wire /\ i + 1 # 1
                                      /\ wire'[i] = wire[i + 1]
      BY <1>10, WireRead
    <2>2. last' = wire[1] /\ UNCHANGED <<asked, waited, call>>
      BY <1>10, <2>1 DEF Read
    <2>3. \A i \in Responses' : i \in Nat /\ i + 1 \in Responses /\ i + 1 # 1 /\ wire'[i] = wire[i + 1]
      BY <2>1 DEF Responses
    <2>4. \A u \in Threads : pc[u] \in Cmd => pc'[u] \in Cmd
      BY <1>1, <1>10 DEF ThreadType, Cmd
    <2>5. 1 \in Responses => Responses = {1} /\ asked = NoCall
      BY <1>1 DEF CmdInv
    <2>6. 1 \in Responses <=> last'.k = "resp"
      BY <2>1, <2>2 DEF Responses
    <2>7. asked' # NoCall => /\ \E t \in Threads : pc'[t] \in Cmd /\ asked' = call'[t]
                             /\ waited' /\ Responses' = {} /\ last'.k # "resp"
      BY <1>1, <2>2, <2>3, <2>4, <2>5, <2>6 DEF CmdInv
    <2>8. \A i \in Responses' :
             /\ \E t \in Threads : pc'[t] \in Cmd /\ wire'[i].c = call'[t]
             /\ waited' /\ Responses' = {i} /\ last'.k # "resp"
      <3>1. SUFFICES ASSUME NEW i \in Responses'
                     PROVE  /\ \E t \in Threads : pc'[t] \in Cmd /\ wire'[i].c = call'[t]
                            /\ waited' /\ Responses' = {i} /\ last'.k # "resp"
        OBVIOUS
      <3>2. i + 1 \in Responses /\ wire'[i] = wire[i + 1] /\ i \in Nat /\ i + 1 # 1
        BY <2>3
      <3>3. /\ \E t \in Threads : pc[t] \in Cmd /\ wire[i + 1].c = call[t]
            /\ waited /\ Responses = {i + 1}
        BY <1>1, <3>2 DEF CmdInv
      <3>4. ASSUME NEW j \in Responses' PROVE j = i
        <4>1. j \in Nat /\ j + 1 = i + 1
          BY <2>3, <3>3
        <4> QED
          BY <3>2, <4>1
      <3>5. last'.k # "resp"
        BY <2>6, <3>2, <3>3
      <3> QED
        BY <2>2, <2>4, <3>2, <3>3, <3>4, <3>5
    <2>9. last'.k = "resp" => waited' /\ \E t \in Threads : pc'[t] = "done" /\ last'.c = call'[t]
      <3>1. SUFFICES ASSUME last'.k = "resp" PROVE waited' /\ \E t \in Threads : pc'[t] = "done" /\ last'.c = call'[t]
        OBVIOUS
      <3>2. PICK u \in Threads : pc[u] \in Cmd /\ wire[1].c = call[u] /\ waited
        BY <1>1, <2>6, <3>1 DEF CmdInv
      <3>3. sp # "read" /\ \A v \in Threads : pc[v] \in Cmd => v = u
        BY <3>2, OneReader
      <3>4. pc'[u] = "done"
        BY <1>1, <1>10, <3>3 DEF ThreadType, Cmd
      <3> QED
        BY <2>2, <3>2, <3>4
    <2> QED
      BY <2>7, <2>8, <2>9 DEF CmdInv
  <1>11. ASSUME NEW t \in Threads, ReadInCommand(t) PROVE CmdInv'
    BY <1>10, <1>11 DEF ReadInCommand, Goto
  <1>12. CASE ReadInSpawn
    BY <1>10, <1>12 DEF ReadInSpawn
  <1>13. ASSUME NEW t \in Threads, DoneInCommand(t) PROVE CmdInv'
    <2>1. /\ pc[t] = "done" /\ pc' = [pc EXCEPT ![t] = "loop"] /\ waited' = (last.k # "resp")
          /\ last' = NoMessage /\ UNCHANGED <<asked, wire, call>>
      BY <1>13 DEF DoneInCommand, Goto, Forget, nwpVars
    <2>2. Responses' = Responses /\ last'.k # "resp"
      BY <2>1 DEF Responses, NoMessage
    <2>3. \A u \in Threads : pc[u] \in Cmd => pc'[u] \in Cmd
      BY <1>1, <2>1 DEF ThreadType, Cmd
    <2>4. last.k = "resp" => Responses = {} /\ asked = NoCall
      BY <1>1 DEF CmdInv
    <2>5. asked # NoCall \/ Responses # {} => waited'
      BY <2>1, <2>4
    <2> QED
      BY <1>1, <2>1, <2>2, <2>3, <2>5 DEF CmdInv
  <1>14. ASSUME NEW t \in Threads, EndCommand(t) PROVE CmdInv'
    <2>1. ~waited /\ UNCHANGED <<asked, wire, last>>
      BY <1>14 DEF EndCommand, rxVars, nwpVars
    <2>2. asked = NoCall /\ Responses = {} /\ last.k # "resp"
      BY <2>1, NoResponse
    <2>3. Responses' = Responses
      BY <2>1 DEF Responses
    <2> QED
      BY <2>1, <2>2, <2>3 DEF CmdInv
  <1>15. CASE SpawnDone
    <2>1. last' = NoMessage /\ UNCHANGED <<asked, wire, waited, pc, call>>
      BY <1>15 DEF SpawnDone, Forget, nwpVars, thrVars
    <2>2. Responses' = Responses /\ last'.k # "resp"
      BY <2>1 DEF Responses, NoMessage
    <2> QED
      BY <1>1, <2>1, <2>2 DEF CmdInv
  <1>16. ASSUME NEW ok \in BOOLEAN, Respond(ok) PROVE CmdInv'
    <2> DEFINE m == [k |-> "resp", c |-> asked, ok |-> ok]
    <2>1. /\ asked # NoCall /\ asked' = NoCall /\ wire' = Append(wire, m)
          /\ UNCHANGED <<last, waited, pc, call>>
      BY <1>16 DEF Respond, Says, NwpOnly, thrVars, rxVars
    <2>2. m \in Messages
      BY <1>1 DEF Messages, PoolType
    <2>3. PICK n \in Nat : /\ n \notin DOMAIN wire /\ DOMAIN wire' = DOMAIN wire \cup {n}
                           /\ wire'[n] = m /\ \A i \in DOMAIN wire : wire'[i] = wire[i]
      BY <2>1, <2>2, WireWritten
    <2>4. Responses = {} /\ waited /\ last.k # "resp" /\ \E t \in Threads : pc[t] \in Cmd /\ asked = call[t]
      BY <1>1, <2>1 DEF CmdInv
    <2>5. Responses' = {n}
      BY <2>3, <2>4 DEF Responses
    <2> QED
      BY <2>1, <2>3, <2>4, <2>5 DEF CmdInv
  <1>17. ASSUME NEW m \in Messages, m.k # "resp", wire' = Append(wire, m),
                UNCHANGED <<asked, last, waited, pc, call>>
         PROVE  CmdInv'
    <2>1. PICK n \in Nat : /\ n \notin DOMAIN wire /\ DOMAIN wire' = DOMAIN wire \cup {n}
                           /\ wire'[n] = m /\ \A i \in DOMAIN wire : wire'[i] = wire[i]
      BY <1>17, WireWritten
    <2>2. Responses' = Responses /\ \A i \in Responses : wire'[i] = wire[i]
      BY <1>17, <2>1 DEF Responses
    <2>3. asked' # NoCall => /\ \E t \in Threads : pc'[t] \in Cmd /\ asked' = call'[t]
                             /\ waited' /\ Responses' = {} /\ last'.k # "resp"
      BY <1>1, <1>17, <2>2 DEF CmdInv
    <2>4. \A i \in Responses' :
             /\ \E t \in Threads : pc'[t] \in Cmd /\ wire'[i].c = call'[t]
             /\ waited' /\ Responses' = {i} /\ last'.k # "resp"
      <3> SUFFICES ASSUME NEW i \in Responses'
                   PROVE  /\ \E t \in Threads : pc'[t] \in Cmd /\ wire'[i].c = call'[t]
                          /\ waited' /\ Responses' = {i} /\ last'.k # "resp"
        OBVIOUS
      <3>1. i \in Responses /\ wire'[i] = wire[i]
        BY <2>2
      <3>2. /\ \E t \in Threads : pc[t] \in Cmd /\ wire[i].c = call[t]
            /\ waited /\ Responses = {i} /\ last.k # "resp"
        BY <1>1, <3>1 DEF CmdInv
      <3> QED
        BY <1>17, <2>2, <3>1, <3>2
    <2>5. last'.k = "resp" => waited' /\ \E t \in Threads : pc'[t] = "done" /\ last'.c = call'[t]
      BY <1>1, <1>17 DEF CmdInv
    <2> QED
      BY <2>3, <2>4, <2>5 DEF CmdInv
  <1>18. ASSUME NEW c \in Calls, Complete(c) PROVE CmdInv'
    <2>1. [k |-> "done", c |-> c, ok |-> TRUE] \in Messages
      BY DEF Messages
    <2> QED
      BY <1>17, <1>18, <2>1 DEF Complete, Says, NwpOnly, thrVars, rxVars
  <1>19. CASE FreeBuffer \/ Event
    <2>1. /\ [k |-> "dummy", c |-> NoCall, ok |-> TRUE] \in Messages
          /\ [k |-> "event", c |-> NoCall, ok |-> TRUE] \in Messages
      BY DEF Messages
    <2> QED
      BY <1>17, <1>19, <2>1 DEF FreeBuffer, Event, Says, NwpOnly, thrVars, rxVars
  <1>20. CASE SpawnTake \/ SpawnLock \/ Interrupt
    BY <1>2, <1>20 DEF SpawnTake, SpawnLock, Interrupt, thrVars, nwpVars
  <1>21. CASE UNCHANGED vars
    BY <1>2, <1>21 DEF vars, thrVars, rxVars, nwpVars
  <1> QED
    BY <1>3, <1>4, <1>5, <1>6, <1>7, <1>8, <1>9, <1>11, <1>12, <1>13, <1>14, <1>15, <1>16, <1>18,
       <1>19, <1>20, <1>21
       DEF Next, Progress, Steps, Spawn, Answer

-----------------------------------------------------------------------------
(* Transmit buffers                                                        *)

(* A message that is read tells of no fewer buffers than were believed in, *)
(* and nobody else sends while a call holds the lock of the buffers.       *)
LEMMA TxStep == ASSUME DriverInv, [Next]_vars PROVE TxInv'
  <1>1. TxInv /\ ThreadType /\ LockInv /\ StageInv /\ "free" \notin Threads
    BY SlDriverAssumption DEF DriverInv, TypeOK, ThreadType
  <1>2. txCnt \in Nat /\ buffers \in Nat
    <2>1. CountType
      BY DEF DriverInv, TypeOK, CountType
    <2> QED
      BY <2>1, SlDriverAssumption DEF CountType
  <1>3. ASSUME UNCHANGED <<txCnt, buffers, txSync>>,
               \A t \in Threads : pc'[t] \in {"txwait", "data"} => pc'[t] = pc[t] /\ call'[t] = call[t]
        PROVE  TxInv'
    BY <1>1, <1>3 DEF TxInv, Reserve
  <1>4. ASSUME NEW t \in Threads, NEW c \in Calls, Begin(t, c) PROVE TxInv'
    <2>1. pc' = [pc EXCEPT ![t] = pc'[t]] /\ pc'[t] \in {"lock", "tx", "pool"}
      BY <1>1, <1>4 DEF Begin, Goto, ThreadType
    <2> QED
      BY <1>1, <1>3, <1>4, <2>1 DEF Begin, ThreadType, txVars, nwpVars
  <1>5. ASSUME NEW t \in Threads, TakeObj(t) \/ PoolEmpty(t) \/ Woken(t) \/ TryAgain(t) PROVE TxInv'
    BY <1>1, <1>3, <1>5 DEF TakeObj, PoolEmpty, Woken, TryAgain, Activate, Suspend, Goto, Return,
                            ThreadType, txVars, nwpVars
  <1>6. ASSUME NEW t \in Threads, ReleaseObj(t) \/ Completed(t) \/ CheckUnread(t) PROVE TxInv'
    BY <1>1, <1>3, <1>6 DEF ReleaseObj, Completed, CheckUnread, Goto, Go, Return,
                            ThreadType, txVars, nwpVars
  <1>7. ASSUME NEW t \in Threads, SendCommand(t) \/ Sleep(t) \/ Wake(t) \/ DoneInCommand(t) \/ EndCommand(t)
        PROVE TxInv'
    BY <1>1, <1>3, <1>7 DEF SendCommand, Sleep, Wake, DoneInCommand, EndCommand, Goto,
                            ThreadType, txVars, nwpVars
  <1>8. ASSUME Read,
               \A t \in Threads : pc'[t] \in {"txwait", "data"} => pc'[t] = pc[t] /\ call'[t] = call[t]
        PROVE  TxInv'
    <2>1. txCnt' = buffers /\ txCnt <= buffers /\ UNCHANGED buffers
          /\ txSync' = (txSync \/ buffers > FlowMin)
      BY <1>1, <1>8 DEF Read, TxInv
    <2>2. \A t \in Threads : Reserve(t) \in Nat
      BY DEF Reserve, FlowMin
    <2>3. \A t \in Threads : pc'[t] = "data" => txCnt' > Reserve(t)' /\ pc[t] = "data"
      BY <1>1, <1>2, <1>8, <2>1, <2>2 DEF TxInv, Reserve
    <2>4. txSync' /\ (\E t \in Threads : pc'[t] = "txwait") => txCnt' > FlowMin
      <3>1. (\E t \in Threads : pc'[t] = "txwait") => \E t \in Threads : pc[t] = "txwait"
        BY <1>8
      <3>2. txSync /\ (\E t \in Threads : pc'[t] = "txwait") => txCnt > FlowMin
        BY <1>1, <3>1 DEF TxInv
      <3>3. txCnt > FlowMin => buffers > FlowMin
        BY <1>2, <2>1 DEF FlowMin
      <3> QED
        BY <2>1, <3>2, <3>3
    <2> QED
      BY <1>2, <2>1, <2>3, <2>4 DEF TxInv
  <1>9. ASSUME NEW t \in Threads, ReadInCommand(t) PROVE TxInv'
    BY <1>1, <1>8, <1>9 DEF ReadInCommand, Read, Goto, ThreadType
  <1>10. CASE ReadInSpawn
    BY <1>8, <1>10 DEF ReadInSpawn, Read
  <1>11. ASSUME NEW t \in Threads, LockTx(t) PROVE TxInv'
    <2>1. /\ \A u \in Threads : pc[u] \notin {"txwait", "data"}
          /\ pc' = [pc EXCEPT ![t] = IF Short(t) THEN "txwait" ELSE "data"]
          /\ txSync' = FALSE /\ UNCHANGED <<txCnt, buffers, call>>
      BY <1>1, <1>11 DEF LockTx, Goto, LockInv, nwpVars
    <2>2. \A u \in Threads : pc'[u] = "data" => u = t /\ ~Short(t)
      BY <1>1, <2>1 DEF ThreadType
    <2>3. ~Short(t) => txCnt > Reserve(t)
      BY <1>2 DEF Short, Reserve, FlowMin
    <2> QED
      BY <1>1, <2>1, <2>2, <2>3 DEF TxInv, Reserve
  <1>12. ASSUME NEW t \in Threads, SendRefused(t) PROVE TxInv'
    <2>1. /\ \A u \in Threads : pc[u] \notin {"txwait", "data"}
          /\ pc' = [pc EXCEPT ![t] = "idle"]
          /\ txSync' = FALSE /\ UNCHANGED <<txCnt, buffers>>
      BY <1>1, <1>12 DEF SendRefused, Return, Goto, LockInv, nwpVars
    <2> QED
      BY <1>1, <2>1 DEF TxInv, ThreadType
  <1>13. ASSUME NEW t \in Threads, WaitTx(t) PROVE TxInv'
    <2>1. /\ pc[t] = "txwait" /\ txSync /\ txSync' = FALSE /\ UNCHANGED <<txCnt, buffers, call>>
          /\ \/ call[t].kind = "send" /\ Short(t) /\ pc' = [pc EXCEPT ![t] = "tx"]
             \/ ~(call[t].kind = "send" /\ Short(t)) /\ pc' = [pc EXCEPT ![t] = "data"]
      BY <1>13 DEF WaitTx, Goto, nwpVars
    <2>2. \A u \in Threads : u # t => pc[u] # "data"
      BY <1>1, <2>1 DEF LockInv
    <2>3. txCnt > FlowMin
      BY <1>1, <2>1 DEF TxInv
    <2>4. ~(call[t].kind = "send" /\ Short(t)) => txCnt > Reserve(t)
      BY <1>2, <2>3 DEF Short, Reserve, FlowMin
    <2>5. \A u \in Threads : pc'[u] = "data" => u = t /\ ~(call[t].kind = "send" /\ Short(t))
      BY <1>1, <2>1, <2>2 DEF ThreadType
    <2> QED
      BY <1>1, <2>1, <2>4, <2>5 DEF TxInv, Reserve
  <1>14. ASSUME NEW t \in Threads, SendData(t) PROVE TxInv'
    <2>1. /\ pc[t] = "data" /\ txCnt' = txCnt - 1 /\ buffers' = buffers - 1
          /\ pc' = [pc EXCEPT ![t] = "wait"] \/ pc' = [pc EXCEPT ![t] = "idle"]
      BY <1>14, SendFacts
    <2>2. \A u \in Threads : u # t => pc[u] \notin {"txwait", "data"}
      BY <1>1, <2>1 DEF LockInv
    <2>3. \A u \in Threads : pc'[u] \notin {"txwait", "data"}
      BY <1>1, <2>1, <2>2 DEF ThreadType
    <2> QED
      BY <1>1, <1>2, <2>1, <2>3 DEF TxInv
  <1>15. CASE SpawnTake \/ SpawnLock \/ SpawnDone \/ Interrupt \/ Answer \/ Event
    BY <1>3, <1>15 DEF SpawnTake, SpawnLock, SpawnDone, Interrupt, Answer, Respond, Complete, Event,
                       NwpOnly, thrVars, txVars, nwpVars
  <1>16. CASE FreeBuffer
    <2>1. buffers' = buffers + 1 /\ UNCHANGED <<txCnt, txSync, pc, call>>
      BY <1>16 DEF FreeBuffer, NwpOnly, thrVars, txVars
    <2> QED
      BY <1>1, <1>2, <2>1 DEF TxInv, Reserve
  <1>17. CASE UNCHANGED vars
    BY <1>3, <1>17 DEF vars, thrVars, txVars, nwpVars
  <1> QED
    BY <1>4, <1>5, <1>6, <1>7, <1>9, <1>10, <1>11, <1>12, <1>13, <1>14, <1>15, <1>16, <1>17
       DEF Next, Progress, Steps, Spawn

-----------------------------------------------------------------------------
(* Unread messages                                                         *)

(* Nobody has a command while the spawn thread reads.                      *)
LEMMA SpawnAlone ==
    ASSUME DriverInv, sp \in {"read", "done"}
    PROVE  /\ \A t \in Threads : pc[t] \notin Cmd
           /\ ~waited
  BY SlDriverAssumption DEF DriverInv, LockInv

(* A message masks the interrupt until it is read, and it is counted until *)
(* it is handled.                                                          *)
LEMMA UnreadStep == ASSUME DriverInv, [Next]_vars PROVE UnreadInv'
  <1>1. UnreadInv /\ ThreadType /\ LockInv
    BY DEF DriverInv, TypeOK, ThreadType
  <1>2. ASSUME UNCHANGED <<unread, raised, masked>>, wire' = wire \/ wire' # <<>>,
               sp' = "done" <=> sp = "done",
               \A t \in Threads : pc'[t] = "done" <=> pc[t] = "done"
        PROVE  UnreadInv'
    <2>1. Reading' = Reading
      BY <1>2 DEF Reading
    <2> QED
      BY <1>1, <1>2, <2>1 DEF UnreadInv
  <1>3. ASSUME NEW t \in Threads, NEW c \in Calls, Begin(t, c) PROVE UnreadInv'
    <2>1. pc[t] = "idle" /\ pc' = [pc EXCEPT ![t] = pc'[t]] /\ pc'[t] \in {"lock", "tx", "pool"}
      BY <1>1, <1>3 DEF Begin, Goto, ThreadType
    <2> QED
      BY <1>1, <1>2, <1>3, <2>1 DEF Begin, ThreadType, rxVars, nwpVars
  <1>4. ASSUME NEW t \in Threads, TakeObj(t) \/ PoolEmpty(t) \/ Woken(t) \/ TryAgain(t) PROVE UnreadInv'
    BY <1>1, <1>2, <1>4 DEF TakeObj, PoolEmpty, Woken, TryAgain, Activate, Suspend, Goto, Return,
                            ThreadType, rxVars, nwpVars
  <1>5. ASSUME NEW t \in Threads, ReleaseObj(t) \/ Completed(t) \/ CheckUnread(t) PROVE UnreadInv'
    BY <1>1, <1>2, <1>5 DEF ReleaseObj, Completed, CheckUnread, Goto, Go, Return,
                            ThreadType, rxVars, nwpVars
  <1>6. ASSUME NEW t \in Threads, SendCommand(t) \/ Sleep(t) \/ Wake(t) \/ EndCommand(t)
        PROVE UnreadInv'
    BY <1>1, <1>2, <1>6 DEF SendCommand, Sleep, Wake, EndCommand, Goto, ThreadType, rxVars, nwpVars
  <1>7. ASSUME NEW t \in Threads, LockTx(t) \/ SendRefused(t) \/ WaitTx(t) \/ SendData(t)
        PROVE UnreadInv'
    BY <1>1, <1>2, <1>7 DEF LockTx, SendRefused, WaitTx, SendData, Goto, Go, Return,
                            ThreadType, rxVars, nwpVars
  <1>8. ASSUME Read, ~Reading, Reading' PROVE UnreadInv'
    <2>1. unread > 0 /\ raised' = raised - 1 /\ ~masked' /\ UNCHANGED unread
      BY <1>8 DEF Read
    <2>2. masked
      BY <1>1, <1>8, <2>1 DEF UnreadInv
    <2>3. unread = 1 /\ raised = 1
      BY <1>1, <1>8, <2>2 DEF UnreadInv
    <2>4. unread' = 1 /\ raised' = 0
      BY <2>1, <2>3
    <2>5. unread' = (IF masked' THEN 1 ELSE 0) + (IF Reading' THEN 1 ELSE 0)
      BY <1>8, <2>1, <2>4
    <2>6. raised' = IF masked' THEN 1 ELSE 0
      BY <2>1, <2>4
    <2> QED
      BY <2>1, <2>5, <2>6 DEF UnreadInv
  <1>9. ASSUME NEW t \in Threads, ReadInCommand(t) PROVE UnreadInv'
    <2>1. pc[t] = "loop" /\ pc' = [pc EXCEPT ![t] = "done"] /\ Read
      BY <1>9 DEF ReadInCommand, Goto
    <2>2. ~Reading
      BY <2>1, OneReader DEF Reading, Cmd
    <2>3. Reading'
      BY <1>1, <2>1 DEF Reading, ThreadType
    <2> QED
      BY <1>8, <2>1, <2>2, <2>3
  <1>10. CASE ReadInSpawn
    <2>1. sp = "read" /\ sp' = "done" /\ Read
      BY <1>10 DEF ReadInSpawn
    <2>2. ~Reading /\ Reading'
      BY <2>1, SpawnAlone DEF Reading, Cmd
    <2> QED
      BY <1>8, <2>1, <2>2
  <1>11. ASSUME Reading, ~Reading', unread' = unread - 1, UNCHANGED <<raised, masked, wire>>
         PROVE  UnreadInv'
    <2>1. unread = (IF masked THEN 1 ELSE 0) + 1
      BY <1>1, <1>11 DEF UnreadInv
    <2>2. unread' = (IF masked' THEN 1 ELSE 0) + 0
      BY <1>11, <2>1
    <2> QED
      BY <1>1, <1>11, <2>2 DEF UnreadInv
  <1>12. ASSUME NEW t \in Threads, DoneInCommand(t) PROVE UnreadInv'
    <2>1. /\ pc[t] = "done" /\ pc' = [pc EXCEPT ![t] = "loop"] /\ unread' = unread - 1
          /\ UNCHANGED <<raised, masked, wire, sp>>
      BY <1>12 DEF DoneInCommand, Goto, nwpVars
    <2>2. sp # "done" /\ \A u \in Threads : u # t => pc[u] # "done"
      BY <2>1, OneReader DEF Cmd
    <2>3. ~Reading'
      BY <1>1, <2>1, <2>2 DEF Reading, ThreadType
    <2> QED
      BY <1>11, <2>1, <2>3 DEF Reading
  <1>13. CASE SpawnDone
    <2>1. /\ sp = "done" /\ sp' = "idle" /\ unread' = unread - 1
          /\ UNCHANGED <<raised, masked, wire, pc>>
      BY <1>13 DEF SpawnDone, nwpVars, thrVars
    <2>2. \A u \in Threads : pc[u] # "done"
      BY <2>1, SpawnAlone DEF Cmd
    <2>3. ~Reading'
      BY <2>1, <2>2 DEF Reading
    <2> QED
      BY <1>11, <2>1, <2>3 DEF Reading
  <1>14. CASE Interrupt
    <2>1. /\ ~masked /\ masked' /\ raised < Len(wire) /\ raised' = raised + 1 /\ unread' = unread + 1
          /\ UNCHANGED <<wire, sp, pc>>
      BY <1>14 DEF Interrupt, Mask, thrVars
    <2>2. raised = 0 /\ unread = IF Reading THEN 1 ELSE 0
      BY <1>1, <2>1 DEF UnreadInv
    <2>3. wire # <<>>
      BY <2>1, <2>2
    <2>4. Reading' = Reading
      BY <2>1 DEF Reading
    <2>5. raised' = 1 /\ unread' = 1 + IF Reading' THEN 1 ELSE 0
      BY <2>1, <2>2, <2>4
    <2> QED
      BY <2>1, <2>3, <2>5 DEF UnreadInv
  <1>15. ASSUME NEW m \in Messages, wire' = Append(wire, m), UNCHANGED <<rxVars, thrVars, raised>>
         PROVE  UnreadInv'
    BY <1>2, <1>15, WireWritten DEF rxVars, thrVars
  <1>16. ASSUME NEW ok \in BOOLEAN, Respond(ok) PROVE UnreadInv'
    <2>1. [k |-> "resp", c |-> asked, ok |-> ok] \in Messages
      BY DEF DriverInv, TypeOK, Messages
    <2> QED
      BY <1>15, <1>16, <2>1 DEF Respond, Says, NwpOnly
  <1>17. ASSUME NEW c \in Calls, Complete(c) PROVE UnreadInv'
    <2>1. [k |-> "done", c |-> c, ok |-> TRUE] \in Messages
      BY DEF Messages
    <2> QED
      BY <1>15, <1>17, <2>1 DEF Complete, Says, NwpOnly
  <1>18. CASE FreeBuffer \/ Event
    <2>1. /\ [k |-> "dummy", c |-> NoCall, ok |-> TRUE] \in Messages
          /\ [k |-> "event", c |-> NoCall, ok |-> TRUE] \in Messages
      BY DEF Messages
    <2> QED
      BY <1>15, <1>18, <2>1 DEF FreeBuffer, Event, Says, NwpOnly
  <1>19. CASE SpawnTake \/ SpawnLock
    BY <1>2, <1>19 DEF SpawnTake, SpawnLock, thrVars, nwpVars
  <1>20. CASE UNCHANGED vars
    BY <1>2, <1>20 DEF vars, thrVars, rxVars, nwpVars
  <1> QED
    BY <1>3, <1>4, <1>5, <1>6, <1>7, <1>9, <1>10, <1>12, <1>13, <1>14, <1>16, <1>17, <1>18,
       <1>19, <1>20
       DEF Next, Progress, Steps, Spawn, Answer

(* Somebody looks for an unread message: the thread in its command, or the *)
(* one that checks after the unlock, or the spawn thread.                  *)
Looks(t) == \/ pc[t] \in {"loop", "done", "check"}
            \/ pc[t] = "sleep" /\ cmdSync

LEMMA LookStep == ASSUME DriverInv, [Next]_vars PROVE LookInv'
  <1>1. LookInv /\ UnreadInv /\ ThreadType /\ LockInv
    BY DEF DriverInv, TypeOK, ThreadType
  <1>a. spawnQ \in Nat /\ SpawnSize \in Nat \ {0} /\ unread \in Nat
    <2>1. SpawnSize \in Nat \ {0}
      BY SlDriverAssumption
    <2>2. spawnQ \in 0..SpawnSize /\ unread \in 0..2
      BY DEF DriverInv, TypeOK
    <2> QED
      BY <2>1, <2>2
  <1>b. ASSUME unread' > 0 => \/ spawnQ' > 0 \/ sp' # "idle"
                              \/ \E t \in Threads : Looks(t)',
               sp' = "done" /\ masked' => spawnQ' > 0
        PROVE  LookInv'
    <2>1. UnreadIsRead'
      BY <1>b DEF UnreadIsRead, Looks
    <2> QED
      BY <1>b, <2>1 DEF LookInv
  <1>c. unread > 0 => spawnQ > 0 \/ sp # "idle" \/ \E t \in Threads : Looks(t)
    BY <1>1 DEF LookInv, UnreadIsRead, Looks
  <1>2. ASSUME UNCHANGED <<unread, spawnQ, sp, masked, cmdSync>>,
               \A t \in Threads : pc[t] \in {"loop", "done", "check", "sleep"} => pc'[t] = pc[t]
        PROVE  LookInv'
    <2>1. \A t \in Threads : Looks(t) => Looks(t)'
      BY <1>2 DEF Looks
    <2> QED
      BY <1>1, <1>2, <1>b, <1>c, <2>1 DEF LookInv
  <1>3. ASSUME NEW t \in Threads, NEW c \in Calls, Begin(t, c) PROVE LookInv'
    BY <1>1, <1>2, <1>3 DEF Begin, Goto, ThreadType, rxVars
  <1>4. ASSUME NEW t \in Threads, TakeObj(t) \/ PoolEmpty(t) \/ Woken(t) \/ TryAgain(t) PROVE LookInv'
    BY <1>1, <1>2, <1>4 DEF TakeObj, PoolEmpty, Woken, TryAgain, Activate, Suspend, Goto, Return,
                            ThreadType, rxVars
  <1>5. ASSUME NEW t \in Threads, ReleaseObj(t) \/ Completed(t) PROVE LookInv'
    BY <1>1, <1>2, <1>5 DEF ReleaseObj, Completed, Goto, Return, ThreadType, rxVars
  <1>6. ASSUME NEW t \in Threads, LockTx(t) \/ SendRefused(t) \/ WaitTx(t) \/ SendData(t)
        PROVE LookInv'
    BY <1>1, <1>2, <1>6 DEF LockTx, SendRefused, WaitTx, SendData, Goto, Go, Return,
                            ThreadType, rxVars
  <1>7. ASSUME NEW t \in Threads, SendCommand(t) PROVE LookInv'
    BY <1>1, <1>2, <1>7 DEF SendCommand, Goto, ThreadType, rxVars
  <1>8. ASSUME NEW t \in Threads, Sleep(t) PROVE LookInv'
    <2>1. unread' = 0 /\ UNCHANGED <<sp, masked, spawnQ>>
      BY <1>8 DEF Sleep, rxVars
    <2> QED
      BY <1>1, <1>b, <2>1 DEF LookInv
  <1>9. ASSUME NEW t \in Threads, pc[t] \in Cmd, pc'[t] \in {"loop", "done", "check"}, UNCHANGED sp
        PROVE  LookInv'
    <2>0. sp \notin {"read", "done"}
      BY <1>9, OneReader
    <2>1. sp' # "done"
      BY <1>9, <2>0
    <2>2. Looks(t)'
      BY <1>9 DEF Looks
    <2> QED
      BY <1>b, <2>1, <2>2
  <1>10. ASSUME NEW t \in Threads, Wake(t) \/ ReadInCommand(t) \/ DoneInCommand(t) \/ EndCommand(t)
         PROVE LookInv'
    BY <1>1, <1>9, <1>10 DEF Wake, ReadInCommand, DoneInCommand, EndCommand, Goto, ThreadType, Cmd, rxVars
  <1>11. ASSUME NEW t \in Threads, CheckUnread(t) PROVE LookInv'
    <2>1. /\ spawnQ' = (IF unread > 0 THEN spawnQ + 1 ELSE spawnQ)
          /\ UNCHANGED <<unread, sp, masked>>
      BY <1>11 DEF CheckUnread, LeftOver
    <2>2. (unread' > 0 => spawnQ' > 0) /\ (spawnQ > 0 => spawnQ' > 0)
      BY <1>a, <2>1
    <2>3. sp' = "done" /\ masked' => spawnQ' > 0
      BY <1>1, <2>1, <2>2 DEF LookInv
    <2> QED
      BY <1>b, <2>2, <2>3
  <1>12. CASE ReadInSpawn
    <2>1. sp' = "done" /\ ~masked'
      BY <1>12 DEF ReadInSpawn, Read
    <2> QED
      BY <1>b, <2>1
  <1>13. CASE SpawnTake
    <2>1. sp' = "lock"
      BY <1>13 DEF SpawnTake
    <2> QED
      BY <1>b, <2>1
  <1>14. CASE SpawnLock
    <2>1. (unread' = 0 /\ sp' = "idle") \/ sp' = "read"
      BY <1>14 DEF SpawnLock
    <2>2. unread' > 0 => sp' # "idle"
      BY <2>1
    <2> QED
      BY <1>b, <2>1, <2>2
  <1>15. CASE SpawnDone
    <2>1. sp = "done" /\ sp' = "idle" /\ unread' = unread - 1 /\ UNCHANGED <<masked, spawnQ>>
      BY <1>15 DEF SpawnDone
    <2>2. ~masked => unread = 0 + 1
      BY <1>1, <2>1 DEF UnreadInv, Reading
    <2>3. ~masked => unread' = 0
      BY <2>1, <2>2
    <2>4. masked => spawnQ' > 0
      BY <1>1, <2>1 DEF LookInv
    <2>5. unread' > 0 => spawnQ' > 0
      BY <2>3, <2>4
    <2> QED
      BY <1>b, <2>1, <2>5
  <1>16. CASE Interrupt
    <2>1. CASE waited
      <3>1. PICK t \in Threads : pc[t] \in Cmd
        BY <1>1, <2>1 DEF LockInv
      <3>2. cmdSync' /\ UNCHANGED <<pc, sp>>
        BY <1>16, <2>1 DEF Interrupt, thrVars
      <3>3. Looks(t)'
        BY <3>1, <3>2 DEF Looks, Cmd
      <3>4. sp' # "done"
        BY <3>1, <3>2, OneReader
      <3> QED
        BY <1>b, <3>3, <3>4
    <2>2. CASE ~waited
      <3>1. spawnQ' = spawnQ + 1 \/ (~(spawnQ < SpawnSize) /\ spawnQ' = spawnQ)
        BY <1>16, <2>2 DEF Interrupt
      <3>2. spawnQ' > 0
        BY <1>a, <3>1
      <3> QED
        BY <1>b, <3>2
    <2> QED
      BY <2>1, <2>2
  <1>17. CASE Answer \/ FreeBuffer \/ Event
    BY <1>2, <1>17 DEF Answer, Respond, Complete, FreeBuffer, Event, NwpOnly, thrVars, rxVars
  <1>18. CASE UNCHANGED vars
    BY <1>2, <1>18 DEF vars, thrVars, rxVars
  <1> QED
    BY <1>3, <1>4, <1>5, <1>6, <1>7, <1>8, <1>10, <1>11, <1>12, <1>13, <1>14, <1>15, <1>16, <1>17,
       <1>18
       DEF Next, Progress, Steps, Spawn

(* A thread calls for the spawn thread once for each command, and the      *)
(* interrupt once for each message that nobody waits for: the queue has    *)
(* room for all of them, as the spawn thread goes first.                   *)
LEMMA SpawnStep == ASSUME DriverInv, [Next]_vars PROVE SpawnInv'
  <1> DEFINE n == Cardinality(Threads)
  <1>1. SpawnInv /\ ThreadType /\ LockInv
    BY DEF DriverInv, TypeOK, ThreadType
  <1>2. n \in Nat
    BY SpawnAssumption, FS_CardinalityType
  <1>3. Callers \subseteq Threads /\ Callers' \subseteq Threads
    BY DEF Callers
  <1>4. /\ IsFiniteSet(Callers) /\ IsFiniteSet(Callers') /\ InUse \in Nat /\ InUse' \in Nat /\ InUse' <= n
    BY <1>3, SpawnAssumption, FS_Subset, FS_CardinalityType DEF InUse
  <1>5. spawnQ \in Nat
    <2>1. spawnQ \in 0..SpawnSize
      BY DEF DriverInv, TypeOK
    <2> QED
      BY <2>1, SlDriverAssumption
  <1>6. Taken \in Nat /\ Spare \in Nat /\ Taken' \in Nat /\ Spare' \in Nat
    BY DEF Taken, Spare
  <1>c. Taken' <= 1 /\ Spare <= 1
    BY DEF Taken, Spare
  <1>7. spawnQ + Taken + InUse <= n + Spare
    BY <1>1 DEF SpawnInv
  <1> HIDE DEF n
  <1>8. ASSUME spawnQ' + Taken' + InUse' <= n + Spare' PROVE SpawnInv'
    BY <1>8 DEF SpawnInv, n
  <1>9. ASSUME \A t \in Threads : pc'[t] \in Cmd \cup {"check"} <=> pc[t] \in Cmd \cup {"check"}
        PROVE  InUse' = InUse
    <2>1. Callers' = Callers
      BY <1>9 DEF Callers
    <2> QED
      BY <2>1 DEF InUse
  <1>10. ASSUME UNCHANGED <<spawnQ, sp, masked, waited>>,
                \A t \in Threads : pc'[t] \in Cmd \cup {"check"} <=> pc[t] \in Cmd \cup {"check"}
         PROVE  SpawnInv'
    <2>1. Taken' = Taken /\ Spare' = Spare
      BY <1>10 DEF Taken, Spare
    <2> QED
      BY <1>7, <1>8, <1>9, <1>10, <2>1
  <1>11. ASSUME NEW t \in Threads, NEW c \in Calls, Begin(t, c) PROVE SpawnInv'
    <2>1. pc[t] = "idle" /\ pc' = [pc EXCEPT ![t] = pc'[t]] /\ pc'[t] \in {"lock", "tx", "pool"}
      BY <1>1, <1>11 DEF Begin, Goto, ThreadType
    <2> QED
      BY <1>1, <1>10, <1>11, <2>1 DEF Begin, Cmd, ThreadType, rxVars
  <1>12. ASSUME NEW t \in Threads, TakeObj(t) \/ PoolEmpty(t) \/ Woken(t) \/ TryAgain(t) PROVE SpawnInv'
    BY <1>1, <1>10, <1>12 DEF TakeObj, PoolEmpty, Woken, TryAgain, Activate, Suspend, Goto, Return,
                              Cmd, ThreadType, rxVars
  <1>13. ASSUME NEW t \in Threads, ReleaseObj(t) \/ Completed(t) PROVE SpawnInv'
    BY <1>1, <1>10, <1>13 DEF ReleaseObj, Completed, Goto, Return, Cmd, ThreadType, rxVars
  <1>14. ASSUME NEW t \in Threads, LockTx(t) \/ SendRefused(t) \/ WaitTx(t) \/ SendData(t)
         PROVE SpawnInv'
    BY <1>1, <1>10, <1>14 DEF LockTx, SendRefused, WaitTx, SendData, Goto, Go, Return,
                              Cmd, ThreadType, rxVars
  <1>15. ASSUME NEW t \in Threads, Sleep(t) \/ Wake(t) \/ EndCommand(t) PROVE SpawnInv'
    BY <1>1, <1>10, <1>15 DEF Sleep, Wake, EndCommand, Goto, Cmd, ThreadType, rxVars
  <1>16. ASSUME NEW t \in Threads, SendCommand(t), ~SpawnFirst PROVE SpawnInv'
    <2>1. lock = "free" /\ UNCHANGED <<sp, spawnQ>>
      BY <1>16 DEF SendCommand
    <2>2. sp = "idle"
      BY <1>1, <1>16, <2>1 DEF SpawnFirst, LockInv, DriverInv, TypeOK
    <2>3. spawnQ' = 0
      BY <1>5, <1>16, <2>1, <2>2 DEF SpawnFirst
    <2>4. Taken' = 0
      BY <2>1, <2>2 DEF Taken
    <2>8. \A i, s \in Nat : i <= n => 0 + 0 + i <= n + s
      BY <1>2
    <2>9. spawnQ' + Taken' + InUse' <= n + Spare'
      BY <1>4, <1>6, <2>3, <2>4, <2>8
    <2> QED
      BY <1>8, <2>9
  <1>17. ASSUME NEW t \in Threads, ReadInCommand(t) \/ DoneInCommand(t) PROVE SpawnInv'
    <2>1. /\ pc[t] \in Cmd /\ pc' = [pc EXCEPT ![t] = pc'[t]] /\ pc'[t] \in Cmd
          /\ UNCHANGED <<spawnQ, sp>>
      BY <1>1, <1>17 DEF ReadInCommand, Read, DoneInCommand, Goto, Cmd, ThreadType
    <2>2. waited
      BY <1>1, <1>17 DEF ReadInCommand, DoneInCommand, LockInv
    <2>3. InUse' = InUse
      BY <1>1, <1>9, <2>1 DEF ThreadType
    <2>4. Taken' = Taken /\ Spare = 0
      BY <2>1, <2>2 DEF Taken, Spare
    <2>8. \A s \in Nat : spawnQ + Taken + InUse <= n + s
      BY <1>2, <1>4, <1>5, <1>6, <1>7, <2>4
    <2>9. spawnQ' + Taken' + InUse' <= n + Spare'
      BY <1>6, <2>1, <2>3, <2>4, <2>8
    <2> QED
      BY <1>8, <2>9
  <1>18. ASSUME NEW t \in Threads, CheckUnread(t) PROVE SpawnInv'
    <2>1. /\ pc[t] = "check" /\ pc' = [pc EXCEPT ![t] = pc'[t]] /\ pc'[t] \in {"idle", "wait", "release"}
          /\ UNCHANGED <<sp, masked, waited>>
      BY <1>1, <1>18 DEF CheckUnread, Go, Goto, Return, ThreadType
    <2>2. spawnQ' = spawnQ \/ spawnQ' = spawnQ + 1
      BY <1>18 DEF CheckUnread
    <2>3. Callers' = Callers \ {t} /\ t \in Callers
      BY <1>1, <2>1 DEF Callers, Cmd, ThreadType
    <2>4. InUse' = InUse - 1
      BY <1>4, <2>3, FS_RemoveElement DEF InUse
    <2>5. Taken' = Taken /\ Spare' = Spare
      BY <2>1 DEF Taken, Spare
    <2>9. spawnQ' + Taken' + InUse' <= n + Spare'
      BY <1>2, <1>4, <1>5, <1>6, <1>7, <2>2, <2>4, <2>5
    <2> QED
      BY <1>8, <2>9
  <1>19. CASE ReadInSpawn
    <2>1. sp = "read" /\ sp' = "done" /\ UNCHANGED <<pc, spawnQ>>
      BY <1>19 DEF ReadInSpawn, Read
    <2>2. InUse' = InUse
      BY <1>9, <2>1
    <2>3. Taken' = 0 /\ Taken = 1
      BY <2>1 DEF Taken
    <2>8. \A s \in Nat : spawnQ + 0 + InUse <= n + s
      BY <1>2, <1>4, <1>5, <1>6, <1>7, <1>c, <2>3
    <2>9. spawnQ' + Taken' + InUse' <= n + Spare'
      BY <1>6, <2>1, <2>2, <2>3, <2>8
    <2> QED
      BY <1>8, <2>9
  <1>20. CASE SpawnTake
    <2>1. sp = "idle" /\ sp' = "lock" /\ spawnQ' = spawnQ - 1 /\ UNCHANGED <<pc, masked, waited>>
      BY <1>20 DEF SpawnTake, thrVars
    <2>2. InUse' = InUse
      BY <1>9, <2>1
    <2>3. Taken' = 1 /\ Taken = 0 /\ Spare' = Spare
      BY <2>1 DEF Taken, Spare
    <2>9. spawnQ' + Taken' + InUse' <= n + Spare'
      BY <1>2, <1>4, <1>5, <1>6, <1>7, <2>1, <2>2, <2>3
    <2> QED
      BY <1>8, <2>9
  <1>21. CASE SpawnLock
    <2>1. sp = "lock" /\ UNCHANGED <<pc, spawnQ, masked, waited>>
      BY <1>21 DEF SpawnLock, thrVars
    <2>2. InUse' = InUse
      BY <1>9, <2>1
    <2>3. Taken = 1 /\ Spare' = Spare
      BY <2>1 DEF Taken, Spare
    <2>8. \A k \in Nat : k <= 1 => spawnQ + k + InUse <= n + Spare
      BY <1>2, <1>4, <1>5, <1>6, <1>7, <2>3
    <2>9. spawnQ' + Taken' + InUse' <= n + Spare'
      BY <1>6, <1>c, <2>1, <2>2, <2>3, <2>8
    <2> QED
      BY <1>8, <2>9
  <1>22. CASE SpawnDone
    <2>1. sp = "done" /\ sp' = "idle" /\ UNCHANGED <<pc, spawnQ, masked, waited>>
      BY <1>22 DEF SpawnDone, thrVars
    <2>2. InUse' = InUse
      BY <1>9, <2>1
    <2>3. Taken' = Taken /\ Spare' = Spare
      BY <2>1 DEF Taken, Spare
    <2>9. spawnQ' + Taken' + InUse' <= n + Spare'
      BY <1>7, <2>1, <2>2, <2>3
    <2> QED
      BY <1>8, <2>9
  <1>23. CASE Interrupt
    <2>1. ~masked /\ masked' /\ UNCHANGED <<pc, sp, waited>>
      BY <1>23 DEF Interrupt, Mask, thrVars
    <2>2. InUse' = InUse
      BY <1>9, <2>1
    <2>3. Taken' = Taken /\ Spare = 0
      BY <2>1 DEF Taken, Spare
    <2>4. CASE waited
      <3>1. spawnQ' = spawnQ
        BY <1>23, <2>4 DEF Interrupt
      <3>8. \A s \in Nat : spawnQ + Taken + InUse <= n + s
        BY <1>2, <1>4, <1>5, <1>6, <1>7, <2>3
      <3>9. spawnQ' + Taken' + InUse' <= n + Spare'
        BY <1>6, <2>2, <2>3, <3>1, <3>8
      <3> QED
        BY <1>8, <3>9
    <2>5. CASE ~waited
      <3>1. spawnQ' = spawnQ \/ spawnQ' = spawnQ + 1
        BY <1>23, <2>5 DEF Interrupt
      <3>2. Spare' = 1
        BY <2>1, <2>5 DEF Spare
      <3>9. spawnQ' + Taken' + InUse' <= n + Spare'
        BY <1>2, <1>4, <1>5, <1>6, <1>7, <2>2, <2>3, <3>1, <3>2
      <3> QED
        BY <1>8, <3>9
    <2> QED
      BY <2>4, <2>5
  <1>24. CASE Answer \/ FreeBuffer \/ Event
    BY <1>10, <1>24 DEF Answer, Respond, Complete, FreeBuffer, Event, NwpOnly, thrVars, rxVars
  <1>25. CASE UNCHANGED vars
    BY <1>10, <1>25 DEF vars, thrVars, rxVars
  <1> QED
    BY <1>11, <1>12, <1>13, <1>14, <1>15, <1>16, <1>17, <1>18, <1>19, <1>20, <1>21, <1>22, <1>23,
       <1>24, <1>25
       DEF Next, Progress, Steps, Spawn

-----------------------------------------------------------------------------
(* Results                                                                 *)

(* What is read stays said until the thread has looked at it.              *)
LEMMA SaidYesRead ==
    ASSUME DriverInv, Read, last.k # "resp", SaidYes
    PROVE  SaidYes'
  <1>1. PICK i \in Responses : wire[i].ok
    BY DEF SaidYes
  <1>2. 1 \in DOMAIN wire /\ last' = wire[1] /\ wire' = Tail(wire) /\ wire \in Seq(Messages) /\ wire # <<>>
    BY WireRead DEF Read, DriverInv, TypeOK
  <1>3. CASE i = 1
    BY <1>1, <1>2, <1>3 DEF SaidYes, Responses
  <1>4. CASE i # 1
    <2>1. i - 1 \in DOMAIN wire' /\ wire'[i - 1] = wire[i]
      BY <1>1, <1>2, <1>4 DEF Responses
    <2>2. i - 1 \in Responses'
      BY <1>1, <2>1 DEF Responses
    <2> QED
      BY <1>1, <2>1, <2>2 DEF SaidYes
  <1> QED
    BY <1>3, <1>4

LEMMA SaidYesWritten ==
    ASSUME DriverInv, NEW m \in Messages, wire' = Append(wire, m), UNCHANGED last, SaidYes
    PROVE  SaidYes'
  <1>1. PICK n \in Nat : /\ n \notin DOMAIN wire /\ DOMAIN wire' = DOMAIN wire \cup {n}
                         /\ wire'[n] = m /\ \A i \in DOMAIN wire : wire'[i] = wire[i]
    BY WireWritten
  <1>2. \A i \in Responses : i \in Responses' /\ wire'[i] = wire[i]
    BY <1>1 DEF Responses
  <1> QED
    BY <1>2 DEF SaidYes

(* A call that the network processor has taken on waits for its result     *)
(* until its object is signalled.                                          *)
StaysAccepted(t) == own'[t] = own[t] /\ call'[t] = call[t] /\ Accepted(t)'
HasResult(t) ==
    /\ own'[t] = own[t] /\ call'[t] = call[t]
    /\ own[t] \in signalled /\ signalled' = signalled \ {own[t]}

LEMMA AcceptedStep ==
    ASSUME DriverInv, [Next]_vars, NEW t \in Threads, Accepted(t)
    PROVE  /\ own'[t] = own[t] /\ call'[t] = call[t]
           /\ Accepted(t)' \/ (own[t] \in signalled /\ signalled' = signalled \ {own[t]})
  <1> SUFFICES StaysAccepted(t) \/ HasResult(t)
    BY DEF StaysAccepted, HasResult
  <1>1. ThreadType /\ LockInv /\ StageInv /\ CmdInv
    BY DEF DriverInv, TypeOK, ThreadType
  <1>a. own[t] # 0 /\ pc[t] \in Cmd \cup {"wait", "check"}
    BY DEF Accepted, Cmd
  <1>b. pc[t] \in Cmd /\ waited => SaidYes
    BY DEF Accepted, Cmd
  <1>2. ASSUME pc'[t] = pc[t], own'[t] = own[t], call'[t] = call[t], status'[t] = status[t],
               pc[t] \in Cmd => waited' = waited /\ (waited => SaidYes')
        PROVE  StaysAccepted(t)
    BY <1>2, <1>a DEF StaysAccepted, Accepted, Cmd
  <1>3. ASSUME pc'[t] = pc[t], own'[t] = own[t], call'[t] = call[t], status'[t] = status[t],
               UNCHANGED <<waited, wire, last>>
        PROVE  StaysAccepted(t)
    <2>1. SaidYes' = SaidYes
      BY <1>3 DEF SaidYes, Responses
    <2> QED
      BY <1>2, <1>3, <1>b, <2>1
  <1>4. ASSUME NEW u \in Threads, NEW c \in Calls, Begin(u, c) PROVE StaysAccepted(t)
    <2>1. u # t
      BY <1>4, <1>a DEF Begin, Cmd
    <2> QED
      BY <1>1, <1>3, <1>4, <2>1 DEF Begin, Goto, ThreadType, rxVars, nwpVars
  <1>5. ASSUME NEW u \in Threads, TakeObj(u) PROVE StaysAccepted(t)
    <2>1. u # t
      BY <1>5, <1>a DEF TakeObj, Cmd
    <2>2. PICK o \in Objects : own' = [own EXCEPT ![u] = o] /\ (Activated(u, o) \/ Suspended(u, o))
      BY <1>5, TakeFacts
    <2>3. own'[t] = own[t] /\ pc'[t] = pc[t]
      BY <1>1, <2>1, <2>2 DEF ThreadType, Activated, Suspended
    <2> QED
      BY <1>3, <1>5, <2>3 DEF TakeObj, rxVars, nwpVars
  <1>6. ASSUME NEW u \in Threads, PoolEmpty(u) \/ Woken(u) \/ TryAgain(u) PROVE StaysAccepted(t)
    <2>1. u # t
      BY <1>6, <1>a DEF PoolEmpty, Woken, TryAgain, Cmd
    <2> QED
      BY <1>1, <1>3, <1>6, <2>1 DEF PoolEmpty, Woken, TryAgain, Activate, Suspend, Goto, Return,
                                    ThreadType, rxVars, nwpVars
  <1>7. ASSUME NEW u \in Threads, ReleaseObj(u) PROVE StaysAccepted(t)
    <2>1. u # t
      BY <1>7, <1>a DEF ReleaseObj, Cmd
    <2>2. /\ pc' = [pc EXCEPT ![u] = "idle"] /\ call' = [call EXCEPT ![u] = NoCall]
          /\ own' = [own EXCEPT ![u] = 0]
      BY <1>7, ReleaseFacts
    <2> QED
      BY <1>1, <1>3, <1>7, <2>1, <2>2 DEF ReleaseObj, ThreadType, rxVars, nwpVars
  <1>8. ASSUME NEW u \in Threads, LockTx(u) \/ SendRefused(u) \/ WaitTx(u) PROVE StaysAccepted(t)
    <2>1. u # t
      BY <1>8, <1>a DEF LockTx, SendRefused, WaitTx, Cmd
    <2> QED
      BY <1>1, <1>3, <1>8, <2>1 DEF LockTx, SendRefused, WaitTx, Goto, Return,
                                    ThreadType, rxVars, nwpVars
  <1>9. ASSUME NEW u \in Threads, SendData(u) PROVE StaysAccepted(t)
    <2>1. u # t
      BY <1>9, <1>a DEF SendData, Cmd
    <2> QED
      BY <1>1, <1>3, <1>9, <2>1 DEF SendData, Goto, Go, Return, ThreadType, rxVars
  <1>10. ASSUME NEW u \in Threads, SendCommand(u) PROVE StaysAccepted(t)
    <2>1. u # t
      BY <1>10, <1>a DEF SendCommand, Cmd
    <2>2. pc[t] \notin Cmd
      BY <1>1, <1>10, SlDriverAssumption DEF SendCommand, LockInv
    <2> QED
      BY <1>1, <1>2, <1>10, <2>1, <2>2 DEF SendCommand, Goto, ThreadType
  <1>11. ASSUME NEW u \in Threads, Sleep(u) \/ Wake(u) PROVE StaysAccepted(t)
    <2>1. /\ UNCHANGED <<own, call, status, waited, wire, last>>
          /\ pc' = [pc EXCEPT ![u] = pc'[u]] /\ pc[u] \in Cmd /\ pc'[u] \in Cmd
      BY <1>1, <1>11 DEF Sleep, Wake, Goto, Cmd, ThreadType, rxVars, nwpVars
    <2>2. CASE u # t
      BY <1>1, <1>3, <2>1, <2>2 DEF ThreadType
    <2>3. CASE u = t
      <3>1. waited
        BY <1>1, <1>11 DEF Sleep, Wake, LockInv
      <3>2. SaidYes
        BY <1>b, <2>1, <2>3, <3>1
      <3>3. SaidYes'
        BY <2>1, <3>2 DEF SaidYes, Responses
      <3> QED
        BY <1>a, <2>1, <2>3, <3>1, <3>3 DEF StaysAccepted, Accepted
    <2> QED
      BY <2>2, <2>3
  <1>12. ASSUME NEW u \in Threads, ReadInCommand(u) PROVE StaysAccepted(t)
    <2>1. /\ pc[u] = "loop" /\ pc[u] \in Cmd /\ waited /\ waited' /\ Read
          /\ pc' = [pc EXCEPT ![u] = "done"] /\ UNCHANGED <<own, call, status>>
      BY <1>12 DEF ReadInCommand, Read, Goto, Cmd
    <2>2. CASE u # t
      <3>1. pc[t] \notin Cmd
        BY <2>1, <2>2, OneReader
      <3> QED
        BY <1>1, <1>2, <2>1, <2>2, <3>1 DEF ThreadType
    <2>3. CASE u = t
      <3>1. last.k # "resp"
        BY <1>1, <2>1, OneReader DEF CmdInv, Cmd
      <3>2. SaidYes'
        BY <1>b, <2>1, <2>3, <3>1, SaidYesRead
      <3>3. pc'[t] \in Cmd
        BY <1>1, <2>1, <2>3 DEF ThreadType, Cmd
      <3> QED
        BY <1>a, <2>1, <3>2, <3>3 DEF StaysAccepted, Accepted
    <2> QED
      BY <2>2, <2>3
  <1>13. ASSUME NEW u \in Threads, DoneInCommand(u) PROVE StaysAccepted(t)
    <2>1. /\ pc[u] = "done" /\ pc[u] \in Cmd /\ pc' = [pc EXCEPT ![u] = "loop"]
          /\ UNCHANGED <<own, call, wire>> /\ waited' = (last.k # "resp")
          /\ status' = IF last.k = "resp" THEN [status EXCEPT ![u] = last.ok] ELSE status
      BY <1>13 DEF DoneInCommand, Goto, Cmd, nwpVars
    <2>2. CASE u # t
      <3>1. pc[t] \notin Cmd
        BY <2>1, <2>2, OneReader
      <3>2. status'[t] = status[t] /\ pc'[t] = pc[t]
        BY <1>1, <2>1, <2>2 DEF ThreadType
      <3> QED
        BY <1>2, <2>1, <3>1, <3>2
    <2>3. CASE u = t
      <3>1. waited /\ SaidYes
        BY <1>1, <1>b, <2>1, <2>3 DEF LockInv
      <3>2. pc'[t] = "loop" /\ pc'[t] \in Cmd
        BY <1>1, <2>1, <2>3 DEF ThreadType, Cmd
      <3>3. CASE last.k = "resp"
        <4>1. Responses = {}
          BY <1>1, <3>3 DEF CmdInv
        <4>2. last.ok
          BY <3>1, <4>1 DEF SaidYes
        <4>3. ~waited'
          BY <2>1, <3>3
        <4>4. status'[t]
          BY <1>1, <2>1, <2>3, <3>3, <4>2 DEF ThreadType
        <4> QED
          BY <1>a, <2>1, <3>2, <4>3, <4>4 DEF StaysAccepted, Accepted
      <3>4. CASE last.k # "resp"
        <4>1. waited'
          BY <2>1, <3>4
        <4>2. SaidYes'
          BY <2>1, <3>1, <3>4 DEF SaidYes, Responses
        <4> QED
          BY <1>a, <2>1, <3>2, <4>1, <4>2 DEF StaysAccepted, Accepted
      <3> QED
        BY <3>3, <3>4
    <2> QED
      BY <2>2, <2>3
  <1>14. ASSUME NEW u \in Threads, EndCommand(u) PROVE StaysAccepted(t)
    <2>1. /\ pc[u] = "loop" /\ pc[u] \in Cmd /\ ~waited /\ pc' = [pc EXCEPT ![u] = "check"]
          /\ UNCHANGED <<own, call, status, waited, wire, last>>
      BY <1>14 DEF EndCommand, Goto, Cmd, rxVars, nwpVars
    <2>2. CASE u # t
      BY <1>1, <1>3, <2>1, <2>2 DEF ThreadType
    <2>3. CASE u = t
      <3>1. status[t]
        BY <2>1, <2>3 DEF StaysAccepted, Accepted
      <3>2. pc'[t] = "check" /\ status'[t] /\ own'[t] # 0
        BY <1>1, <1>a, <2>1, <2>3, <3>1 DEF ThreadType
      <3> QED
        BY <2>1, <3>2 DEF StaysAccepted, Accepted
    <2> QED
      BY <2>2, <2>3
  <1>15. ASSUME NEW u \in Threads, CheckUnread(u) PROVE StaysAccepted(t)
    <2>1. CASE u # t
      <3>1. pc'[t] = pc[t] /\ call'[t] = call[t] /\ status'[t] = status[t]
        BY <1>1, <1>15, <2>1 DEF CheckUnread, Go, Goto, Return, ThreadType
      <3> QED
        BY <1>3, <1>15, <3>1 DEF CheckUnread, nwpVars
    <2>2. CASE u = t
      <3>1. status[t] /\ pc[t] = "check"
        BY <1>15, <2>2 DEF CheckUnread, Accepted, Cmd
      <3>2. call[t].kind # "cmd"
        BY <1>1, <1>a DEF StageInv, Late
      <3>3. pc' = [pc EXCEPT ![t] = "wait"] /\ UNCHANGED <<call, own>>
        BY <1>15, <2>2, <3>1, <3>2 DEF CheckUnread, Go, Goto
      <3>4. pc'[t] = "wait" /\ own'[t] # 0
        BY <1>1, <1>a, <3>3 DEF ThreadType
      <3> QED
        BY <3>3, <3>4 DEF StaysAccepted, Accepted
    <2> QED
      BY <2>1, <2>2
  <1>16. ASSUME NEW u \in Threads, Completed(u) PROVE StaysAccepted(t) \/ HasResult(t)
    <2>1. CASE u # t
      BY <1>1, <1>3, <1>16, <2>1 DEF Completed, Goto, ThreadType, rxVars, nwpVars
    <2>2. CASE u = t
      BY <1>16, <2>2 DEF Completed, HasResult
    <2> QED
      BY <2>1, <2>2
  <1>17. CASE ReadInSpawn \/ SpawnDone
    <2>1. sp \in {"read", "done"} /\ UNCHANGED thrVars
      BY <1>17 DEF ReadInSpawn, Read, SpawnDone, thrVars
    <2>2. pc[t] \notin Cmd
      BY <2>1, SpawnAlone
    <2> QED
      BY <1>2, <2>1, <2>2 DEF thrVars
  <1>18. ASSUME NEW m \in Messages, wire' = Append(wire, m), UNCHANGED <<thrVars, rxVars>> PROVE StaysAccepted(t)
    <2>1. UNCHANGED <<pc, own, call, status, waited, last>>
      BY <1>18 DEF thrVars, rxVars
    <2>2. SaidYes => SaidYes'
      BY <1>18, <2>1, SaidYesWritten
    <2> QED
      BY <1>2, <1>b, <2>1, <2>2
  <1>19. ASSUME NEW ok \in BOOLEAN, Respond(ok) PROVE StaysAccepted(t)
    <2>1. [k |-> "resp", c |-> asked, ok |-> ok] \in Messages
      BY DEF DriverInv, TypeOK, Messages
    <2> QED
      BY <1>18, <1>19, <2>1 DEF Respond, Says, NwpOnly
  <1>20. ASSUME NEW c \in Calls, Complete(c) PROVE StaysAccepted(t)
    <2>1. [k |-> "done", c |-> c, ok |-> TRUE] \in Messages
      BY DEF Messages
    <2> QED
      BY <1>18, <1>20, <2>1 DEF Complete, Says, NwpOnly
  <1>21. CASE FreeBuffer \/ Event
    <2>1. /\ [k |-> "dummy", c |-> NoCall, ok |-> TRUE] \in Messages
          /\ [k |-> "event", c |-> NoCall, ok |-> TRUE] \in Messages
      BY DEF Messages
    <2> QED
      BY <1>18, <1>21, <2>1 DEF FreeBuffer, Event, Says, NwpOnly
  <1>22. CASE SpawnTake \/ SpawnLock \/ Interrupt
    BY <1>3, <1>22 DEF SpawnTake, SpawnLock, Interrupt, thrVars, nwpVars
  <1>23. CASE UNCHANGED vars
    BY <1>3, <1>23 DEF vars, thrVars, rxVars, nwpVars
  <1>24. ASSUME NEW u \in Threads, Steps(u) PROVE StaysAccepted(t) \/ HasResult(t)
    BY <1>5, <1>6, <1>7, <1>8, <1>9, <1>10, <1>11, <1>12, <1>13, <1>14, <1>15, <1>16, <1>24 DEF Steps
  <1>25. CASE Spawn \/ Interrupt \/ Answer \/ FreeBuffer \/ Event
    BY <1>17, <1>19, <1>20, <1>21, <1>22, <1>25 DEF Spawn, Answer
  <1> QED
    BY <1>4, <1>23, <1>24, <1>25 DEF Next, Progress

(* A call on hold stays there until it is woken.                           *)
LEMMA PendStep ==
    ASSUME DriverInv, [Next]_vars, NEW t \in Threads, pc[t] = "pend"
    PROVE  /\ own'[t] = own[t]
           /\ pc'[t] = "pend" \/ (own[t] \in signalled /\ signalled' = signalled \ {own[t]})
  <1>1. ThreadType
    BY DEF DriverInv, TypeOK, ThreadType
  <1>2. ASSUME NEW u \in Threads, NEW c \in Calls, Begin(u, c) PROVE own'[t] = own[t] /\ pc'[t] = "pend"
    BY <1>1, <1>2 DEF Begin, Goto, ThreadType
  <1>3. ASSUME NEW u \in Threads, TakeObj(u) PROVE own'[t] = own[t] /\ pc'[t] = "pend"
    <2>1. u # t
      BY <1>3 DEF TakeObj
    <2>2. PICK o \in Objects : own' = [own EXCEPT ![u] = o] /\ (Activated(u, o) \/ Suspended(u, o))
      BY <1>3, TakeFacts
    <2> QED
      BY <1>1, <2>1, <2>2 DEF ThreadType, Activated, Suspended
  <1>4. ASSUME NEW u \in Threads, Woken(u)
        PROVE  /\ own'[t] = own[t]
               /\ pc'[t] = "pend" \/ (own[t] \in signalled /\ signalled' = signalled \ {own[t]})
    BY <1>1, <1>4 DEF Woken, Goto, ThreadType
  <1>5. ASSUME NEW u \in Threads, PoolEmpty(u) \/ TryAgain(u) \/ Completed(u)
        PROVE  own'[t] = own[t] /\ pc'[t] = "pend"
    BY <1>1, <1>5 DEF PoolEmpty, TryAgain, Completed, Activate, Suspend, Goto, Return, ThreadType
  <1>6. ASSUME NEW u \in Threads, ReleaseObj(u) PROVE own'[t] = own[t] /\ pc'[t] = "pend"
    BY <1>1, <1>6, ReleaseFacts DEF ThreadType
  <1>7. ASSUME NEW u \in Threads, SendCommand(u) \/ Sleep(u) \/ Wake(u) \/ ReadInCommand(u)
        PROVE  own'[t] = own[t] /\ pc'[t] = "pend"
    BY <1>1, <1>7 DEF SendCommand, Sleep, Wake, ReadInCommand, Read, Goto, ThreadType
  <1>8. ASSUME NEW u \in Threads, DoneInCommand(u) \/ EndCommand(u) \/ CheckUnread(u)
        PROVE  own'[t] = own[t] /\ pc'[t] = "pend"
    BY <1>1, <1>8 DEF DoneInCommand, EndCommand, CheckUnread, Go, Goto, Return, ThreadType
  <1>9. ASSUME NEW u \in Threads, LockTx(u) \/ SendRefused(u) \/ WaitTx(u) \/ SendData(u)
        PROVE  own'[t] = own[t] /\ pc'[t] = "pend"
    BY <1>1, <1>9 DEF LockTx, SendRefused, WaitTx, SendData, Go, Goto, Return, ThreadType
  <1>10. CASE Spawn \/ Interrupt \/ Answer \/ FreeBuffer \/ Event
    BY <1>10 DEF Spawn, SpawnTake, SpawnLock, ReadInSpawn, Read, SpawnDone, Interrupt,
                 Answer, Respond, Complete, FreeBuffer, Event, NwpOnly, thrVars
  <1>11. CASE UNCHANGED vars
    BY <1>11 DEF vars, thrVars
  <1> QED
    BY <1>2, <1>3, <1>4, <1>5, <1>6, <1>7, <1>8, <1>9, <1>10, <1>11 DEF Next, Progress, Steps

(* Two active calls are never the same.                                    *)
LEMMA OneActive ==
    ASSUME DriverInv, NEW t \in Threads, NEW u \in Threads, Active(t), Active(u), call[t] = call[u]
    PROVE  t = u
  <1>1. own[t] # 0 /\ own[u] # 0 /\ own[t] \in 0..Pool /\ own[u] \in 0..Pool
    BY DEF Active, DriverInv, TypeOK
  <1>2. own[t] \in Objects /\ own[u] \in Objects
    BY <1>1, SlDriverAssumption DEF Objects
  <1>3. own[t] \in Range(active) /\ own[u] \in Range(active)
    BY <1>2 DEF DriverInv, ListInv
  <1>4. objCall[own[t]] = objCall[own[u]]
    BY <1>1 DEF DriverInv, OwnInv
  <1>5. own[t] = own[u]
    BY <1>3, <1>4 DEF DriverInv, KeyInv
  <1> QED
    BY <1>1, <1>5 DEF DriverInv, OwnInv

\* The result of the call of t is read now, or the handler of the one read is done.
ReadNow(t) ==
    /\ Len(wire') < Len(wire) /\ 1 \in Results /\ wire[1].c = call[t] /\ call[t].kind = "recv"
HandledNow(t) ==
    /\ last.k = "done" /\ last.c.kind # "recv" /\ last.c = call[t]
    /\ last' = NoMessage /\ UNCHANGED <<due, wire>>

(* The active object that a result is for is that of the call it answers.  *)
LEMMA HitFacts ==
    ASSUME DriverInv, NEW m, m.k = "done", NEW t \in Threads, Accepted(t), call[t] = m.c
    PROVE  ActiveFor(m) = {own[t]}
  <1>1. own[t] \in Range(active) /\ own[t] # 0
    BY AcceptedActive DEF Accepted
  <1>2. objCall[own[t]] = m.c
    BY <1>1 DEF DriverInv, OwnInv
  <1>3. ASSUME NEW o \in Range(active), objCall[o] = m.c PROVE o = own[t]
    BY <1>1, <1>2, <1>3 DEF DriverInv, KeyInv
  <1> QED
    BY <1>1, <1>2, <1>3 DEF ActiveFor

(* Who is signalled is on hold, or its result has come.                    *)
LEMMA SignalledBy ==
    ASSUME DriverInv, [Next]_vars, NEW o \in signalled', o \notin signalled
    PROVE  \E t \in Threads : /\ own[t] = o
                              /\ pc[t] = "pend" \/ (Accepted(t) /\ (ReadNow(t) \/ HandledNow(t)))
  <1> DEFINE Goal == \E t \in Threads :
                        /\ own[t] = o
                        /\ pc[t] = "pend" \/ (Accepted(t) /\ (ReadNow(t) \/ HandledNow(t)))
  <1>1. ASSUME NEW t \in Threads, ReleaseObj(t) PROVE Goal
    <2>1. PICK p \in Range(pending) : signalled' = signalled \cup {p}
      BY <1>1, ReleaseFacts
    <2>2. pending \in Seq(Objects) /\ o = p
      BY <2>1 DEF DriverInv, TypeOK
    <2>3. p \in Objects
      BY <2>1, <2>2 DEF Range
    <2> QED
      BY <2>1, <2>2, <2>3 DEF DriverInv, ListInv, OnHold
  <1>2. ASSUME Read PROVE Goal
    <2>1. wire # <<>> /\ 1 \in DOMAIN wire /\ Head(wire) = wire[1] /\ wire' = Tail(wire)
      BY <1>2, WireRead DEF Read
    <2>2. o \in ActiveFor(wire[1]) /\ wire[1].c.kind = "recv"
      BY <1>2, <2>1 DEF Read
    <2>3. wire[1].k = "done" /\ 1 \in Results
      BY <2>1, <2>2 DEF ActiveFor, Results
    <2>4. PICK t \in Threads : Accepted(t) /\ call[t] = wire[1].c
      BY <2>3 DEF DriverInv, ResultInv, Expected
    <2>5. o = own[t]
      BY <2>2, <2>3, <2>4, HitFacts
    <2>6. Len(wire') < Len(wire)
      <3>1. wire \in Seq(Messages)
        BY DEF DriverInv, TypeOK
      <3>2. Len(Tail(wire)) = Len(wire) - 1 /\ Len(wire) \in Nat
        BY <2>1, <3>1
      <3> QED
        BY <2>1, <3>2
    <2> QED
      BY <2>2, <2>3, <2>4, <2>5, <2>6 DEF ReadNow
  <1>3. ASSUME signalled' = Signalled, Forget, UNCHANGED <<due, wire>> PROVE Goal
    <2>1. last.k = "done" /\ last.c.kind # "recv" /\ o = found
      BY <1>3 DEF Signalled
    <2>2. PICK t \in Threads : Accepted(t) /\ call[t] = last.c /\ own[t] = found
      BY <2>1 DEF DriverInv, ResultInv
    <2> QED
      BY <1>3, <2>1, <2>2 DEF HandledNow, Forget
  <1>4. ASSUME signalled' \subseteq signalled PROVE Goal
    BY <1>4
  <1> SUFFICES Goal
    OBVIOUS
  <1> HIDE DEF Goal
  <1>5. ASSUME NEW t \in Threads, NEW c \in Calls, Begin(t, c) PROVE Goal
    BY <1>4, <1>5 DEF Begin, poolVars
  <1>6. ASSUME NEW t \in Threads, TakeObj(t) \/ PoolEmpty(t) \/ Woken(t) \/ TryAgain(t) \/ Completed(t)
        PROVE Goal
    BY <1>4, <1>6 DEF TakeObj, PoolEmpty, Woken, TryAgain, Completed, poolVars
  <1>7. ASSUME NEW t \in Threads, SendCommand(t) \/ Sleep(t) \/ Wake(t) \/ EndCommand(t) \/ CheckUnread(t)
                       \/ LockTx(t) \/ SendRefused(t) \/ WaitTx(t) \/ SendData(t)
        PROVE Goal
    BY <1>4, <1>7 DEF SendCommand, Sleep, Wake, EndCommand, CheckUnread, LockTx, SendRefused, WaitTx,
                      SendData, poolVars
  <1>8. ASSUME NEW t \in Threads, ReadInCommand(t) PROVE Goal
    BY <1>2, <1>8 DEF ReadInCommand
  <1>9. ASSUME NEW t \in Threads, DoneInCommand(t) PROVE Goal
    BY <1>3, <1>9 DEF DoneInCommand, nwpVars
  <1>10. CASE ReadInSpawn
    BY <1>2, <1>10 DEF ReadInSpawn
  <1>11. CASE SpawnDone
    BY <1>3, <1>11 DEF SpawnDone, nwpVars
  <1>12. CASE SpawnTake \/ SpawnLock \/ Interrupt \/ Answer \/ FreeBuffer \/ Event
    BY <1>4, <1>12 DEF SpawnTake, SpawnLock, Interrupt, Answer, Respond, Complete, FreeBuffer, Event,
                       NwpOnly, poolVars
  <1>13. CASE UNCHANGED vars
    BY <1>4, <1>13 DEF vars, poolVars
  <1> QED
    BY <1>1, <1>5, <1>6, <1>7, <1>8, <1>9, <1>10, <1>11, <1>12, <1>13
       DEF Next, Progress, Steps, Spawn

(* Signals go to calls that wait for them.                                 *)
LEMMA SigStep == ASSUME DriverInv, [Next]_vars PROVE SigInv'
  <1> SUFFICES ASSUME NEW o \in signalled'
               PROVE  \E t \in Threads : own'[t] = o /\ (pc'[t] = "pend" \/ Accepted(t)')
    BY DEF SigInv
  <1>1. PICK t \in Threads : own[t] = o /\ (pc[t] = "pend" \/ Accepted(t))
    <2>1. CASE o \in signalled
      BY <2>1 DEF DriverInv, SigInv
    <2>2. CASE o \notin signalled
      BY <2>2, SignalledBy
    <2> QED
      BY <2>1, <2>2
  <1>2. signalled' # signalled \ {o}
    OBVIOUS
  <1>3. CASE pc[t] = "pend"
    <2>1. own'[t] = o /\ pc'[t] = "pend"
      BY <1>1, <1>2, <1>3, PendStep
    <2> QED
      BY <2>1
  <1>4. CASE Accepted(t)
    <2>1. own'[t] = o /\ Accepted(t)'
      BY <1>1, <1>2, <1>4, AcceptedStep
    <2> QED
      BY <2>1
  <1> QED
    BY <1>1, <1>3, <1>4

(* A call waits for its result until that is read, or its handler done.    *)
LEMMA ExpectedStep ==
    ASSUME DriverInv, [Next]_vars, NEW t \in Threads, Accepted(t), own[t] \notin signalled,
           ~ReadNow(t), ~HandledNow(t)
    PROVE  /\ own'[t] = own[t] /\ call'[t] = call[t] /\ Accepted(t)'
           /\ own'[t] \notin signalled'
  <1>1. own'[t] = own[t] /\ call'[t] = call[t] /\ Accepted(t)'
    BY AcceptedStep
  <1>2. ASSUME own[t] \in signalled' PROVE FALSE
    <2>1. PICK u \in Threads : /\ own[u] = own[t]
                               /\ pc[u] = "pend" \/ (Accepted(u) /\ (ReadNow(u) \/ HandledNow(u)))
      BY <1>2, SignalledBy
    <2>2. u = t
      BY <2>1 DEF DriverInv, OwnInv, Accepted
    <2> QED
      BY <2>1, <2>2, AcceptedActive
  <1> QED
    BY <1>1, <1>2

\* After the step some call c waits for a result.
WillExpect(c) == \E t \in Threads : Accepted(t)' /\ call'[t] = c /\ own'[t] \notin signalled'

\* The network processor has just taken on the call c.
Fresh(c) == WillExpect(c) /\ \A t \in Threads : Accepted(t) => call[t] # c

(* A result has one call that waits for it, and a call one result.         *)
LEMMA ResultStep == ASSUME DriverInv, [Next]_vars PROVE ResultInv'
  <1>1. ResultInv /\ ThreadType /\ PoolType
    BY DEF DriverInv, TypeOK, ThreadType, PoolType
  <1>a. wire \in Seq(Messages)
    BY DEF DriverInv, TypeOK
  <1>2. ASSUME Results' = Results, \A i \in Results : wire'[i] = wire[i],
               ~(Len(wire') < Len(wire)),
               UNCHANGED <<last, found>> \/ last' = NoMessage,
               \A c \in due' : c \in due \/ Fresh(c)
        PROVE  ResultInv'
    <2>1. ASSUME NEW t \in Threads, Accepted(t), own[t] \notin signalled,
                 call[t] \in due \/ \E i \in Results : wire[i].c = call[t]
          PROVE  own'[t] = own[t] /\ call'[t] = call[t] /\ Accepted(t)' /\ own'[t] \notin signalled'
      <3>1. ~ReadNow(t)
        BY <1>2 DEF ReadNow
      <3>2. ~HandledNow(t)
        BY <1>1, <2>1 DEF HandledNow, ResultInv
      <3> QED
        BY <2>1, <3>1, <3>2, ExpectedStep
    <2>2. ASSUME NEW c, Expected(c), c \in due \/ \E i \in Results : wire[i].c = c
          PROVE  WillExpect(c)
      BY <2>1, <2>2 DEF Expected, WillExpect
    <2>3. \A c \in due' : WillExpect(c)
      BY <1>1, <1>2, <2>2 DEF ResultInv, Fresh
    <2>4. ASSUME NEW i \in Results' PROVE WillExpect(wire'[i].c) /\ wire'[i].c \notin due'
      <3>1. i \in Results /\ wire'[i] = wire[i] /\ Expected(wire[i].c) /\ wire[i].c \notin due
        BY <1>1, <1>2 DEF ResultInv
      <3>2. WillExpect(wire[i].c)
        BY <2>2, <3>1
      <3>3. ~Fresh(wire[i].c)
        BY <3>1 DEF Expected, Fresh
      <3> QED
        BY <1>2, <3>1, <3>2, <3>3
    <2>5. \A i, j \in Results' : wire'[i].c = wire'[j].c => i = j
      BY <1>1, <1>2 DEF ResultInv
    <2>6. ASSUME last'.k = "done", last'.c.kind # "recv"
          PROVE  /\ last'.c \notin due' /\ \A i \in Results' : wire'[i].c # last'.c
                 /\ \E t \in Threads : /\ Accepted(t)' /\ call'[t] = last'.c
                                       /\ own'[t] = found' /\ own'[t] \notin signalled'
      <3>1. UNCHANGED <<last, found>>
        BY <1>2, <2>6 DEF NoMessage
      <3>2. last.c \notin due /\ \A i \in Results : wire[i].c # last.c
        BY <1>1, <2>6, <3>1 DEF ResultInv
      <3>3. PICK t \in Threads : Accepted(t) /\ call[t] = last.c /\ own[t] = found /\ own[t] \notin signalled
        BY <1>1, <2>6, <3>1 DEF ResultInv
      <3>4. ~ReadNow(t) /\ ~HandledNow(t)
        BY <1>2, <2>6, <3>1 DEF ReadNow, HandledNow, NoMessage
      <3>5. own'[t] = own[t] /\ call'[t] = call[t] /\ Accepted(t)' /\ own'[t] \notin signalled'
        BY <3>3, <3>4, ExpectedStep
      <3>6. ~Fresh(last.c)
        BY <3>3 DEF Fresh
      <3>7. last.c \notin due' /\ \A i \in Results' : wire'[i].c # last.c
        BY <1>2, <3>2, <3>6
      <3> QED
        BY <3>1, <3>3, <3>5, <3>7
    <2> QED
      BY <2>3, <2>4, <2>5, <2>6 DEF ResultInv, Expected, WillExpect
  <1>3. ASSUME UNCHANGED <<due, wire>>, UNCHANGED <<last, found>> \/ last' = NoMessage PROVE ResultInv'
    <2>1. Results' = Results /\ \A i \in Results : wire'[i] = wire[i]
      BY <1>3 DEF Results
    <2>2. ~(Len(wire') < Len(wire))
      <3>1. Len(wire) \in Nat
        BY <1>a
      <3>2. ~(Len(wire) < Len(wire))
        BY <3>1
      <3> QED
        BY <1>3, <3>2
    <2> QED
      BY <1>2, <1>3, <2>1, <2>2
  <1>4. ASSUME NEW m \in Messages, wire' = Append(wire, m)
        PROVE  ~(Len(wire') < Len(wire))
    <2>1. Len(Append(wire, m)) = Len(wire) + 1 /\ Len(wire) \in Nat
      BY <1>a
    <2> QED
      BY <1>4, <2>1
  <1>5. ASSUME NEW m \in Messages, m.k # "done", wire' = Append(wire, m),
               UNCHANGED <<last, found>>, \A c \in due' : c \in due \/ Fresh(c)
        PROVE  ResultInv'
    <2>1. PICK n \in Nat : /\ n \notin DOMAIN wire /\ DOMAIN wire' = DOMAIN wire \cup {n}
                           /\ wire'[n] = m /\ \A i \in DOMAIN wire : wire'[i] = wire[i]
      BY <1>5, WireWritten
    <2>2. Results' = Results /\ \A i \in Results : wire'[i] = wire[i]
      BY <1>5, <2>1 DEF Results
    <2> QED
      BY <1>2, <1>4, <1>5, <2>2
  <1>6. ASSUME NEW t \in Threads, Active(t), ~Accepted(t),
               Accepted(t)', UNCHANGED <<own, call, signalled>>
        PROVE  Fresh(call[t])
    <2>1. own[t] \notin signalled
      BY <1>6 DEF DriverInv, SigInv, OwnInv, Active
    <2>2. WillExpect(call[t])
      BY <1>6, <2>1 DEF Expected, WillExpect
    <2>3. ASSUME NEW u \in Threads, Accepted(u) PROVE call[u] # call[t]
      <3>1. Active(u)
        BY <2>3, AcceptedActive DEF Active, Accepted
      <3> QED
        BY <1>6, <2>3, <3>1, OneActive
    <2> QED
      BY <2>2, <2>3 DEF Fresh
  <1>7. ASSUME NEW t \in Threads, SendData(t) PROVE ResultInv'
    <2>1. UNCHANGED <<own, signalled, wire, last, found>>
      BY <1>7 DEF SendData, poolVars, rxVars
    <2>2. Results' = Results /\ (\A i \in Results : wire'[i] = wire[i]) /\ ~(Len(wire') < Len(wire))
      <3>1. Len(wire) \in Nat
        BY <1>a
      <3>2. ~(Len(wire) < Len(wire))
        BY <3>1
      <3> QED
        BY <2>1, <3>2 DEF Results
    <2>3. CASE due' = due
      BY <1>3, <2>1, <2>3
    <2>4. CASE /\ call[t].kind = "recv" /\ pc' = [pc EXCEPT ![t] = "wait"] /\ UNCHANGED call
               /\ due' = due \cup {call[t]}
      <3>1. pc[t] = "data" /\ own[t] # 0
        BY <1>7, <2>4 DEF SendData, DriverInv, StageInv, Late
      <3>2. Active(t) /\ ~Accepted(t)
        BY <3>1 DEF Active, Accepted, Cmd
      <3>3. Accepted(t)'
        BY <1>1, <2>1, <2>4, <3>1 DEF Accepted, ThreadType
      <3>4. Fresh(call[t])
        BY <1>6, <2>1, <2>4, <3>2, <3>3
      <3> QED
        BY <1>2, <2>1, <2>2, <2>4, <3>4
    <2> QED
      BY <1>7, <2>3, <2>4, SendFacts
  <1>8. ASSUME NEW ok \in BOOLEAN, Respond(ok) PROVE ResultInv'
    <2> DEFINE m == [k |-> "resp", c |-> asked, ok |-> ok]
    <2>1. /\ asked # NoCall /\ wire' = Append(wire, m)
          /\ due' = (IF ok /\ asked.kind # "cmd" THEN due \cup {asked} ELSE due)
          /\ UNCHANGED <<pc, own, call, status, waited, signalled, last, found>>
      BY <1>8 DEF Respond, Says, NwpOnly, thrVars, rxVars, poolVars
    <2>2. m \in Messages /\ m.k # "done"
      BY <1>1 DEF Messages, PoolType
    <2>3. CASE due' = due
      BY <1>5, <2>1, <2>2, <2>3
    <2>4. CASE ok /\ asked.kind # "cmd" /\ due' = due \cup {asked}
      <3>1. PICK t \in Threads : pc[t] \in Cmd /\ asked = call[t] /\ waited /\ Responses = {} /\ last.k # "resp"
        BY <2>1 DEF DriverInv, CmdInv
      <3>2. own[t] # 0 /\ Active(t)
        BY <2>4, <3>1 DEF DriverInv, StageInv, Active, Late, Cmd
      <3>3. ~Accepted(t)
        BY <3>1 DEF Accepted, SaidYes, Cmd
      <3>4. SaidYes'
        <4>1. PICK n \in Nat : DOMAIN wire' = DOMAIN wire \cup {n} /\ wire'[n] = m
          BY <2>1, <2>2, WireWritten
        <4> QED
          BY <2>4, <4>1 DEF SaidYes, Responses
      <3>5. Accepted(t)'
        BY <2>1, <3>1, <3>2, <3>4 DEF Accepted
      <3>6. Fresh(asked)
        BY <1>6, <2>1, <3>1, <3>2, <3>3, <3>5
      <3> QED
        BY <1>5, <2>1, <2>2, <2>4, <3>6
    <2> QED
      BY <2>1, <2>3, <2>4
  <1>9. ASSUME NEW c \in Calls, Complete(c) PROVE ResultInv'
    <2> DEFINE m == [k |-> "done", c |-> c, ok |-> TRUE]
    <2>1. /\ c \in due /\ due' = due \ {c} /\ wire' = Append(wire, m)
          /\ UNCHANGED <<pc, own, call, status, waited, signalled, last, found>>
      BY <1>9 DEF Complete, Says, NwpOnly, thrVars, rxVars, poolVars
    <2>2. m \in Messages /\ m.k = "done" /\ m.c = c
      BY DEF Messages
    <2>3. PICK n \in Nat : /\ n \notin DOMAIN wire /\ DOMAIN wire' = DOMAIN wire \cup {n}
                           /\ wire'[n] = m /\ \A i \in DOMAIN wire : wire'[i] = wire[i]
      BY <2>1, <2>2, WireWritten
    <2> HIDE DEF m
    <2>4. Results' = Results \cup {n} /\ n \notin Results /\ \A i \in Results : wire'[i] = wire[i]
      BY <2>2, <2>3 DEF Results
    <2>5. ~(Len(wire') < Len(wire))
      BY <1>4, <2>1, <2>2
    <2>6. ASSUME NEW t \in Threads, Accepted(t), own[t] \notin signalled, last.k # "done" \/ last' = last
          PROVE  own'[t] = own[t] /\ call'[t] = call[t] /\ Accepted(t)' /\ own'[t] \notin signalled'
      <3>1. ~ReadNow(t) /\ ~HandledNow(t)
        BY <2>1, <2>5, <2>6 DEF ReadNow, HandledNow, NoMessage
      <3> QED
        BY <2>6, <3>1, ExpectedStep
    <2>7. \A d : Expected(d) => WillExpect(d)
      BY <2>1, <2>6 DEF Expected, WillExpect
    <2>8. \A d \in due' : WillExpect(d)
      BY <1>1, <2>1, <2>7 DEF ResultInv
    <2>9. \A i \in Results : WillExpect(wire'[i].c) /\ wire'[i].c \notin due /\ wire'[i].c # c
      BY <1>1, <2>1, <2>4, <2>7 DEF ResultInv
    <2>10. WillExpect(wire'[n].c) /\ wire'[n].c = c
      BY <1>1, <2>1, <2>2, <2>3, <2>7 DEF ResultInv
    <2>11. \A i \in Results' : WillExpect(wire'[i].c) /\ wire'[i].c \notin due'
      BY <2>1, <2>4, <2>9, <2>10
    <2>12. \A i, j \in Results' : wire'[i].c = wire'[j].c => i = j
      BY <1>1, <2>4, <2>9, <2>10 DEF ResultInv
    <2>13. ASSUME last'.k = "done", last'.c.kind # "recv"
           PROVE  /\ last'.c \notin due' /\ \A i \in Results' : wire'[i].c # last'.c
                  /\ \E t \in Threads : /\ Accepted(t)' /\ call'[t] = last'.c
                                        /\ own'[t] = found' /\ own'[t] \notin signalled'
      <3>1. last.c \notin due /\ \A i \in Results : wire[i].c # last.c
        BY <1>1, <2>1, <2>13 DEF ResultInv
      <3>2. PICK t \in Threads : Accepted(t) /\ call[t] = last.c /\ own[t] = found /\ own[t] \notin signalled
        BY <1>1, <2>1, <2>13 DEF ResultInv
      <3>3. own'[t] = own[t] /\ call'[t] = call[t] /\ Accepted(t)' /\ own'[t] \notin signalled'
        BY <2>1, <2>6, <3>2
      <3>4. last.c # c
        BY <2>1, <3>1
      <3>5. \A i \in Results' : wire'[i].c # last.c
        BY <2>4, <2>10, <3>1, <3>4
      <3> QED
        BY <2>1, <3>1, <3>2, <3>3, <3>5
    <2> QED
      BY <2>8, <2>11, <2>12, <2>13 DEF ResultInv, Expected, WillExpect
  <1>10. ASSUME Read, \/ \E t \in Threads : pc[t] = "loop" /\ pc' = [pc EXCEPT ![t] = "done"]
                      \/ UNCHANGED pc
         PROVE  ResultInv'
    <2>1. /\ 1 \in DOMAIN wire /\ Head(wire) = wire[1]
          /\ \A i \in DOMAIN wire' : i \in Nat /\ i + 1 \in DOMAIN wire /\ i + 1 # 1
                                      /\ wire'[i] = wire[i + 1]
      BY <1>10, WireRead
    <2>2. /\ last' = wire[1] /\ UNCHANGED due
          /\ found' = IF ActiveFor(wire[1]) = {} THEN 0 ELSE CHOOSE o \in ActiveFor(wire[1]) : TRUE
      <3>1. UNCHANGED due /\ last' = Head(wire)
        BY <1>10 DEF Read
      <3>2. found' = IF ActiveFor(Head(wire)) = {} THEN 0 ELSE CHOOSE o \in ActiveFor(Head(wire)) : TRUE
        BY <1>10 DEF Read
      <3> QED
        BY <2>1, <3>1, <3>2
    <2>3. \A i \in Results' : i \in Nat /\ i + 1 \in Results /\ i + 1 # 1 /\ wire'[i] = wire[i + 1]
      BY <2>1 DEF Results
    <2>4. ASSUME NEW t \in Threads, Accepted(t), own[t] \notin signalled,
                 ~(1 \in Results /\ wire[1].c = call[t] /\ call[t].kind = "recv")
          PROVE  own'[t] = own[t] /\ call'[t] = call[t] /\ Accepted(t)' /\ own'[t] \notin signalled'
      <3>1. ~ReadNow(t)
        BY <2>4 DEF ReadNow
      <3>2. ~HandledNow(t)
        <4>1. wire' # wire
          <5>1. wire \in Seq(Messages) /\ wire # <<>> /\ wire' = Tail(wire)
            BY <1>10, <1>a DEF Read
          <5>2. Len(Tail(wire)) # Len(wire)
            BY <5>1
          <5> QED
            BY <5>1, <5>2
        <4> QED
          BY <4>1 DEF HandledNow
      <3> QED
        BY <2>4, <3>1, <3>2, ExpectedStep
    <2>5. ASSUME NEW c, Expected(c), ~(1 \in Results /\ wire[1].c = c) PROVE WillExpect(c)
      BY <2>4, <2>5 DEF Expected, WillExpect
    <2>6. ASSUME NEW c \in due' PROVE WillExpect(c)
      BY <1>1, <2>2, <2>5 DEF ResultInv
    <2>7. ASSUME NEW i \in Results' PROVE WillExpect(wire'[i].c) /\ wire'[i].c \notin due'
      <3>1. i + 1 \in Results /\ i + 1 # 1 /\ wire'[i] = wire[i + 1]
        BY <2>3
      <3>2. Expected(wire[i + 1].c) /\ wire[i + 1].c \notin due
        BY <1>1, <3>1 DEF ResultInv
      <3>3. ~(1 \in Results /\ wire[1].c = wire[i + 1].c)
        BY <1>1, <3>1 DEF ResultInv
      <3>4. WillExpect(wire[i + 1].c)
        BY <2>5, <3>2, <3>3
      <3> QED
        BY <2>2, <3>1, <3>2, <3>4
    <2>8. ASSUME NEW i \in Results', NEW j \in Results', wire'[i].c = wire'[j].c PROVE i = j
      <3>1. i + 1 = j + 1
        BY <1>1, <2>3, <2>8 DEF ResultInv
      <3> QED
        BY <2>3, <3>1
    <2>9. ASSUME last'.k = "done", last'.c.kind # "recv"
          PROVE  /\ last'.c \notin due' /\ \A i \in Results' : wire'[i].c # last'.c
                 /\ \E t \in Threads : /\ Accepted(t)' /\ call'[t] = last'.c
                                       /\ own'[t] = found' /\ own'[t] \notin signalled'
      <3>1. 1 \in Results
        BY <2>1, <2>2, <2>9 DEF Results
      <3>2. PICK t \in Threads : Accepted(t) /\ call[t] = wire[1].c /\ own[t] \notin signalled
        BY <1>1, <3>1 DEF ResultInv, Expected
      <3>3. own'[t] = own[t] /\ call'[t] = call[t] /\ Accepted(t)' /\ own'[t] \notin signalled'
        BY <2>2, <2>4, <2>9, <3>2
      <3>4. found' = own[t]
        <4>1. ActiveFor(wire[1]) = {own[t]}
          BY <2>2, <2>9, <3>2, HitFacts
        <4> QED
          BY <2>2, <4>1
      <3>5. wire[1].c \notin due
        BY <1>1, <3>1 DEF ResultInv
      <3>6. \A i \in Results' : wire'[i].c # wire[1].c
        BY <1>1, <2>3, <3>1 DEF ResultInv
      <3> QED
        BY <2>2, <3>2, <3>3, <3>4, <3>5, <3>6
    <2> QED
      BY <2>6, <2>7, <2>8, <2>9 DEF ResultInv, Expected, WillExpect
  <1>11. ASSUME NEW t \in Threads, ReadInCommand(t) PROVE ResultInv'
    BY <1>10, <1>11 DEF ReadInCommand, Goto
  <1>12. CASE ReadInSpawn
    BY <1>10, <1>12 DEF ReadInSpawn
  <1>13. ASSUME NEW t \in Threads, NEW c \in Calls, Begin(t, c) PROVE ResultInv'
    BY <1>3, <1>13 DEF Begin, rxVars, nwpVars
  <1>14. ASSUME NEW t \in Threads, TakeObj(t) \/ PoolEmpty(t) \/ Woken(t) \/ TryAgain(t) \/ ReleaseObj(t)
                        \/ Completed(t)
         PROVE  ResultInv'
    BY <1>3, <1>14 DEF TakeObj, PoolEmpty, Woken, TryAgain, ReleaseObj, Completed, rxVars, nwpVars
  <1>15. ASSUME NEW t \in Threads, SendCommand(t) \/ Sleep(t) \/ Wake(t) \/ DoneInCommand(t) \/ EndCommand(t)
                        \/ CheckUnread(t)
         PROVE  ResultInv'
    BY <1>3, <1>15 DEF SendCommand, Sleep, Wake, DoneInCommand, EndCommand, CheckUnread, Forget,
                       rxVars, nwpVars
  <1>16. ASSUME NEW t \in Threads, LockTx(t) \/ SendRefused(t) \/ WaitTx(t) PROVE ResultInv'
    BY <1>3, <1>16 DEF LockTx, SendRefused, WaitTx, rxVars, nwpVars
  <1>17. CASE SpawnTake \/ SpawnLock \/ SpawnDone \/ Interrupt
    BY <1>3, <1>17 DEF SpawnTake, SpawnLock, SpawnDone, Interrupt, Forget, nwpVars
  <1>18. CASE FreeBuffer \/ Event
    <2>1. /\ [k |-> "dummy", c |-> NoCall, ok |-> TRUE] \in Messages
          /\ [k |-> "event", c |-> NoCall, ok |-> TRUE] \in Messages
      BY DEF Messages
    <2> QED
      BY <1>5, <1>18, <2>1 DEF FreeBuffer, Event, Says, NwpOnly, rxVars
  <1>19. CASE UNCHANGED vars
    BY <1>3, <1>19 DEF vars, rxVars, nwpVars
  <1>20. ASSUME NEW t \in Threads, Steps(t) PROVE ResultInv'
    BY <1>7, <1>11, <1>14, <1>15, <1>16, <1>20 DEF Steps
  <1> QED
    BY <1>8, <1>9, <1>12, <1>13, <1>17, <1>18, <1>19, <1>20 DEF Next, Progress, Spawn, Answer

-----------------------------------------------------------------------------
(* The invariant                                                           *)

(* Nothing goes wrong in a step.                                           *)
LEMMA FaultStep == ASSUME DriverInv, [Next]_vars PROVE NoFault'
  <1>1. fault = {}
    BY DEF DriverInv, NoFault
  <1>2. CASE UNCHANGED fault
    BY <1>1, <1>2 DEF NoFault
  <1>3. ASSUME Read PROVE NoFault'
    <2>1. 1 \in DOMAIN wire /\ Head(wire) = wire[1]
      BY <1>3, WireRead
    <2>2. CASE wire[1].k = "done"
      <3>1. PICK t \in Threads : Accepted(t) /\ call[t] = wire[1].c
        BY <2>1, <2>2 DEF DriverInv, ResultInv, Results, Expected
      <3>2. ActiveFor(wire[1]) = {own[t]}
        BY <2>2, <3>1, HitFacts
      <3> QED
        BY <1>2, <1>3, <2>1, <3>2 DEF Read
    <2>3. CASE wire[1].k # "done"
      BY <1>2, <1>3, <2>1, <2>3 DEF Read
    <2> QED
      BY <2>2, <2>3
  <1>4. ASSUME NEW t \in Threads, DoneInCommand(t) PROVE NoFault'
    <2>1. pc[t] = "done"
      BY <1>4 DEF DoneInCommand
    <2>2. last.k = "resp" => last.c = call[t]
      BY <2>1, OneReader DEF DriverInv, CmdInv, Cmd
    <2> QED
      BY <1>2, <1>4, <2>2 DEF DoneInCommand
  <1>5. CASE SpawnDone
    <2>1. last.k # "resp"
      BY <1>5, SpawnAlone, NoResponse DEF SpawnDone
    <2> QED
      BY <1>2, <1>5, <2>1 DEF SpawnDone
  <1>6. CASE Interrupt
    <2>1. CASE waited
      BY <1>2, <1>6, <2>1 DEF Interrupt
    <2>2. CASE ~waited
      <3> DEFINE n == Cardinality(Threads)
      <3>1. Spare = 0
        BY <1>6 DEF Interrupt, Spare
      <3>2. Taken \in Nat
        BY DEF Taken
      <3>3. n \in Nat /\ n < SpawnSize /\ SpawnSize \in Nat
        BY SlDriverAssumption, SpawnAssumption, FS_CardinalityType
      <3>4. InUse \in Nat
        <4>1. Callers \subseteq Threads
          BY DEF Callers
        <4> QED
          BY <4>1, SpawnAssumption, FS_Subset, FS_CardinalityType DEF InUse
      <3>5. spawnQ \in Nat
        <4>1. spawnQ \in 0..SpawnSize
          BY DEF DriverInv, TypeOK
        <4> QED
          BY <3>3, <4>1
      <3>6. spawnQ + Taken + InUse <= n + Spare
        BY DEF DriverInv, SpawnInv
      <3> HIDE DEF n
      <3>7. spawnQ < SpawnSize
        BY <3>1, <3>2, <3>3, <3>4, <3>5, <3>6
      <3> QED
        BY <1>2, <1>6, <2>2, <3>7 DEF Interrupt
    <2> QED
      BY <2>1, <2>2
  <1>7. ASSUME NEW t \in Threads, SendData(t) PROVE NoFault'
    BY <1>2, <1>7, SendFacts
  <1>8. ASSUME NEW t \in Threads, NEW c \in Calls, Begin(t, c) PROVE NoFault'
    BY <1>2, <1>8 DEF Begin
  <1>9. ASSUME NEW t \in Threads, Steps(t) PROVE NoFault'
    <2>1. ASSUME TakeObj(t) \/ PoolEmpty(t) \/ Woken(t) \/ TryAgain(t) \/ ReleaseObj(t) \/ Completed(t)
          PROVE  NoFault'
      BY <1>2, <2>1 DEF TakeObj, PoolEmpty, Woken, TryAgain, ReleaseObj, Completed
    <2>2. ASSUME SendCommand(t) \/ Sleep(t) \/ Wake(t) \/ EndCommand(t) \/ CheckUnread(t) PROVE NoFault'
      BY <1>2, <2>2 DEF SendCommand, Sleep, Wake, EndCommand, CheckUnread
    <2>3. ASSUME LockTx(t) \/ SendRefused(t) \/ WaitTx(t) PROVE NoFault'
      BY <1>2, <2>3 DEF LockTx, SendRefused, WaitTx
    <2> QED
      BY <1>3, <1>4, <1>7, <1>9, <2>1, <2>2, <2>3 DEF Steps, ReadInCommand
  <1>10. CASE SpawnTake \/ SpawnLock \/ Answer \/ FreeBuffer \/ Event
    BY <1>2, <1>10 DEF SpawnTake, SpawnLock, Answer, Respond, Complete, FreeBuffer, Event, NwpOnly
  <1>11. CASE UNCHANGED vars
    BY <1>2, <1>11 DEF vars
  <1> QED
    BY <1>3, <1>5, <1>6, <1>8, <1>9, <1>10, <1>11 DEF Next, Progress, Spawn, ReadInSpawn

LEMMA TypeParts ==
    ThreadType /\ CountType /\ RestType /\ PoolType /\ UnreadInv => TypeOK
  <1> SUFFICES ASSUME ThreadType, CountType, RestType, PoolType, UnreadInv PROVE TypeOK
    OBVIOUS
  <1>1. unread \in 0..2
    BY DEF UnreadInv
  <1>2. raised \in 0..Len(wire)
    <2>1. wire \in Seq(Messages)
      BY DEF PoolType
    <2>2. Len(wire) \in Nat /\ (wire # <<>> => Len(wire) > 0)
      BY <2>1
    <2>3. CASE masked
      <3>1. raised = 1 /\ wire # <<>>
        BY <2>3 DEF UnreadInv
      <3> QED
        BY <2>2, <3>1
    <2>4. CASE ~masked
      <3>1. raised = 0
        BY <2>4 DEF UnreadInv
      <3> QED
        BY <2>2, <3>1
    <2> QED
      BY <2>3, <2>4
  <1> QED
    BY <1>1, <1>2 DEF TypeOK, ThreadType, CountType, RestType, PoolType

LEMMA DriverStep == DriverInv /\ [Next]_vars => DriverInv'
  <1> SUFFICES ASSUME DriverInv, [Next]_vars PROVE DriverInv'
    OBVIOUS
  <1>1. ThreadType' /\ CountType' /\ RestType' /\ PoolType' /\ UnreadInv'
    BY ThreadTypeStep, CountTypeStep, RestTypeStep, PoolTypeStep, UnreadStep
  <1>2. TypeOK'
    BY <1>1, TypeParts, PTL
  <1> QED
    BY <1>1, <1>2, LockStep, StageStep, OwnStep, ListStep, KeyStep, CmdStep, SigStep, ResultStep,
       LookStep, TxStep, SpawnStep, FaultStep
       DEF DriverInv

LEMMA DriverInvariant == Spec => []DriverInv
  BY DriverInit, DriverStep, PTL DEF Spec

-----------------------------------------------------------------------------
(* What holds of every run                                                 *)

(* The state of the driver keeps its shape.                                *)
THEOREM TypeCorrect == Spec => []TypeOK
  <1>1. DriverInv => TypeOK
    BY DEF DriverInv
  <1> QED
    BY <1>1, DriverInvariant, PTL

(* Every message finds the one it is for (_SlDrvMsgRead), no call for the  *)
(* spawn thread is lost (_SlDrvRxIrqHandler), and the assertions on the    *)
(* transmit buffers hold (_SlDrvDataWriteOp).                              *)
THEOREM EveryMessageFindsItsCall == Spec => []NoFault
  <1>1. DriverInv => NoFault
    BY DEF DriverInv
  <1> QED
    BY <1>1, DriverInvariant, PTL

(* A message that has interrupted is never left unread: somebody will look *)
(* for it (_SlDrvMsgReadCmdCtx, the check after the unlock).               *)
THEOREM NoMessageForgotten == Spec => []UnreadIsRead
  <1>1. DriverInv => UnreadIsRead
    BY DEF DriverInv, LookInv
  <1> QED
    BY <1>1, DriverInvariant, PTL

-----------------------------------------------------------------------------
(* The lists share the pool out                                            *)

(* A list without repetitions is as long as its set of objects is large.   *)
LEMMA ListSize ==
    ASSUME NEW S, NEW s \in Seq(S), OneEach(s)
    PROVE  IsFiniteSet(Range(s)) /\ Cardinality(Range(s)) = Len(s)
  <1> DEFINE D == 1..Len(s)
  <1>1. Len(s) \in Nat /\ DOMAIN s = D /\ s = [i \in D |-> s[i]]
    OBVIOUS
  <1>2. IsFiniteSet(D) /\ Cardinality(D) = Len(s)
    <2>1. ASSUME NEW n \in Nat PROVE IsFiniteSet(1..n) /\ Cardinality(1..n) = n
      BY FS_Interval
    <2> QED
      BY <1>1, <2>1
  <1> HIDE DEF D
  <1>3. s \in [D -> Range(s)]
    BY <1>1 DEF Range
  <1>4. s \in Surjection(D, Range(s))
    BY <1>1, <1>3 DEF Surjection, Range
  <1>5. s \in Injection(D, Range(s))
    BY <1>1, <1>3 DEF Injection, IsInjective, OneEach
  <1> QED
    BY <1>2, <1>4, <1>5, FS_Surjection

(* Two sets without a common element.                                      *)
LEMMA DisjointSize ==
    ASSUME NEW S, NEW T, IsFiniteSet(S), IsFiniteSet(T), S \cap T = {}
    PROVE  IsFiniteSet(S \cup T) /\ Cardinality(S \cup T) = Cardinality(S) + Cardinality(T)
  <1>1. Cardinality(S \cap T) = 0
    BY FS_EmptySet
  <1>2. Cardinality(S) \in Nat /\ Cardinality(T) \in Nat
    BY FS_CardinalityType
  <1>3. /\ IsFiniteSet(S \cup T)
        /\ Cardinality(S \cup T) = Cardinality(S) + Cardinality(T) - Cardinality(S \cap T)
    BY FS_Union
  <1> QED
    BY <1>1, <1>2, <1>3

\* The objects that were woken and are not yet active.
OnTheWay == {own[t] : t \in {u \in Threads : \/ pc[u] = "again"
                                             \/ pc[u] = "pend" /\ own[u] \in signalled}}

LEMMA PoolShared == DriverInv => PoolSound
  <1> SUFFICES ASSUME DriverInv PROVE PoolSound
    OBVIOUS
  <1>1. /\ free \in Seq(Objects) /\ active \in Seq(Objects) /\ pending \in Seq(Objects)
        /\ OneEach(free) /\ OneEach(active) /\ OneEach(pending)
    BY DEF DriverInv, TypeOK, ListInv
  <1>2. Range(free) \subseteq Objects /\ Range(active) \subseteq Objects /\ Range(pending) \subseteq Objects
    BY <1>1 DEF Range
  <1>3. \A t \in Threads : own[t] # 0 => own[t] \in Objects
    <2>1. \A t \in Threads : own[t] \in 0..Pool
      BY DEF DriverInv, TypeOK
    <2> QED
      BY <2>1, SlDriverAssumption DEF Objects
  <1>4. \A t \in Threads : pc[t] \in {"pend", "again"} => own[t] # 0
    BY DEF DriverInv, StageInv
  <1>5. OnTheWay \subseteq Objects
    BY <1>3, <1>4 DEF OnTheWay
  <1>6. Range(free) \cup (Range(active) \cup Range(pending) \cup OnTheWay) = Objects
    <2>1. ASSUME NEW o \in Objects
          PROVE  o \in Range(free) \cup (Range(active) \cup Range(pending) \cup OnTheWay)
      <3>1. CASE \A t \in Threads : own[t] # o
        BY <3>1 DEF DriverInv, ListInv
      <3>2. ASSUME NEW t \in Threads, own[t] = o PROVE o \in Range(active) \cup Range(pending) \cup OnTheWay
        <4>1. own[t] # 0
          BY <3>2 DEF Objects
        <4>2. CASE Active(t)
          BY <3>2, <4>2 DEF DriverInv, ListInv
        <4>3. CASE OnHold(t)
          BY <3>2, <4>3 DEF DriverInv, ListInv
        <4>4. CASE ~Active(t) /\ ~OnHold(t)
          BY <3>2, <4>1, <4>4 DEF Active, OnHold, OnTheWay
        <4> QED
          BY <4>2, <4>3, <4>4
      <3> QED
        BY <3>1, <3>2
    <2> QED
      BY <1>2, <1>5, <2>1
  <1>7. /\ Range(free) \cap Range(active) = {}
        /\ (Range(free) \cup Range(active)) \cap Range(pending) = {}
        /\ (Range(free) \cup Range(active) \cup Range(pending)) \cap OnTheWay = {}
    <2>1. ASSUME NEW o \in Range(free) PROVE \A t \in Threads : own[t] # o
      BY <1>2 DEF DriverInv, ListInv
    <2>2. ASSUME NEW o \in Range(active) PROVE \A t \in Threads : own[t] = o => Active(t)
      BY <1>2 DEF DriverInv, ListInv, OwnInv, Active
    <2>3. ASSUME NEW o \in Range(active) PROVE \E t \in Threads : own[t] = o
      BY <1>2 DEF DriverInv, ListInv
    <2>4. ASSUME NEW o \in Range(pending) PROVE \E t \in Threads : own[t] = o /\ OnHold(t)
      BY <1>2 DEF DriverInv, ListInv
    <2>5. ASSUME NEW o \in OnTheWay
          PROVE  \E t \in Threads : /\ own[t] = o /\ own[t] # 0 /\ ~Active(t)
                                    /\ pc[t] = "again" \/ own[t] \in signalled
      BY <1>4 DEF OnTheWay, Active
    <2>6. \A t \in Threads : OnHold(t) => pc[t] = "pend" /\ own[t] \notin signalled /\ ~Active(t)
      BY DEF OnHold, Active
    <2>7. Range(free) \cap Range(active) = {}
      BY <2>1, <2>3
    <2>8. (Range(free) \cup Range(active)) \cap Range(pending) = {}
      BY <2>1, <2>2, <2>4, <2>6
    <2>9. ASSUME NEW o \in Range(pending), o \in OnTheWay PROVE FALSE
      <3>1. PICK t \in Threads : own[t] = o /\ OnHold(t)
        BY <2>4
      <3>2. PICK u \in Threads : own[u] = o /\ own[u] # 0 /\ (pc[u] = "again" \/ own[u] \in signalled)
        BY <2>5, <2>9
      <3>3. t = u
        BY <3>1, <3>2 DEF DriverInv, OwnInv
      <3> QED
        BY <2>6, <3>1, <3>2, <3>3
    <2>10. (Range(free) \cup Range(active) \cup Range(pending)) \cap OnTheWay = {}
      BY <2>1, <2>2, <2>5, <2>9
    <2> QED
      BY <2>7, <2>8, <2>10
  <1>8. Len(free) + Len(active) + Len(pending) + Cardinality(OnTheWay) = Pool
    <2>1. IsFiniteSet(Objects) /\ Cardinality(Objects) = Pool
      BY SlDriverAssumption, FS_Interval DEF Objects
    <2>2. /\ IsFiniteSet(Range(free)) /\ Cardinality(Range(free)) = Len(free)
          /\ IsFiniteSet(Range(active)) /\ Cardinality(Range(active)) = Len(active)
          /\ IsFiniteSet(Range(pending)) /\ Cardinality(Range(pending)) = Len(pending)
      BY <1>1, ListSize
    <2>3. IsFiniteSet(OnTheWay)
      BY <1>5, <2>1, FS_Subset
    <2> DEFINE A == Range(free) \cup Range(active)
               B == A \cup Range(pending)
    <2>4. IsFiniteSet(A) /\ Cardinality(A) = Len(free) + Len(active)
      <3>1. Range(free) \cap Range(active) = {}
        BY <1>7
      <3>2. IsFiniteSet(A) /\ Cardinality(A) = Cardinality(Range(free)) + Cardinality(Range(active))
        BY <2>2, <3>1, DisjointSize
      <3> QED
        BY <2>2, <3>2
    <2>5. IsFiniteSet(B) /\ Cardinality(B) = Cardinality(A) + Len(pending)
      BY <1>7, <2>2, <2>4, DisjointSize, ZenonT(60)
    <2>6. Cardinality(B \cup OnTheWay) = Cardinality(B) + Cardinality(OnTheWay)
      BY <1>7, <2>3, <2>5, DisjointSize
    <2>7. B \cup OnTheWay = Objects
      BY <1>6
    <2> HIDE DEF A, B
    <2>8. Pool = Cardinality(B) + Cardinality(OnTheWay)
      BY <2>1, <2>6, <2>7
    <2> QED
      BY <2>4, <2>5, <2>8
  <1>9. bitmap = {Key(objCall[o]) : o \in Range(active)}
    BY DEF DriverInv, KeyInv
  <1>10. Cardinality(bitmap) = Len(active)
    <2> DEFINE f == [o \in Range(active) |-> Key(objCall[o])]
    <2>1. IsFiniteSet(Range(active)) /\ Cardinality(Range(active)) = Len(active)
      BY <1>1, ListSize
    <2>2. f \in [Range(active) -> bitmap]
      BY <1>9
    <2>3. f \in Surjection(Range(active), bitmap)
      BY <1>9, <2>2 DEF Surjection
    <2>4. \A o, p \in Range(active) : f[o] = f[p] => o = p
      BY DEF DriverInv, KeyInv
    <2>5. f \in Injection(Range(active), bitmap)
      BY <2>2, <2>4 DEF Injection, IsInjective
    <2> HIDE DEF f
    <2> QED
      BY <2>1, <2>3, <2>5, FS_Surjection
  <1>11. \A o \in Range(active) \cup Range(pending) \cup OnTheWay :
             \E t \in Threads : own[t] = o /\ objCall[o] = call[t]
    <2>1. ASSUME NEW o \in Range(active) \cup Range(pending) \cup OnTheWay
          PROVE  \E t \in Threads : own[t] = o
      BY <1>2 DEF DriverInv, ListInv, OnTheWay
    <2>2. \A o \in Range(active) \cup Range(pending) \cup OnTheWay : o # 0
      BY <1>2, <1>5 DEF Objects
    <2> QED
      BY <2>1, <2>2 DEF DriverInv, OwnInv
  <1> QED
    BY <1>6, <1>8, <1>9, <1>10, <1>11 DEF PoolSound, OnTheWay

(* The lists share the pool out among the calls that use it                *)
(* (_SlDrvWaitForPoolObj, _SlDrvReleasePoolObj).                           *)
THEOREM PoolIsShared == Spec => []PoolSound
  BY PoolShared, DriverInvariant, PTL

-----------------------------------------------------------------------------
(* The pool does not forget a call on hold                                 *)

\* The thread t is in front of the object o in the pending list.
InFront(t, o) ==
    /\ own[t] # o /\ call[t] = objCall[o]
    /\ own[t] \in Range(active) \/ own[t] \notin Range(pending) \cup {0}

(* A call is put on hold behind an active one of the same kind.            *)
LEMMA SuspendedBehind ==
    ASSUME OneKindPerSocket, DriverInv, NEW t \in Threads,
           call[t].kind \in Late, Key(call[t]) \in bitmap
    PROVE  \E u \in Threads : own[u] # 0 /\ own[u] \in Range(active) /\ call[u] = call[t]
  <1>1. PICK p \in Range(active) : Key(objCall[p]) = Key(call[t])
    BY DEF DriverInv, KeyInv
  <1>2. active \in Seq(Objects)
    BY DEF DriverInv, TypeOK
  <1>3. p \in Objects /\ p # 0
    <2>1. p \in Objects
      BY <1>1, <1>2 DEF Range
    <2> QED
      BY <2>1 DEF Objects
  <1>4. PICK u \in Threads : own[u] = p
    BY <1>1, <1>3 DEF DriverInv, ListInv
  <1>5. objCall[p] = call[u] /\ call[u].kind \in Late
    BY <1>3, <1>4 DEF DriverInv, OwnInv, StageInv
  <1>6. NoCall.kind \notin Late
    BY DEF NoCall, Late
  <1>7. call[t] \in Calls /\ call[u] \in Calls
    BY <1>5, <1>6 DEF DriverInv, TypeOK
  <1>8. call[u] = call[t]
    BY <1>1, <1>5, <1>7 DEF OneKindPerSocket
  <1> QED
    BY <1>1, <1>3, <1>4, <1>8

LEMMA BehindStep ==
    ASSUME OneKindPerSocket, DriverInv, PendingBehindActive, [Next]_vars
    PROVE  PendingBehindActive'
  <1>1. ThreadType /\ PoolType /\ StageInv /\ OwnInv
    BY DEF DriverInv, TypeOK, ThreadType, PoolType
  <1>2. Range(active) \subseteq Objects /\ Range(pending) \subseteq Objects /\ 0 \notin Objects
    <2>1. Range(active) \subseteq Objects /\ Range(pending) \subseteq Objects
      BY <1>1 DEF PoolType, Range
    <2>2. 0 \notin Objects
      BY DEF Objects
    <2> QED
      BY <2>1, <2>2
  <1>3. Range(active) \cap Range(pending) = {}
    BY <1>2 DEF DriverInv, ListInv, OwnInv, Active, OnHold
  <1>4. \A o \in Range(pending) : \E t \in Threads : InFront(t, o) /\ own[t] # 0
    BY <1>2 DEF PendingBehindActive, InFront
  <1>5. ASSUME UNCHANGED <<active, pending, own, objCall>>,
               \A t \in Threads : own[t] # 0 => call'[t] = call[t]
        PROVE  PendingBehindActive'
    <2> SUFFICES ASSUME NEW o \in Range(pending)
                 PROVE  \E t \in Threads : /\ own[t] # o /\ call'[t] = objCall[o]
                                           /\ own[t] \in Range(active) \/ own[t] \notin Range(pending) \cup {0}
      BY <1>5 DEF PendingBehindActive, Range
    <2>1. PICK t \in Threads : InFront(t, o) /\ own[t] # 0
      BY <1>4
    <2> QED
      BY <1>5, <2>1 DEF InFront
  <1>6. ASSUME NEW t \in Threads, NEW o \in Objects, o \notin Range(active), o \notin Range(pending),
               call[t].kind \in Late, own'[t] = o, objCall'[o] = call[t], UNCHANGED call,
               \A u \in Threads : u # t => own'[u] = own[u] /\ own[u] # o,
               \A q \in Objects : q # o => objCall'[q] = objCall[q],
               own[t] \in {0, o},
               Activated(t, o) \/ Suspended(t, o)
        PROVE  PendingBehindActive'
    <2>1. CASE Activated(t, o)
      <3>1. Range(active') = Range(active) \cup {o} /\ pending' = pending
        BY <2>1 DEF Activated
      <3> SUFFICES ASSUME NEW q \in Range(pending)
                   PROVE  \E u \in Threads : /\ own'[u] # q /\ call'[u] = objCall'[q]
                                             /\ own'[u] \in Range(active') \/ own'[u] \notin Range(pending) \cup {0}
        BY <3>1 DEF PendingBehindActive, Range
      <3>2. objCall'[q] = objCall[q] /\ q # o
        BY <1>2, <1>6
      <3>3. PICK u \in Threads : InFront(u, q) /\ own[u] # 0
        BY <1>4
      <3>4. own'[u] = own[u]
        BY <1>6, <3>3
      <3> QED
        BY <1>6, <3>1, <3>2, <3>3, <3>4 DEF InFront
    <2>2. CASE Suspended(t, o)
      <3>1. Range(pending') = Range(pending) \cup {o} /\ active' = active /\ Key(call[t]) \in bitmap
        BY <2>2 DEF Suspended
      <3>2. PICK v \in Threads : own[v] # 0 /\ own[v] \in Range(active) /\ call[v] = call[t]
        BY <1>6, <3>1, SuspendedBehind
      <3>3. v # t /\ own'[v] = own[v]
        BY <1>2, <1>6, <3>2
      <3> SUFFICES ASSUME NEW q \in Range(pending')
                   PROVE  \E u \in Threads : /\ own'[u] # q /\ call'[u] = objCall'[q]
                                             /\ own'[u] \in Range(active) \/ own'[u] \notin Range(pending') \cup {0}
        BY <3>1 DEF PendingBehindActive, Range
      <3>4. CASE q = o
        BY <1>6, <3>2, <3>3, <3>4
      <3>5. CASE q # o
        <4>1. q \in Range(pending) /\ objCall'[q] = objCall[q]
          BY <1>2, <1>6, <3>1, <3>5
        <4>2. PICK u \in Threads : InFront(u, q) /\ own[u] # 0
          BY <1>4, <4>1
        <4>3. CASE u = t
          <5>1. call[v] = objCall[q] /\ own[v] # q
            BY <1>3, <3>2, <4>1, <4>2, <4>3 DEF InFront
          <5> QED
            BY <1>6, <3>2, <3>3, <4>1, <5>1
        <4>4. CASE u # t
          <5>1. own'[u] = own[u] /\ own[u] # o
            BY <1>6, <4>4
          <5> QED
            BY <1>6, <3>1, <4>1, <4>2, <5>1 DEF InFront
        <4> QED
          BY <4>3, <4>4
      <3> QED
        BY <3>4, <3>5
    <2> QED
      BY <1>6, <2>1, <2>2
  <1>7. ASSUME NEW t \in Threads, TakeObj(t) PROVE PendingBehindActive'
    <2>1. PICK o \in Objects :
               /\ o \notin Range(active) /\ o \notin Range(pending)
               /\ \A u \in Threads : own[u] # o
               /\ own' = [own EXCEPT ![t] = o] /\ objCall' = [objCall EXCEPT ![o] = call[t]]
               /\ Activated(t, o) \/ Suspended(t, o)
      BY <1>7, TakeFacts
    <2>2. pc[t] = "pool" /\ UNCHANGED call
      BY <1>7 DEF TakeObj
    <2>3. call[t].kind \in Late /\ own[t] = 0
      BY <1>1, <2>2 DEF StageInv
    <2>4. /\ own'[t] = o /\ objCall'[o] = call[t]
          /\ \A u \in Threads : u # t => own'[u] = own[u]
          /\ \A q \in Objects : q # o => objCall'[q] = objCall[q]
      BY <1>1, <2>1 DEF ThreadType, PoolType
    <2> QED
      BY <1>6, <2>1, <2>2, <2>3, <2>4
  <1>8. ASSUME NEW t \in Threads, TryAgain(t) PROVE PendingBehindActive'
    <2>1. /\ own[t] \in Objects /\ own[t] \notin Range(active) /\ own[t] \notin Range(pending)
          /\ Activated(t, own[t]) \/ Suspended(t, own[t])
      BY <1>8, AgainFacts
    <2>2. pc[t] = "again" /\ UNCHANGED <<call, own, objCall>>
      BY <1>8 DEF TryAgain
    <2>3. call[t].kind \in Late /\ own[t] # 0
      BY <1>1, <2>2 DEF StageInv
    <2>4. objCall[own[t]] = call[t] /\ \A u \in Threads : u # t => own[u] # own[t]
      BY <1>1, <2>3 DEF OwnInv
    <2> QED
      BY <1>6, <2>1, <2>2, <2>3, <2>4
  <1>9. ASSUME NEW t \in Threads, ReleaseObj(t) PROVE PendingBehindActive'
    <2>1. /\ pc[t] = "release" /\ own[t] \in Objects /\ own[t] \in Range(active)
          /\ own[t] \notin Range(pending)
          /\ \A u \in Threads : own[u] = own[t] => u = t
          /\ call' = [call EXCEPT ![t] = NoCall]
          /\ own' = [own EXCEPT ![t] = 0] /\ objCall' = [objCall EXCEPT ![own[t]] = NoCall]
          /\ Range(active') = Range(active) \ {own[t]}
          /\ \/ /\ UNCHANGED <<pending, signalled>>
                /\ \A p \in Range(pending) : objCall[p] # objCall[own[t]]
             \/ \E p \in Range(pending) :
                    /\ objCall[p] = objCall[own[t]]
                    /\ Range(pending') = Range(pending) \ {p}
      BY <1>9, ReleaseFacts
    <2>2. objCall[own[t]] = call[t]
      BY <1>1, <1>2, <2>1 DEF OwnInv
    <2>3. /\ \A u \in Threads : u # t => own'[u] = own[u] /\ call'[u] = call[u]
          /\ \A q \in Objects : q # own[t] => objCall'[q] = objCall[q]
      BY <1>1, <2>1 DEF ThreadType, PoolType
    <2>4. Range(pending') \subseteq Range(pending)
      BY <2>1 DEF Range
    <2> SUFFICES ASSUME NEW q \in Range(pending')
                 PROVE  \E u \in Threads : /\ own'[u] # q /\ call'[u] = objCall'[q]
                                           /\ own'[u] \in Range(active') \/ own'[u] \notin Range(pending') \cup {0}
      BY DEF PendingBehindActive
    <2>5. q \in Range(pending) /\ q # own[t] /\ objCall'[q] = objCall[q]
      BY <1>2, <2>1, <2>3, <2>4
    <2>6. PICK u \in Threads : InFront(u, q) /\ own[u] # 0
      BY <1>4, <2>5
    <2>7. CASE u # t
      <3>1. own'[u] = own[u] /\ call'[u] = call[u] /\ own[u] # own[t]
        BY <2>1, <2>3, <2>7
      <3> QED
        BY <2>1, <2>4, <2>5, <2>6, <3>1 DEF InFront
    <2>8. CASE u = t
      <3>1. objCall[q] = objCall[own[t]]
        BY <2>2, <2>6, <2>8 DEF InFront
      <3>2. PICK p \in Range(pending) : objCall[p] = objCall[own[t]] /\ Range(pending') = Range(pending) \ {p}
        BY <2>1, <2>5, <3>1
      <3>3. PICK v \in Threads : own[v] = p
        BY <1>2, <3>2 DEF DriverInv, ListInv
      <3>4. v # t /\ p # 0 /\ p # q
        BY <1>2, <2>1, <3>2, <3>3
      <3>5. call[v] = objCall[p]
        BY <1>1, <3>3, <3>4 DEF OwnInv
      <3>6. own'[v] = p /\ call'[v] = objCall[q]
        BY <2>3, <3>1, <3>2, <3>3, <3>4, <3>5
      <3> QED
        BY <2>5, <3>2, <3>4, <3>6
    <2> QED
      BY <2>7, <2>8
  <1>10. ASSUME NEW t \in Threads, NEW c \in Calls, Begin(t, c) PROVE PendingBehindActive'
    <2>1. pc[t] = "idle" /\ call' = [call EXCEPT ![t] = c] /\ UNCHANGED <<active, pending, own, objCall>>
      BY <1>10 DEF Begin, poolVars
    <2>2. NoCall.kind \notin Late
      BY DEF NoCall, Late
    <2>3. own[t] = 0
      BY <1>1, <2>1, <2>2 DEF StageInv
    <2> QED
      BY <1>1, <1>5, <2>1, <2>3 DEF ThreadType
  <1>11. ASSUME NEW t \in Threads, own[t] = 0, Return(t), UNCHANGED <<active, pending, own, objCall>>
         PROVE  PendingBehindActive'
    BY <1>1, <1>5, <1>11 DEF Return, ThreadType
  <1>12. ASSUME NEW t \in Threads, PoolEmpty(t) PROVE PendingBehindActive'
    BY <1>1, <1>11, <1>12 DEF PoolEmpty, StageInv, poolVars
  <1>13. ASSUME NEW t \in Threads, CheckUnread(t) PROVE PendingBehindActive'
    <2>1. CASE call[t].kind = "cmd"
      BY <1>1, <1>11, <1>13, <2>1 DEF CheckUnread, StageInv, Late, poolVars
    <2>2. CASE call[t].kind # "cmd"
      BY <1>5, <1>13, <2>2 DEF CheckUnread, Go, poolVars
    <2> QED
      BY <2>1, <2>2
  <1>14. ASSUME NEW t \in Threads, SendRefused(t) PROVE PendingBehindActive'
    BY <1>1, <1>11, <1>14 DEF SendRefused, StageInv, Late, poolVars
  <1>15. ASSUME NEW t \in Threads, SendData(t) PROVE PendingBehindActive'
    <2>1. UNCHANGED <<active, pending, own, objCall>>
      BY <1>15 DEF SendData, poolVars
    <2>2. UNCHANGED call \/ (call[t].kind = "send" /\ call' = [call EXCEPT ![t] = NoCall])
      BY <1>15, SendFacts
    <2>3. call[t].kind = "send" => own[t] = 0
      BY <1>1 DEF StageInv, Late
    <2> QED
      BY <1>1, <1>5, <2>1, <2>2, <2>3 DEF ThreadType
  <1>16. ASSUME NEW t \in Threads, Woken(t) \/ Completed(t) \/ SendCommand(t) \/ Sleep(t) \/ Wake(t)
                       \/ ReadInCommand(t) \/ DoneInCommand(t) \/ EndCommand(t) \/ LockTx(t) \/ WaitTx(t)
         PROVE  PendingBehindActive'
    BY <1>5, <1>16 DEF Woken, Completed, SendCommand, Sleep, Wake, ReadInCommand, Read, DoneInCommand,
                       EndCommand, LockTx, WaitTx, poolVars
  <1>17. CASE Spawn \/ Interrupt \/ Answer \/ FreeBuffer \/ Event
    BY <1>5, <1>17 DEF Spawn, SpawnTake, SpawnLock, ReadInSpawn, Read, SpawnDone, Interrupt,
                       Answer, Respond, Complete, FreeBuffer, Event, NwpOnly, thrVars, poolVars
  <1>18. CASE UNCHANGED vars
    BY <1>5, <1>18 DEF vars, thrVars, poolVars
  <1> QED
    BY <1>7, <1>8, <1>9, <1>10, <1>12, <1>13, <1>14, <1>15, <1>16, <1>17, <1>18
       DEF Next, Progress, Steps

(* A call on hold always has one of its kind in front of it that will wake *)
(* it or the next (_SlDrvReleasePoolObj), as long as the calls on a socket *)
(* that wait for each other are of one kind.                               *)
THEOREM NobodyOnHoldIsForgotten ==
    ASSUME OneKindPerSocket PROVE Spec => []PendingBehindActive
  <1>1. Init => PendingBehindActive
    BY DEF Init, PendingBehindActive, Range
  <1>2. DriverInv /\ PendingBehindActive /\ [Next]_vars => PendingBehindActive'
    BY BehindStep
  <1> QED
    BY <1>1, <1>2, DriverInvariant, PTL DEF Spec

=============================================================================
