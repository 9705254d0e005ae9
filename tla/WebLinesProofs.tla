--------------------------- MODULE WebLinesProofs ---------------------------
(* The dispatch of topic messages to web clients, for any number of        *)
(* clients and messages: whoever joins or leaves while the list of writers *)
(* is walked, nobody is written a message twice, and as long as nobody has *)
(* left everybody is written every message, in order.                      *)
EXTENDS WebLines, SequenceTheorems, FiniteSetTheorems, TLAPS

USE WebAssumption DEF Tasks

LEMMA ConnsCounted == Cardinality(Conns) \in Nat
BY FS_CardinalityType

LEMMA AppendFacts ==
    ASSUME NEW S, NEW s \in Seq(S), NEW e \in S
    PROVE  /\ Append(s, e) \in Seq(S)
           /\ DOMAIN s = 1..Len(s) /\ Len(s) \in Nat
           /\ DOMAIN Append(s, e) = 1..Len(s) + 1
           /\ \A k \in 1..Len(s) : Append(s, e)[k] = s[k]
           /\ Append(s, e)[Len(s) + 1] = e
BY AppendProperties, LenProperties

LEMMA TailFacts ==
    ASSUME NEW S, NEW s \in Seq(S), s # <<>>
    PROVE  /\ Head(s) \in S /\ 1 \in DOMAIN s /\ Head(s) = s[1]
           /\ Tail(s) \in Seq(S)
           /\ \A k \in DOMAIN Tail(s) : k \in Nat /\ k + 1 \in DOMAIN s /\ Tail(s)[k] = s[k + 1]
OBVIOUS

LEMMA RemoveFacts ==
    ASSUME NEW S, NEW s \in Seq(S), NEW p \in DOMAIN s
    PROVE  /\ RemoveAt(s, p) \in Seq(S)
           /\ \A k \in DOMAIN RemoveAt(s, p) :
                  /\ k \in Nat
                  /\ IF k < p THEN k \in DOMAIN s /\ RemoveAt(s, p)[k] = s[k]
                              ELSE k + 1 \in DOMAIN s /\ RemoveAt(s, p)[k] = s[k + 1]
<1> DEFINE a == SubSeq(s, 1, p - 1)
           b == SubSeq(s, p + 1, Len(s))
<1>1. p \in 1..Len(s) /\ Len(s) \in Nat /\ DOMAIN s = 1..Len(s)
  BY LenProperties
<1>2. a \in Seq(S) /\ Len(a) = p - 1 /\ \A k \in 1..p - 1 : a[k] = s[k]
  BY <1>1, ElementOfSeq, SubSeqProperties
<1>3. b \in Seq(S) /\ Len(b) = Len(s) - p /\ \A k \in 1..Len(s) - p : b[k] = s[p + k]
  <2>1. \A k \in p + 1..Len(s) : s[k] \in S
    BY <1>1, ElementOfSeq
  <2>. QED
    BY <1>1, <2>1, SubSeqProperties
<1> HIDE DEF a, b
<1>4. /\ a \o b \in Seq(S) /\ Len(a \o b) = Len(s) - 1
      /\ \A k \in 1..Len(s) - 1 : (a \o b)[k] = IF k <= p - 1 THEN a[k] ELSE b[k - (p - 1)]
  <2>1. /\ a \o b \in Seq(S) /\ Len(a \o b) = Len(a) + Len(b)
        /\ \A k \in 1..Len(a) + Len(b) : (a \o b)[k] = IF k <= Len(a) THEN a[k] ELSE b[k - Len(a)]
    BY <1>2, <1>3, ConcatProperties
  <2>. QED
    BY <1>1, <1>2, <1>3, <2>1
<1>5. DOMAIN (a \o b) = 1..Len(s) - 1
  BY <1>4, LenProperties
<1>6. RemoveAt(s, p) = a \o b
  BY DEF RemoveAt, a, b
<1>7. ASSUME NEW k \in 1..Len(s) - 1
      PROVE  (a \o b)[k] = IF k < p THEN s[k] ELSE s[k + 1]
  <2>1. CASE k < p
    BY <1>1, <1>2, <1>4, <2>1
  <2>2. CASE ~(k < p)
    <3>1. k - (p - 1) \in 1..Len(s) - p /\ p + (k - (p - 1)) = k + 1
      BY <1>1, <2>2
    <3>. QED
      BY <1>1, <1>3, <1>4, <2>2, <3>1, SMTT(30)
  <2>. QED
    BY <2>1, <2>2
<1>8. \A k \in 1..Len(s) - 1 : k \in Nat /\ k \in 1..Len(s) /\ k + 1 \in 1..Len(s)
  BY <1>1
<1>. QED
  BY <1>1, <1>4, <1>5, <1>6, <1>7, <1>8

\* A list without repetitions is no longer than the set it lists.
LEMMA InjectiveIsShort ==
    ASSUME NEW s \in Seq(Conns), IsInjective(s)
    PROVE  Len(s) \in Nat /\ Len(s) <= Cardinality(Conns)
<1>1. Len(s) \in Nat /\ s \in [1..Len(s) -> Conns]
  BY LenProperties
<1>2. s \in Injection(1..Len(s), Conns)
  BY <1>1 DEF Injection
<1>3. Cardinality(1..Len(s)) <= Cardinality(Conns)
  BY <1>2, FS_Injection
<1>4. ASSUME NEW n \in Nat PROVE Cardinality(1..n) = n
  BY FS_Interval
<1>5. Cardinality(1..Len(s)) = Len(s)
  BY <1>1, <1>4
<1>. QED
  BY <1>1, <1>3, <1>5

-----------------------------------------------------------------------------
(* The inductive invariant                                                 *)

\* The clients whose handler has started, and the tasks that are in w.send.
Joined == {c \in Conns : phase[c] \notin {"fresh", "accepted"}}
Busy(i) == task[i].at = "send"
Has(g, m) == \E x \in DOMAIN g : g[x] = m

\* Only clients whose handler has started are on the list or were written to,
\* and each handler has started at most one task.
MembersInv ==
    /\ \A k \in DOMAIN writers : writers[k] \in Joined
    /\ \A c \in Conns \ Joined : got[c] = <<>>
    /\ started <= Cardinality(Joined)
    /\ \A i \in Tasks : i > started => task[i] = Ended
    /\ \A i \in Tasks : Busy(i) => task[i].to \in Conns /\ task[i].msg \in 1..MaxTopic

\* What is queued is newer than what a task has taken from the queue.
QueueInv ==
    /\ \A j \in DOMAIN wsQueue : wsQueue[j] <= topic
    /\ \A j, k \in DOMAIN wsQueue : j < k => wsQueue[j] < wsQueue[k]
    /\ \A c \in Conns : \A x \in DOMAIN got[c] :
           got[c][x] <= topic /\ \A j \in DOMAIN wsQueue : got[c][x] < wsQueue[j]
    /\ \A i \in Tasks : Busy(i) =>
           task[i].msg <= topic /\ \A j \in DOMAIN wsQueue : task[i].msg < wsQueue[j]

\* Each message is in the hands of one task; those it has still to come to
\* have not got it, since clients join behind it and move only towards it.
WalkInv ==
    /\ \A i, j \in Tasks : Busy(i) /\ Busy(j) /\ i # j => task[i].msg # task[j].msg
    /\ \A i \in Tasks : \A k \in DOMAIN writers :
           Busy(i) /\ k >= task[i].next => ~Has(got[writers[k]], task[i].msg)

\* As long as no handler has ended there is one task, and those it has passed
\* have got its message.
StayInv ==
    (\A c \in Conns : phase[c] # "gone") =>
        /\ started <= 1 /\ (writers = <<>> => started = 0)
        /\ \A i \in Tasks : Busy(i) => \A c \in Conns : \A x \in DOMAIN got[c] : got[c][x] <= task[i].msg
        /\ \A i \in Tasks : Busy(i) => task[i].next <= Len(writers) + 1
        /\ \A i \in Tasks : \A k \in DOMAIN writers :
               Busy(i) /\ k < task[i].next => Has(got[writers[k]], task[i].msg)

LinesInv == TypeOK /\ MembersInv /\ QueueInv /\ WalkInv /\ AtMostOnce /\ StayInv /\ InOrder

core == <<writers, wsQueue, task, started, got, topic>>

LEMMA JoinedCounted ==
    IsFiniteSet(Joined) /\ Cardinality(Joined) \in Nat /\ Cardinality(Joined) <= Cardinality(Conns)
<1>1. Joined \subseteq Conns
  BY DEF Joined
<1>. QED
  BY <1>1, ConnsCounted, FS_Subset, FS_CardinalityType

\* Steps that leave the list and the messages alone.
LEMMA PhaseStep ==
    ASSUME LinesInv, UNCHANGED core, Joined' = Joined,
           \A c \in Conns : phase[c] = "gone" <=> phase'[c] = "gone"
    PROVE  MembersInv' /\ QueueInv' /\ WalkInv' /\ AtMostOnce' /\ StayInv' /\ InOrder'
<1>. USE DEF LinesInv, core
<1>1. MembersInv'
  BY DEF MembersInv, Busy
<1>2. QueueInv'
  BY DEF QueueInv, Busy
<1>3. WalkInv' /\ AtMostOnce'
  BY DEF WalkInv, AtMostOnce, Busy, Has
<1>4. StayInv'
  BY DEF StayInv, Busy, Has
<1>5. InOrder'
  BY DEF InOrder
<1>. QED
  BY <1>1, <1>2, <1>3, <1>4, <1>5

TaskState == [at : {"ended", "get", "send"}, msg : 0..MaxTopic,
              next : 1..Cardinality(Conns) + 1, to : Conns \cup {NoConn}]

LEMMA TaskKinds ==
    /\ Ended \in TaskState /\ Getting \in TaskState /\ Ended.at = "ended" /\ Getting.at = "get"
    /\ \A m \in 0..MaxTopic, n \in 1..Cardinality(Conns) + 1, c \in Conns :
           /\ Sending(m, n, c) \in TaskState /\ Sending(m, n, c).at = "send"
           /\ Sending(m, n, c).msg = m /\ Sending(m, n, c).next = n /\ Sending(m, n, c).to = c
<1>1. 1 \in 1..Cardinality(Conns) + 1
  BY ConnsCounted
<1>2. Getting = [at |-> "get", msg |-> 0, next |-> 1, to |-> NoConn]
  BY DEF Getting, Ended
<1>. QED
  BY <1>1, <1>2 DEF Ended, Sending, TaskState

LEMMA TaskFields ==
    ASSUME NEW e \in TaskState
    PROVE  e.msg \in 0..MaxTopic /\ e.msg \in Nat
           /\ e.next \in 1..Cardinality(Conns) + 1 /\ e.next \in Nat
BY ConnsCounted DEF TaskState

\* The task i, done with its message or broken, lets go of it.
LEMMA StopStep ==
    ASSUME LinesInv, NEW i \in Tasks, i <= started, NEW e \in {Getting, Ended},
           task' = [task EXCEPT ![i] = e],
           UNCHANGED <<phase, writers, started, topic, got>>,
           \A j \in DOMAIN wsQueue' : wsQueue'[j] <= topic,
           \A j, k \in DOMAIN wsQueue' : j < k => wsQueue'[j] < wsQueue'[k],
           \A c \in Conns : \A x \in DOMAIN got[c] : \A j \in DOMAIN wsQueue' :
               got[c][x] < wsQueue'[j],
           \A t \in Tasks : Busy(t) /\ t # i => \A j \in DOMAIN wsQueue' : task[t].msg < wsQueue'[j]
    PROVE  /\ task' \in [Tasks -> TaskState]
           /\ MembersInv' /\ QueueInv' /\ WalkInv' /\ AtMostOnce' /\ StayInv' /\ InOrder'
<1>. USE DEF LinesInv
<1>1. task \in [Tasks -> TaskState] /\ started \in Nat
  BY ConnsCounted DEF TypeOK, TaskState
<1>2. Joined' = Joined
  BY DEF Joined
<1>3. task' \in [Tasks -> TaskState] /\ e.at # "send"
  BY <1>1, TaskKinds
<1>4. \A t \in Tasks : t # i => task'[t] = task[t]
  BY <1>1
<1>5. ~Busy(i)'
  BY <1>1, <1>3 DEF Busy
<1>6. \A t \in Tasks : Busy(t)' => t # i /\ Busy(t) /\ task'[t] = task[t]
  BY <1>4, <1>5 DEF Busy
<1>7. MembersInv'
  <2>1. /\ \A k \in DOMAIN writers' : writers'[k] \in Joined'
        /\ \A c \in Conns \ Joined' : got'[c] = <<>>
        /\ started' <= Cardinality(Joined')
    BY <1>2 DEF MembersInv
  <2>2. ASSUME NEW t \in Tasks, t > started PROVE task'[t] = Ended
    <3>1. t \in Int /\ i \in Int /\ started \in Int
      BY <1>1, ConnsCounted
    <3>. QED
      BY <1>4, <2>2, <3>1 DEF MembersInv
  <2>3. \A t \in Tasks : Busy(t)' => task'[t].to \in Conns /\ task'[t].msg \in 1..MaxTopic
    BY <1>6 DEF MembersInv
  <2>. QED
    BY <2>1, <2>2, <2>3 DEF MembersInv
<1>8. QueueInv'
  BY <1>6 DEF QueueInv
<1>9. WalkInv'
  BY <1>6 DEF WalkInv
<1>10. AtMostOnce' /\ InOrder'
  BY DEF AtMostOnce, InOrder
<1>11. StayInv'
  BY <1>6 DEF StayInv
<1>. QED
  BY <1>3, <1>7, <1>8, <1>9, <1>10, <1>11

\* The task i, with the message m in its hands, goes on at place n.
LEMMA SendStep ==
    ASSUME LinesInv, NEW i \in Tasks, i <= started,
           NEW m \in 1..MaxTopic, NEW n \in 1..Cardinality(Conns) + 1, SendNext(i, m, n),
           UNCHANGED <<phase, writers, started, topic>>,
           wsQueue' \in Seq(1..MaxTopic), m <= topic,
           \A j \in DOMAIN wsQueue' : m < wsQueue'[j] /\ wsQueue'[j] <= topic,
           \A j, k \in DOMAIN wsQueue' : j < k => wsQueue'[j] < wsQueue'[k],
           \A c \in Conns : \A x \in DOMAIN got[c] : \A j \in DOMAIN wsQueue' :
               got[c][x] < wsQueue'[j],
           \A t \in Tasks : Busy(t) /\ t # i =>
               task[t].msg # m /\ \A j \in DOMAIN wsQueue' : task[t].msg < wsQueue'[j],
           \A k \in DOMAIN writers : k >= n => ~Has(got[writers[k]], m),
           (\A c \in Conns : phase[c] # "gone") =>
               /\ \A c \in Conns : \A x \in DOMAIN got[c] : got[c][x] <= m
               /\ \A k \in DOMAIN writers : k < n => Has(got[writers[k]], m)
    PROVE  /\ task' \in [Tasks -> TaskState] /\ got' \in [Conns -> Seq(1..MaxTopic)]
           /\ failed' \in BOOLEAN
           /\ MembersInv' /\ QueueInv' /\ WalkInv' /\ AtMostOnce' /\ StayInv' /\ InOrder'
<1>. USE DEF LinesInv
<1>1. /\ task \in [Tasks -> TaskState] /\ got \in [Conns -> Seq(1..MaxTopic)]
      /\ writers \in Seq(Conns) /\ IsInjective(writers) /\ started \in Nat
      /\ phase \in [Conns -> {"fresh", "accepted", "open", "closed", "gone", "broken"}] /\ topic \in Nat
  BY ConnsCounted, SMTT(30) DEF TypeOK, TaskState
<1>2. DOMAIN writers = 1..Len(writers) /\ Len(writers) \in Nat
  BY <1>1, LenProperties
<1>3. Joined' = Joined
  BY DEF Joined
<1>9. ASSUME NEW t \in Tasks, t > started PROVE t # i /\ task[t] = Ended
  <2>1. t \in Int /\ i \in Int /\ started \in Int
    BY <1>1, ConnsCounted
  <2>. QED
    BY <1>9, <2>1 DEF MembersInv
\* The end of the list, or a connection that is closed.
<1>4. ASSUME NEW e \in {Getting, Ended}, task' = [task EXCEPT ![i] = e], got' = got,
             failed' \in BOOLEAN
      PROVE  /\ task' \in [Tasks -> TaskState] /\ got' \in [Conns -> Seq(1..MaxTopic)]
             /\ failed' \in BOOLEAN
             /\ MembersInv' /\ QueueInv' /\ WalkInv' /\ AtMostOnce' /\ StayInv' /\ InOrder'
  <2>1. \A t \in Tasks : Busy(t) /\ t # i => \A j \in DOMAIN wsQueue' : task[t].msg < wsQueue'[j]
    OBVIOUS
  <2>2. \A j \in DOMAIN wsQueue' : wsQueue'[j] <= topic
    OBVIOUS
  <2>3. /\ task' \in [Tasks -> TaskState]
        /\ MembersInv' /\ QueueInv' /\ WalkInv' /\ AtMostOnce' /\ StayInv' /\ InOrder'
    BY <1>4, <2>1, <2>2, StopStep
  <2>. QED
    BY <1>1, <1>4, <2>3
\* The writer c at place n is written to.
<1>5. ASSUME ~(n > Len(writers)), phase[writers[n]] = "open",
             got' = [got EXCEPT ![writers[n]] = Append(@, m)],
             task' = [task EXCEPT ![i] = Sending(m, After(n), writers[n])], failed' = failed
      PROVE  /\ task' \in [Tasks -> TaskState] /\ got' \in [Conns -> Seq(1..MaxTopic)]
             /\ failed' \in BOOLEAN
             /\ MembersInv' /\ QueueInv' /\ WalkInv' /\ AtMostOnce' /\ StayInv' /\ InOrder'
  <2> DEFINE c == writers[n]
  <2>1. n \in DOMAIN writers /\ c \in Conns /\ c \in Joined
    BY <1>1, <1>2, <1>5, ElementOfSeq DEF Joined
  <2>2. n + 1 \in 1..Cardinality(Conns) + 1
    BY <1>1, <1>2, <2>1, ConnsCounted, InjectiveIsShort
  <2>3. /\ got[c] \in Seq(1..MaxTopic) /\ got'[c] = Append(got[c], m)
        /\ \A d \in Conns : d # c => got'[d] = got[d]
        /\ got' \in [Conns -> Seq(1..MaxTopic)]
    BY <1>1, <1>5, <2>1, AppendFacts
  <2>4. /\ Len(got[c]) \in Nat /\ DOMAIN got[c] = 1..Len(got[c])
        /\ DOMAIN got'[c] = 1..Len(got[c]) + 1
        /\ \A x \in DOMAIN got[c] : got'[c][x] = got[c][x]
        /\ got'[c][Len(got[c]) + 1] = m
    <3>1. ASSUME NEW s \in Seq(1..MaxTopic)
          PROVE  /\ DOMAIN s = 1..Len(s) /\ Len(s) \in Nat /\ DOMAIN Append(s, m) = 1..Len(s) + 1
                 /\ \A x \in 1..Len(s) : Append(s, m)[x] = s[x]
                 /\ Append(s, m)[Len(s) + 1] = m
      BY AppendFacts
    <3>2. \A g \in Seq(1..MaxTopic) : \A h : h = Append(g, m) =>
              /\ Len(g) \in Nat /\ DOMAIN g = 1..Len(g) /\ DOMAIN h = 1..Len(g) + 1
              /\ \A x \in DOMAIN g : h[x] = g[x]
              /\ h[Len(g) + 1] = m
      BY ONLY <3>1
    <3> HIDE DEF c
    <3>3. got[c] \in Seq(1..MaxTopic) /\ got'[c] = Append(got[c], m)
      BY <2>3
    <3>4. \A h : h = Append(got[c], m) =>
              /\ Len(got[c]) \in Nat /\ DOMAIN got[c] = 1..Len(got[c])
              /\ DOMAIN h = 1..Len(got[c]) + 1
              /\ \A x \in DOMAIN got[c] : h[x] = got[c][x]
              /\ h[Len(got[c]) + 1] = m
      BY <3>2, <3>3
    <3>5. /\ DOMAIN got'[c] = 1..Len(got[c]) + 1
          /\ \A x \in DOMAIN got[c] : got'[c][x] = got[c][x]
          /\ got'[c][Len(got[c]) + 1] = m
      BY <3>3, <3>4
    <3>. QED
      BY <3>4, <3>5
  <2>5. /\ task' \in [Tasks -> TaskState] /\ \A t \in Tasks : t # i => task'[t] = task[t]
        /\ Busy(i)' /\ task'[i].msg = m /\ task'[i].next = n + 1 /\ task'[i].to = c
    <3>1. /\ Sending(m, n + 1, c) \in TaskState /\ Sending(m, n + 1, c).at = "send"
          /\ Sending(m, n + 1, c).msg = m /\ Sending(m, n + 1, c).next = n + 1
          /\ Sending(m, n + 1, c).to = c
      BY <2>1, <2>2, TaskKinds
    <3>2. task' = [task EXCEPT ![i] = Sending(m, n + 1, c)]
      BY <1>5 DEF After
    <3>. QED
      BY <1>1, <3>1, <3>2 DEF Busy
  <2> HIDE DEF c
  <2>6. /\ \A x \in DOMAIN got'[c] :
               (x \in DOMAIN got[c] /\ got'[c][x] = got[c][x]) \/ got'[c][x] = m
        /\ \A d \in Conns : \A k : Has(got'[d], k) <=> Has(got[d], k) \/ (d = c /\ k = m)
    <3>1. \A x \in DOMAIN got'[c] : x \in DOMAIN got[c] \/ x = Len(got[c]) + 1
      BY <2>4
    <3>2. Len(got[c]) + 1 \in DOMAIN got'[c] /\ DOMAIN got[c] \subseteq DOMAIN got'[c]
      BY <2>4
    <3>. QED
      BY <2>3, <2>4, <3>1, <3>2 DEF Has
  <2>7. \A t \in Tasks : Busy(t)' /\ t # i => Busy(t) /\ task'[t] = task[t]
    BY <2>5 DEF Busy
  <2>8. MembersInv'
    <3>1. /\ \A k \in DOMAIN writers' : writers'[k] \in Joined'
          /\ \A d \in Conns \ Joined' : got'[d] = <<>>
          /\ started' <= Cardinality(Joined')
      BY <1>3, <2>1, <2>3 DEF MembersInv
    <3>2. \A t \in Tasks : t > started => task'[t] = Ended
      BY <1>9, <2>5
    <3>3. \A t \in Tasks : Busy(t)' => task'[t].to \in Conns /\ task'[t].msg \in 1..MaxTopic
      BY <2>1, <2>5, <2>7 DEF MembersInv
    <3>. QED
      BY <3>1, <3>2, <3>3 DEF MembersInv
  <2>9. QueueInv'
    <3>1. \A d \in Conns : \A x \in DOMAIN got'[d] :
              got'[d][x] <= topic /\ \A j \in DOMAIN wsQueue' : got'[d][x] < wsQueue'[j]
      <4> SUFFICES ASSUME NEW d \in Conns, NEW x \in DOMAIN got'[d]
                   PROVE  got'[d][x] <= topic /\ \A j \in DOMAIN wsQueue' : got'[d][x] < wsQueue'[j]
        OBVIOUS
      <4>1. \A y \in DOMAIN got[d] : got[d][y] <= topic
        BY DEF QueueInv
      <4>2. CASE d # c
        BY <2>3, <4>1, <4>2
      <4>3. CASE d = c
        <5>1. CASE got'[c][x] = m
          BY <4>3, <5>1
        <5>2. CASE x \in DOMAIN got[c] /\ got'[c][x] = got[c][x]
          BY <4>1, <4>3, <5>2
        <5>. QED
          BY <2>6, <4>3, <5>1, <5>2
      <4>. QED
        BY <4>2, <4>3
    <3>2. \A t \in Tasks : Busy(t)' =>
              task'[t].msg <= topic /\ \A j \in DOMAIN wsQueue' : task'[t].msg < wsQueue'[j]
      BY <2>5, <2>7 DEF QueueInv
    <3>. QED
      BY <3>1, <3>2 DEF QueueInv
  <2>10. WalkInv'
    <3>1. \A t, u \in Tasks : Busy(t)' /\ Busy(u)' /\ t # u => task'[t].msg # task'[u].msg
      BY <2>5, <2>7, <1>1 DEF WalkInv
    <3>2. ASSUME NEW t \in Tasks, NEW k \in DOMAIN writers, Busy(t)', k >= task'[t].next
          PROVE  ~Has(got'[writers[k]], task'[t].msg)
      <4>1. writers[k] \in Conns /\ k \in Nat /\ writers' = writers
        BY <1>1, <1>2, ElementOfSeq
      <4>2. CASE t = i
        <5>1. k >= n + 1 /\ k # n
          BY <1>2, <2>5, <3>2, <4>1, <4>2
        <5>2. writers[k] # c
          BY <1>1, <2>1, <5>1 DEF IsInjective, c
        <5>3. ~Has(got[writers[k]], m)
          BY <1>2, <3>2, <5>1
        <5>. QED
          BY <2>5, <2>6, <4>1, <4>2, <5>2, <5>3
      <4>3. CASE t # i
        <5>1. Busy(t) /\ task'[t] = task[t] /\ task[t].msg # m
          BY <2>7, <3>2, <4>3
        <5>2. ~Has(got[writers[k]], task[t].msg)
          BY <3>2, <5>1 DEF WalkInv
        <5>. QED
          BY <2>6, <4>1, <5>1, <5>2
      <4>. QED
        BY <4>2, <4>3
    <3>. QED
      BY <3>1, <3>2 DEF WalkInv
  <2>11. AtMostOnce'
    <3>1. ~Has(got[c], m)
      BY <1>2, <2>1 DEF c
    <3>2. IsInjective(got'[c])
      <4>1. IsInjective(got[c])
        BY <2>1 DEF AtMostOnce
      <4>2. ASSUME NEW x \in DOMAIN got'[c], NEW y \in DOMAIN got'[c], got'[c][x] = got'[c][y]
            PROVE  x = y
        <5>1. /\ x \in DOMAIN got[c] \/ x = Len(got[c]) + 1
              /\ y \in DOMAIN got[c] \/ y = Len(got[c]) + 1
          BY <2>4
        <5>2. \A z \in DOMAIN got[c] : got[c][z] # m
          BY <3>1 DEF Has
        <5>. QED
          BY <2>4, <4>1, <4>2, <5>1, <5>2 DEF IsInjective
      <4>. QED
        BY <4>2 DEF IsInjective
    <3>. QED
      BY <2>3, <3>2 DEF AtMostOnce
  <2>12. ASSUME \A d \in Conns : phase[d] # "gone" PROVE \A t \in Tasks : Busy(t)' => t = i
    <3>1. started <= 1
      BY <2>12 DEF StayInv
    <3>2. ASSUME NEW t \in Tasks, t # i, Busy(t) PROVE FALSE
      <4>1. t > started
        BY <1>1, <3>1, <3>2, ConnsCounted
      <4>. QED
        BY <3>2, <4>1 DEF MembersInv, Busy, Ended
    <3>. QED
      BY <2>7, <3>2
  <2>13. StayInv'
    <3> SUFFICES ASSUME \A d \in Conns : phase[d] # "gone"
                 PROVE  /\ started <= 1 /\ (writers = <<>> => started = 0)
                        /\ \A d \in Conns : \A x \in DOMAIN got'[d] : got'[d][x] <= m
                        /\ n + 1 <= Len(writers) + 1
                        /\ \A k \in DOMAIN writers : k < n + 1 => Has(got'[writers[k]], m)
      BY <2>5, <2>12 DEF StayInv
    <3>1. started <= 1 /\ (writers = <<>> => started = 0)
      BY DEF StayInv
    <3>2. \A d \in Conns : \A x \in DOMAIN got'[d] : got'[d][x] <= m
      <4>1. \A d \in Conns : \A x \in DOMAIN got[d] : got[d][x] <= m
        OBVIOUS
      <4>2. \A d \in Conns : \A x \in DOMAIN got'[d] :
                (x \in DOMAIN got[d] /\ got'[d][x] = got[d][x]) \/ got'[d][x] = m
        BY <2>3, <2>6
      <4>. QED
        BY <4>1, <4>2
    <3>3. ASSUME NEW k \in DOMAIN writers, k < n + 1 PROVE Has(got'[writers[k]], m)
      <4>1. k < n \/ k = n
        BY <1>2, <3>3
      <4>2. writers[k] \in Conns
        BY <1>1, <1>2, ElementOfSeq
      <4>. QED
        BY <2>6, <4>1, <4>2 DEF c
    <3>4. n + 1 <= Len(writers) + 1
      BY <1>2, <2>1
    <3>. QED
      BY <3>1, <3>2, <3>3, <3>4
  <2>14. InOrder'
    <3> SUFFICES ASSUME \A d \in Conns : phase[d] # "gone", NEW d \in Conns,
                        NEW x \in DOMAIN got'[d], NEW y \in DOMAIN got'[d], x < y
                 PROVE  got'[d][x] < got'[d][y]
      BY DEF InOrder
    <3>1. CASE d # c
      BY <2>3, <3>1 DEF InOrder
    <3>2. CASE d = c
      <4>1. /\ x \in DOMAIN got[c]
            /\ y \in DOMAIN got[c] \/ y = Len(got[c]) + 1
        BY <2>4, <3>2
      <4>2. CASE y \in DOMAIN got[c]
        BY <2>1, <2>4, <3>2, <4>1, <4>2 DEF InOrder
      <4>3. CASE y = Len(got[c]) + 1
        <5>1. got[c][x] <= m
          BY <2>1, <4>1
        <5>2. got[c][x] # m
          <6>1. ~Has(got[c], m)
            BY <1>2, <2>1 DEF c
          <6>. QED
            BY <4>1, <6>1 DEF Has
        <5>3. got[c][x] \in 1..MaxTopic
          BY <2>1, <2>3, <2>4, <4>1, ElementOfSeq
        <5>. QED
          BY <2>4, <3>2, <4>1, <4>3, <5>1, <5>2, <5>3
      <4>. QED
        BY <4>1, <4>2, <4>3
    <3>. QED
      BY <3>1, <3>2
  <2>15. failed' \in BOOLEAN
    BY <1>5 DEF TypeOK
  <2>. QED
    BY <2>3, <2>5, <2>8, <2>9, <2>10, <2>11, <2>13, <2>14, <2>15
<1>6. CASE n > Len(writers)
  <2>1. task' = [task EXCEPT ![i] = Getting] /\ got' = got /\ failed' \in BOOLEAN
    BY <1>6 DEF SendNext, TypeOK
  <2>. QED
    BY <1>4, <2>1
<1>7. CASE ~(n > Len(writers)) /\ phase[writers[n]] # "open"
  <2>1. task' = [task EXCEPT ![i] = Ended] /\ got' = got /\ failed' \in BOOLEAN
    BY <1>7 DEF SendNext, Die
  <2>. QED
    BY <1>4, <2>1
<1>8. CASE ~(n > Len(writers)) /\ phase[writers[n]] = "open"
  BY <1>5, <1>8 DEF SendNext
<1>. QED
  BY <1>6, <1>7, <1>8

-----------------------------------------------------------------------------
(* The actions                                                             *)

\* A handler starts: its client joins the list behind all the others.
LEMMA StartStep ==
    ASSUME LinesInv, NEW c \in Conns, StartHandler(c)
    PROVE  LinesInv'
<1>. USE DEF LinesInv
<1>1. /\ task \in [Tasks -> TaskState] /\ got \in [Conns -> Seq(1..MaxTopic)]
      /\ writers \in Seq(Conns) /\ IsInjective(writers) /\ started \in Nat
      /\ phase \in [Conns -> {"fresh", "accepted", "open", "closed", "gone", "broken"}]
  BY ConnsCounted DEF TypeOK, TaskState
<1>2. /\ phase[c] = "accepted" /\ phase' = [phase EXCEPT ![c] = "open"]
      /\ writers' = Append(writers, c)
      /\ IF writers = <<>>
         THEN started' = started + 1 /\ task' = [task EXCEPT ![started + 1] = Getting]
         ELSE UNCHANGED <<started, task>>
      /\ UNCHANGED <<inbox, wsQueue, got, mqttVars, closing, srv, topic, web, failed>>
  BY DEF StartHandler, FirstClient
<1>3. c \notin Joined /\ Joined' = Joined \cup {c}
  BY <1>1, <1>2 DEF Joined
<1>4. /\ Cardinality(Joined') = Cardinality(Joined) + 1 /\ Cardinality(Joined) \in Nat
      /\ Cardinality(Joined') <= Cardinality(Conns)
  <2>1. IsFiniteSet(Joined) /\ Cardinality(Joined) \in Nat
    BY JoinedCounted
  <2>2. Joined' \subseteq Conns
    BY DEF Joined
  <2>. QED
    BY <1>3, <2>1, <2>2, FS_AddElement, FS_Subset
<1>5. /\ writers' \in Seq(Conns) /\ Len(writers) \in Nat /\ DOMAIN writers = 1..Len(writers)
      /\ DOMAIN writers' = 1..Len(writers) + 1 /\ Len(writers') = Len(writers) + 1
      /\ \A k \in 1..Len(writers) : writers'[k] = writers[k]
      /\ writers'[Len(writers) + 1] = c
  BY <1>1, <1>2, AppendFacts, LenProperties
<1>6. \A k \in DOMAIN writers : writers[k] \in Joined /\ writers[k] # c
  BY <1>3 DEF MembersInv
<1>7. started + 1 \in Tasks /\ task[started + 1] = Ended
  <2>1. started + 1 \in Tasks
    BY <1>1, <1>4, ConnsCounted DEF MembersInv
  <2>2. started + 1 > started
    BY <1>1
  <2>. QED
    BY <2>1, <2>2 DEF MembersInv
<1>8. /\ task' \in [Tasks -> TaskState] /\ started' \in Nat
      /\ started' = started \/ started' = started + 1
      /\ \A t \in Tasks : task'[t] = task[t] \/ (t = started + 1 /\ task'[t] = Getting /\ started' = started + 1)
  <2>1. CASE writers = <<>>
    <3>1. started' = started + 1 /\ task' = [task EXCEPT ![started + 1] = Getting]
      BY <1>2, <2>1
    <3>2. task' \in [Tasks -> TaskState]
      BY <1>1, <3>1, TaskKinds
    <3>3. \A t \in Tasks : task'[t] = IF t = started + 1 THEN Getting ELSE task[t]
      BY <1>1, <3>1
    <3>. QED
      BY <1>1, <3>1, <3>2, <3>3
  <2>2. CASE writers # <<>>
    BY <1>1, <1>2, <2>2
  <2>. QED
    BY <2>1, <2>2
<1>9. \A t \in Tasks : Busy(t)' => Busy(t) /\ task'[t] = task[t]
  BY <1>8, TaskKinds DEF Busy
<1>10. IsInjective(writers')
  <2> SUFFICES ASSUME NEW j \in DOMAIN writers', NEW k \in DOMAIN writers', writers'[j] = writers'[k]
               PROVE  j = k
    BY DEF IsInjective
  <2>1. /\ j \in DOMAIN writers \/ j = Len(writers) + 1
        /\ k \in DOMAIN writers \/ k = Len(writers) + 1
    BY <1>5
  <2>. QED
    BY <1>1, <1>5, <1>6, <2>1 DEF IsInjective
<1>11. TypeOK'
  <2>1. phase' \in [Conns -> {"fresh", "accepted", "open", "closed", "gone", "broken"}]
    BY <1>1, <1>2
  <2>2. started' \in 0..Cardinality(Conns)
    BY <1>2, <1>7, ConnsCounted, SMTT(30) DEF TypeOK
  <2>3. UNCHANGED <<mqtt, mqttTask, mqttQueue, published>>
    BY <1>2 DEF mqttVars
  <2>. QED
    BY <1>2, <1>5, <1>8, <1>10, <2>1, <2>2, <2>3 DEF TypeOK, TaskState
<1>12. MembersInv'
  <2>1. ASSUME NEW k \in DOMAIN writers' PROVE writers'[k] \in Joined'
    <3>1. k \in DOMAIN writers \/ k = Len(writers) + 1
      BY <1>5
    <3>. QED
      BY <1>3, <1>5, <1>6, <3>1
  <2>2. \A d \in Conns \ Joined' : got'[d] = <<>>
    BY <1>2, <1>3 DEF MembersInv
  <2>3. started' <= Cardinality(Joined')
    BY <1>1, <1>4, <1>8 DEF MembersInv
  <2>4. ASSUME NEW t \in Tasks, t > started' PROVE task'[t] = Ended
    <3>1. t > started /\ (started' = started + 1 => t # started + 1)
      BY <1>1, <1>8, <2>4, ConnsCounted
    <3>. QED
      BY <1>8, <3>1 DEF MembersInv
  <2>5. \A t \in Tasks : Busy(t)' => task'[t].to \in Conns /\ task'[t].msg \in 1..MaxTopic
    BY <1>9 DEF MembersInv
  <2>. QED
    BY <2>1, <2>2, <2>3, <2>4, <2>5 DEF MembersInv
<1>13. QueueInv'
  BY <1>2, <1>9 DEF QueueInv
<1>14. WalkInv'
  <2>1. \A t, u \in Tasks : Busy(t)' /\ Busy(u)' /\ t # u => task'[t].msg # task'[u].msg
    BY <1>9 DEF WalkInv
  <2>2. ASSUME NEW t \in Tasks, NEW k \in DOMAIN writers', Busy(t)', k >= task'[t].next
        PROVE  ~Has(got'[writers'[k]], task'[t].msg)
    <3>1. CASE k \in DOMAIN writers
      BY <1>2, <1>5, <1>9, <2>2, <3>1 DEF WalkInv
    <3>2. CASE k = Len(writers) + 1
      <4>1. writers'[k] = c /\ got'[c] = <<>>
        BY <1>2, <1>3, <1>5, <3>2 DEF MembersInv
      <4>. QED
        BY <4>1 DEF Has
    <3>. QED
      BY <1>5, <3>1, <3>2
  <2>. QED
    BY <2>1, <2>2 DEF WalkInv
<1>15. AtMostOnce'
  BY <1>2 DEF AtMostOnce
<1>16. (\A d \in Conns : phase'[d] # "gone") => \A d \in Conns : phase[d] # "gone"
  BY <1>1, <1>2
<1>17. InOrder'
  BY <1>2, <1>16 DEF InOrder
<1>18. StayInv'
  <2> SUFFICES ASSUME \A d \in Conns : phase'[d] # "gone"
               PROVE  /\ started' <= 1 /\ (writers' = <<>> => started' = 0)
                      /\ \A t \in Tasks : Busy(t)' =>
                             \A d \in Conns : \A x \in DOMAIN got'[d] : got'[d][x] <= task'[t].msg
                      /\ \A t \in Tasks : Busy(t)' => task'[t].next <= Len(writers') + 1
                      /\ \A t \in Tasks : \A k \in DOMAIN writers' :
                             Busy(t)' /\ k < task'[t].next => Has(got'[writers'[k]], task'[t].msg)
    BY DEF StayInv
  <2>1. \A d \in Conns : phase[d] # "gone"
    BY <1>16
  <2>2. started' <= 1 /\ writers' # <<>>
    BY <1>2, <1>5, <2>1 DEF StayInv
  <2>3. \A t \in Tasks : Busy(t)' =>
            \A d \in Conns : \A x \in DOMAIN got'[d] : got'[d][x] <= task'[t].msg
    BY <1>2, <1>9, <2>1 DEF StayInv
  <2>4. ASSUME NEW t \in Tasks, Busy(t)'
        PROVE  task'[t].next \in Nat /\ task'[t].next <= Len(writers) + 1
    <3>1. Busy(t) /\ task'[t] = task[t]
      BY <1>9, <2>4
    <3>2. task[t].next \in Nat
      BY <1>1, <3>1, TaskFields
    <3>3. task[t].next <= Len(writers) + 1
      BY <2>1, <3>1 DEF StayInv
    <3>. QED
      BY <3>1, <3>2, <3>3
  <2>5. ASSUME NEW t \in Tasks, NEW k \in DOMAIN writers', Busy(t)', k < task'[t].next
        PROVE  Has(got'[writers'[k]], task'[t].msg)
    <3>1. k \in DOMAIN writers
      BY <1>5, <2>4, <2>5
    <3>. QED
      BY <1>2, <1>5, <1>9, <2>1, <2>5, <3>1 DEF StayInv
  <2>. QED
    BY <1>5, <2>2, <2>3, <2>4, <2>5
<1>. QED
  BY <1>11, <1>12, <1>13, <1>14, <1>15, <1>17, <1>18

\* A handler ends: its client is taken off the list, and those behind move up.
LEMMA EndStep ==
    ASSUME LinesInv, NEW c \in Conns, EndHandler(c)
    PROVE  LinesInv'
<1>. USE DEF LinesInv
<1>1. /\ task \in [Tasks -> TaskState] /\ got \in [Conns -> Seq(1..MaxTopic)]
      /\ writers \in Seq(Conns) /\ IsInjective(writers) /\ inbox \in [Conns -> Seq(0..MaxWeb + 1)]
      /\ phase \in [Conns -> {"fresh", "accepted", "open", "closed", "gone", "broken"}]
  BY DEF TypeOK, TaskState
<1>2. PICK p \in DOMAIN writers : writers' = RemoveAt(writers, p)
  BY DEF EndHandler
<1>3. /\ phase[c] \in {"open", "closed"} /\ phase' = [phase EXCEPT ![c] = "gone"]
      /\ inbox' = [inbox EXCEPT ![c] = <<>>]
      /\ UNCHANGED <<wsQueue, task, started, got, mqtt, mqttTask, mqttQueue, published,
                     closing, srv, topic, web, failed>>
  BY DEF EndHandler, wsVars, mqttVars
<1>4. phase'[c] = "gone" /\ Joined' = Joined
  BY <1>1, <1>3 DEF Joined
<1>5. /\ writers' \in Seq(Conns) /\ DOMAIN writers = 1..Len(writers) /\ Len(writers) \in Nat
      /\ \A k \in DOMAIN writers' :
             /\ k \in Nat
             /\ IF k < p THEN k \in DOMAIN writers /\ writers'[k] = writers[k]
                         ELSE k + 1 \in DOMAIN writers /\ writers'[k] = writers[k + 1]
  BY <1>1, <1>2, RemoveFacts, LenProperties, SMTT(30)
<1>6. IsInjective(writers')
  <2> SUFFICES ASSUME NEW j \in DOMAIN writers', NEW k \in DOMAIN writers', writers'[j] = writers'[k]
               PROVE  j = k
    BY DEF IsInjective
  <2>1. p \in Nat /\ j \in Nat /\ k \in Nat
    BY <1>5
  <2>2. \A x, y \in DOMAIN writers : writers[x] = writers[y] => x = y
    BY <1>1 DEF IsInjective
  <2>3. CASE j < p
    <3>1. j \in DOMAIN writers /\ writers'[j] = writers[j]
      BY <1>5, <2>3
    <3>2. CASE k < p
      BY <1>5, <2>2, <3>1, <3>2
    <3>3. CASE ~(k < p)
      <4>1. k + 1 \in DOMAIN writers /\ writers'[k] = writers[k + 1]
        BY <1>5, <3>3
      <4>2. j = k + 1
        BY <2>2, <3>1, <4>1
      <4>. QED
        BY <2>1, <2>3, <3>3, <4>2
    <3>. QED
      BY <3>2, <3>3
  <2>4. CASE ~(j < p)
    <3>1. j + 1 \in DOMAIN writers /\ writers'[j] = writers[j + 1]
      BY <1>5, <2>4
    <3>2. CASE k < p
      <4>1. k \in DOMAIN writers /\ writers'[k] = writers[k]
        BY <1>5, <3>2
      <4>2. k = j + 1
        BY <2>2, <3>1, <4>1
      <4>. QED
        BY <2>1, <2>4, <3>2, <4>2
    <3>3. CASE ~(k < p)
      <4>1. k + 1 \in DOMAIN writers /\ writers'[k] = writers[k + 1]
        BY <1>5, <3>3
      <4>2. k + 1 = j + 1
        BY <2>2, <3>1, <4>1
      <4>. QED
        BY <2>1, <4>2
    <3>. QED
      BY <3>2, <3>3
  <2>. QED
    BY <2>3, <2>4
<1>7. TypeOK'
  <2>1. phase' \in [Conns -> {"fresh", "accepted", "open", "closed", "gone", "broken"}]
    BY <1>1, <1>3
  <2>2. inbox' \in [Conns -> Seq(0..MaxWeb + 1)]
    BY <1>1, <1>3
  <2>. QED
    BY <1>3, <1>5, <1>6, <2>1, <2>2 DEF TypeOK
<1>8. MembersInv'
  <2>1. \A k \in DOMAIN writers' : writers'[k] \in Joined'
    BY <1>4, <1>5 DEF MembersInv
  <2>. QED
    BY <1>3, <1>4, <2>1 DEF MembersInv, Busy
<1>9. QueueInv'
  BY <1>3 DEF QueueInv, Busy
<1>10. WalkInv'
  <2>1. \A t, u \in Tasks : Busy(t)' /\ Busy(u)' /\ t # u => task'[t].msg # task'[u].msg
    BY <1>3 DEF WalkInv, Busy
  <2>2. ASSUME NEW t \in Tasks, NEW k \in DOMAIN writers', Busy(t)', k >= task'[t].next
        PROVE  ~Has(got'[writers'[k]], task'[t].msg)
    <3>1. Busy(t) /\ task'[t] = task[t] /\ got' = got
      BY <1>3, <2>2 DEF Busy
    <3>2. task[t].next \in Nat
      BY <1>1, TaskFields
    <3>3. PICK q \in DOMAIN writers : writers'[k] = writers[q] /\ q >= k /\ q \in Nat /\ k \in Nat
      <4>1. CASE k < p
        BY <1>5, <4>1
      <4>2. CASE ~(k < p)
        BY <1>5, <4>2
      <4>. QED
        BY <4>1, <4>2
    <3>4. q >= task[t].next
      BY <2>2, <3>1, <3>2, <3>3
    <3>. QED
      BY <3>1, <3>3, <3>4 DEF WalkInv
  <2>. QED
    BY <2>1, <2>2 DEF WalkInv
<1>11. AtMostOnce'
  BY <1>3 DEF AtMostOnce
<1>12. StayInv' /\ InOrder'
  BY <1>4 DEF StayInv, InOrder
<1>. QED
  BY <1>7, <1>8, <1>9, <1>10, <1>11, <1>12

\* A message of the topic arrives: it is the newest.
LEMMA TopicStep ==
    ASSUME LinesInv, TopicMessage
    PROVE  LinesInv'
<1>. USE DEF LinesInv
<1>1. /\ wsQueue \in Seq(1..MaxTopic) /\ topic \in 0..MaxTopic /\ got \in [Conns -> Seq(1..MaxTopic)]
      /\ task \in [Tasks -> TaskState]
  BY DEF TypeOK, TaskState
<1>2. /\ topic < MaxTopic /\ topic' = topic + 1 /\ wsQueue' = Append(wsQueue, topic + 1)
      /\ UNCHANGED <<phase, inbox, writers, task, started, got, mqtt, mqttTask, mqttQueue,
                     published, closing, srv, web, failed>>
  BY DEF TopicMessage, connVars, mqttVars
<1>3. topic \in Nat /\ topic + 1 \in 1..MaxTopic /\ topic' \in 0..MaxTopic
  BY <1>1, <1>2
<1>4. /\ wsQueue' \in Seq(1..MaxTopic) /\ Len(wsQueue) \in Nat
      /\ DOMAIN wsQueue = 1..Len(wsQueue) /\ DOMAIN wsQueue' = 1..Len(wsQueue) + 1
      /\ \A j \in 1..Len(wsQueue) : wsQueue'[j] = wsQueue[j]
      /\ wsQueue'[Len(wsQueue) + 1] = topic + 1
  BY <1>1, <1>2, <1>3, AppendFacts
<1>5. TypeOK'
  BY <1>2, <1>3, <1>4 DEF TypeOK
<1>6. /\ Joined' = Joined
      /\ \A t \in Tasks : Busy(t)' <=> Busy(t)
  BY <1>2 DEF Joined, Busy
<1>7. MembersInv'
  BY <1>2, <1>6 DEF MembersInv
<1>8. \A j \in DOMAIN wsQueue' : \/ j \in DOMAIN wsQueue /\ wsQueue'[j] = wsQueue[j]
                                 \/ j = Len(wsQueue) + 1 /\ wsQueue'[j] = topic + 1
  BY <1>4
<1>9. QueueInv'
  <2>1. \A j \in DOMAIN wsQueue : wsQueue[j] \in Nat /\ wsQueue[j] <= topic
    BY <1>1, ElementOfSeq, LenProperties DEF QueueInv
  <2>2. \A j \in DOMAIN wsQueue' : wsQueue'[j] <= topic'
    BY <1>2, <1>3, <1>8, <2>1
  <2>3. ASSUME NEW j \in DOMAIN wsQueue', NEW k \in DOMAIN wsQueue', j < k
        PROVE  wsQueue'[j] < wsQueue'[k]
    <3>1. j \in DOMAIN wsQueue /\ wsQueue'[j] = wsQueue[j]
      BY <1>4, <1>8, <2>3
    <3>2. CASE k \in DOMAIN wsQueue /\ wsQueue'[k] = wsQueue[k]
      BY <2>3, <3>1, <3>2 DEF QueueInv
    <3>3. CASE wsQueue'[k] = topic + 1
      BY <1>3, <2>1, <3>1, <3>3
    <3>. QED
      BY <1>8, <3>2, <3>3
  <2>4. ASSUME NEW d \in Conns, NEW x \in DOMAIN got'[d]
        PROVE  got'[d][x] <= topic' /\ \A j \in DOMAIN wsQueue' : got'[d][x] < wsQueue'[j]
    <3>1. got'[d][x] = got[d][x] /\ x \in DOMAIN got[d] /\ got[d][x] \in Nat
      BY <1>1, <1>2, <2>4, ElementOfSeq, LenProperties
    <3>2. got[d][x] <= topic /\ \A j \in DOMAIN wsQueue : got[d][x] < wsQueue[j]
      BY <3>1 DEF QueueInv
    <3>. QED
      BY <1>2, <1>3, <1>8, <3>1, <3>2
  <2>5. ASSUME NEW t \in Tasks, Busy(t)'
        PROVE  task'[t].msg <= topic' /\ \A j \in DOMAIN wsQueue' : task'[t].msg < wsQueue'[j]
    <3>1. Busy(t) /\ task'[t] = task[t] /\ task[t].msg \in Nat
      BY <1>1, <1>2, <1>6, <2>5, TaskFields
    <3>2. task[t].msg <= topic /\ \A j \in DOMAIN wsQueue : task[t].msg < wsQueue[j]
      BY <3>1 DEF QueueInv
    <3>. QED
      BY <1>2, <1>3, <1>8, <3>1, <3>2
  <2>. QED
    BY <2>2, <2>3, <2>4, <2>5 DEF QueueInv
<1>10. WalkInv' /\ AtMostOnce' /\ StayInv' /\ InOrder'
  BY <1>2, <1>6 DEF WalkInv, AtMostOnce, StayInv, InOrder
<1>. QED
  BY <1>5, <1>7, <1>9, <1>10

\* What a task that is not ended is: one of those that were started.
LEMMA RunningStarted ==
    ASSUME LinesInv, NEW i \in Tasks, task[i].at # "ended"
    PROVE  i <= started /\ started \in Nat /\ i \in Nat
<1>1. started \in Nat /\ i \in Nat
  BY ConnsCounted DEF LinesInv, TypeOK
<1>2. ~(i > started)
  BY TaskKinds DEF LinesInv, MembersInv
<1>. QED
  BY <1>1, <1>2

\* The dispatcher takes the oldest message of the queue.
LEMMA TakeStep ==
    ASSUME LinesInv, NEW i \in Tasks, Take(i)
    PROVE  LinesInv'
<1>. USE DEF LinesInv
<1>1. /\ task \in [Tasks -> TaskState] /\ got \in [Conns -> Seq(1..MaxTopic)]
      /\ wsQueue \in Seq(1..MaxTopic) /\ topic \in Nat
  BY DEF TypeOK, TaskState
<1>2. /\ task[i].at = "get" /\ wsQueue # <<>> /\ wsQueue' = Tail(wsQueue)
      /\ UNCHANGED <<phase, inbox, writers, started, mqtt, mqttTask, mqttQueue, published,
                     closing, srv, topic, web>>
  BY DEF Take, connVars, mqttVars
<1>3. /\ Head(wsQueue) \in 1..MaxTopic /\ 1 \in DOMAIN wsQueue /\ Head(wsQueue) = wsQueue[1]
      /\ wsQueue' \in Seq(1..MaxTopic)
      /\ \A j \in DOMAIN wsQueue' : j \in Nat /\ j > 0 /\ j + 1 \in DOMAIN wsQueue
                                    /\ wsQueue'[j] = wsQueue[j + 1]
  <2>1. /\ Head(wsQueue) \in 1..MaxTopic /\ 1 \in DOMAIN wsQueue /\ Head(wsQueue) = wsQueue[1]
        /\ wsQueue' \in Seq(1..MaxTopic)
        /\ \A j \in DOMAIN wsQueue' : j \in Nat /\ j + 1 \in DOMAIN wsQueue
                                      /\ wsQueue'[j] = wsQueue[j + 1]
    BY <1>1, <1>2, TailFacts
  <2>. QED
    BY <2>1, LenProperties
\* What is left in the queue is newer than what was taken, and than the rest.
<1>4. /\ \A j \in DOMAIN wsQueue' : Head(wsQueue) < wsQueue'[j] /\ wsQueue'[j] <= topic
      /\ \A j, k \in DOMAIN wsQueue' : j < k => wsQueue'[j] < wsQueue'[k]
      /\ \A c \in Conns : \A x \in DOMAIN got[c] : \A j \in DOMAIN wsQueue' : got[c][x] < wsQueue'[j]
      /\ \A t \in Tasks : Busy(t) => \A j \in DOMAIN wsQueue' : task[t].msg < wsQueue'[j]
  <2>1. \A j \in DOMAIN wsQueue' : Head(wsQueue) < wsQueue'[j] /\ wsQueue'[j] <= topic
    <3>1. \A j \in DOMAIN wsQueue' : 1 < j + 1
      BY <1>3
    <3>. QED
      BY <1>3, <3>1 DEF QueueInv
  <2>2. ASSUME NEW j \in DOMAIN wsQueue', NEW k \in DOMAIN wsQueue', j < k
        PROVE  wsQueue'[j] < wsQueue'[k]
    <3>1. j + 1 < k + 1
      BY <1>3, <2>2
    <3>. QED
      BY <1>3, <3>1 DEF QueueInv
  <2>3. \A c \in Conns : \A x \in DOMAIN got[c] : \A j \in DOMAIN wsQueue' : got[c][x] < wsQueue'[j]
    BY <1>3 DEF QueueInv
  <2>4. \A t \in Tasks : Busy(t) => \A j \in DOMAIN wsQueue' : task[t].msg < wsQueue'[j]
    BY <1>3 DEF QueueInv
  <2>. QED
    BY <2>1, <2>2, <2>3, <2>4
<1>5. CASE Head(wsQueue) \in Discard
  <2>1. UNCHANGED <<task, got, failed>>
    BY <1>5 DEF Take
  <2>2. TypeOK'
    BY <1>2, <1>3, <2>1 DEF TypeOK
  <2>3. Joined' = Joined /\ \A t \in Tasks : Busy(t)' <=> Busy(t)
    BY <1>2, <2>1 DEF Joined, Busy
  <2>4. MembersInv'
    BY <1>2, <2>1, <2>3 DEF MembersInv
  <2>5. QueueInv'
    <3>1. \A j \in DOMAIN wsQueue' : wsQueue'[j] <= topic
      BY <1>4
    <3>2. \A j, k \in DOMAIN wsQueue' : j < k => wsQueue'[j] < wsQueue'[k]
      BY <1>4
    <3>3. \A c \in Conns : \A x \in DOMAIN got[c] :
              got[c][x] <= topic /\ \A j \in DOMAIN wsQueue' : got[c][x] < wsQueue'[j]
      BY <1>4 DEF QueueInv
    <3>4. \A t \in Tasks : Busy(t) =>
              task[t].msg <= topic /\ \A j \in DOMAIN wsQueue' : task[t].msg < wsQueue'[j]
      BY <1>4 DEF QueueInv
    <3>. QED
      BY <1>2, <2>1, <2>3, <3>1, <3>2, <3>3, <3>4 DEF QueueInv
  <2>6. WalkInv' /\ AtMostOnce' /\ StayInv' /\ InOrder'
    BY <1>2, <2>1, <2>3 DEF WalkInv, AtMostOnce, StayInv, InOrder
  <2>. QED
    BY <2>2, <2>4, <2>5, <2>6
\* to_json raises: the task ends without having written anything.
<1>7. CASE Head(wsQueue) \notin Discard /\ Head(wsQueue) \in Fatal
  <2>1. task' = [task EXCEPT ![i] = Ended] /\ failed' = TRUE /\ got' = got
    BY <1>7 DEF Take, Die
  <2>2. i <= started
    BY <1>2, RunningStarted
  <2>3. /\ task' \in [Tasks -> TaskState]
        /\ MembersInv' /\ QueueInv' /\ WalkInv' /\ AtMostOnce' /\ StayInv' /\ InOrder'
    <3>1. \A j \in DOMAIN wsQueue' : wsQueue'[j] <= topic
      BY <1>4
    <3>2. \A t \in Tasks : Busy(t) /\ t # i => \A j \in DOMAIN wsQueue' : task[t].msg < wsQueue'[j]
      BY <1>4
    <3>. QED
      BY <1>2, <1>4, <2>1, <2>2, <3>1, <3>2, StopStep
  <2>4. TypeOK'
    BY <1>2, <1>3, <2>1, <2>3 DEF TypeOK, TaskState
  <2>. QED
    BY <2>3, <2>4
<1>6. CASE Head(wsQueue) \notin Discard /\ Head(wsQueue) \notin Fatal
  <2> DEFINE m == Head(wsQueue)
  <2>1. SendNext(i, m, 1)
    BY <1>6 DEF Take
  <2>2. 1 \in 1..Cardinality(Conns) + 1
    BY ConnsCounted
  <2>3. i <= started
    BY <1>2, RunningStarted
  <2>4. m \in 1..MaxTopic /\ m <= topic
    BY <1>3 DEF QueueInv
  <2>5. \A c \in Conns : \A x \in DOMAIN got[c] : got[c][x] < m
    BY <1>3 DEF QueueInv
  <2>6. \A t \in Tasks : Busy(t) => task[t].msg < m
    BY <1>3 DEF QueueInv
  <2>7. \A t \in Tasks : Busy(t) /\ t # i =>
            task[t].msg # m /\ \A j \in DOMAIN wsQueue' : task[t].msg < wsQueue'[j]
    <3>1. \A t \in Tasks : task[t].msg \in Nat
      BY <1>1, TaskFields
    <3>. QED
      BY <1>3, <1>4, <2>6, <3>1
  <2>8. \A c \in Conns : ~Has(got[c], m) /\ \A x \in DOMAIN got[c] : got[c][x] <= m
    <3>1. \A c \in Conns : \A x \in DOMAIN got[c] : got[c][x] \in 1..MaxTopic
      BY <1>1, ElementOfSeq, LenProperties
    <3>. QED
      BY <2>4, <2>5, <3>1 DEF Has
  <2>9. \A k \in DOMAIN writers : writers[k] \in Conns /\ k >= 1 /\ ~(k < 1)
    BY ElementOfSeq, LenProperties DEF TypeOK
  <2>10. UNCHANGED <<phase, writers, started, topic>>
    BY <1>2
  <2> HIDE DEF m
  <2>11. /\ task' \in [Tasks -> TaskState] /\ got' \in [Conns -> Seq(1..MaxTopic)]
         /\ failed' \in BOOLEAN
         /\ MembersInv' /\ QueueInv' /\ WalkInv' /\ AtMostOnce' /\ StayInv' /\ InOrder'
    <3>1. \A j \in DOMAIN wsQueue' : m < wsQueue'[j] /\ wsQueue'[j] <= topic
      BY <1>4 DEF m
    <3>2. \A k \in DOMAIN writers : k >= 1 => ~Has(got[writers[k]], m)
      BY <2>8, <2>9
    <3>3. (\A c \in Conns : phase[c] # "gone") =>
               /\ \A c \in Conns : \A x \in DOMAIN got[c] : got[c][x] <= m
               /\ \A k \in DOMAIN writers : k < 1 => Has(got[writers[k]], m)
      BY <2>8, <2>9
    <3>. QED
      BY <1>3, <1>4, <2>1, <2>2, <2>3, <2>4, <2>7, <2>10, <3>1, <3>2, <3>3, SendStep
  <2>12. TypeOK'
    BY <1>2, <1>3, <2>11 DEF TypeOK, TaskState
  <2>. QED
    BY <2>11, <2>12
<1>. QED
  BY <1>5, <1>6, <1>7

\* A write has drained: the dispatcher goes on with the next place of the list.
LEMMA SentStep ==
    ASSUME LinesInv, NEW i \in Tasks, Sent(i)
    PROVE  LinesInv'
<1>. USE DEF LinesInv
<1>1. /\ task \in [Tasks -> TaskState] /\ topic \in Nat /\ wsQueue \in Seq(1..MaxTopic)
  BY DEF TypeOK, TaskState
<1>2. /\ Busy(i) /\ SendNext(i, task[i].msg, task[i].next)
      /\ UNCHANGED <<phase, inbox, writers, wsQueue, started, mqtt, mqttTask, mqttQueue, published,
                     closing, srv, topic, web>>
  BY DEF Sent, connVars, mqttVars, Busy
<1> DEFINE m == task[i].msg
           n == task[i].next
<1>3. m \in 1..MaxTopic /\ m <= topic /\ n \in 1..Cardinality(Conns) + 1 /\ i <= started
  BY <1>1, <1>2, TaskFields, RunningStarted DEF MembersInv, QueueInv, Busy
<1>4. /\ \A j \in DOMAIN wsQueue : m < wsQueue[j] /\ wsQueue[j] <= topic
      /\ \A j, k \in DOMAIN wsQueue : j < k => wsQueue[j] < wsQueue[k]
      /\ \A c \in Conns : \A x \in DOMAIN got[c] : \A j \in DOMAIN wsQueue : got[c][x] < wsQueue[j]
  BY <1>2 DEF QueueInv
<1>5. \A t \in Tasks : Busy(t) /\ t # i =>
          task[t].msg # m /\ \A j \in DOMAIN wsQueue : task[t].msg < wsQueue[j]
  BY <1>2 DEF QueueInv, WalkInv
<1>6. \A k \in DOMAIN writers : k >= n => ~Has(got[writers[k]], m)
  BY <1>2 DEF WalkInv
<1>7. (\A c \in Conns : phase[c] # "gone") =>
           /\ \A c \in Conns : \A x \in DOMAIN got[c] : got[c][x] <= m
           /\ \A k \in DOMAIN writers : k < n => Has(got[writers[k]], m)
  BY <1>2 DEF StayInv
<1>8. SendNext(i, m, n) /\ UNCHANGED <<phase, writers, started, topic>> /\ wsQueue' = wsQueue
  BY <1>2
<1> HIDE DEF m, n
<1>9. /\ task' \in [Tasks -> TaskState] /\ got' \in [Conns -> Seq(1..MaxTopic)]
      /\ failed' \in BOOLEAN
      /\ MembersInv' /\ QueueInv' /\ WalkInv' /\ AtMostOnce' /\ StayInv' /\ InOrder'
  BY <1>1, <1>3, <1>4, <1>5, <1>6, <1>7, <1>8, SendStep
<1>10. TypeOK'
  BY <1>2, <1>9 DEF TypeOK, TaskState
<1>. QED
  BY <1>9, <1>10

\* The connection breaks while its buffer drains, and the task ends.
LEMMA BrokenStep ==
    ASSUME LinesInv, NEW i \in Tasks, SendBroken(i)
    PROVE  LinesInv'
<1>. USE DEF LinesInv
<1>1. /\ task[i].at = "send" /\ task' = [task EXCEPT ![i] = Ended] /\ failed' = TRUE
      /\ UNCHANGED <<phase, inbox, writers, wsQueue, started, got, mqtt, mqttTask, mqttQueue,
                     published, closing, srv, topic, web>>
  BY DEF SendBroken, Die, connVars, mqttVars
<1>2. i <= started
  BY <1>1, RunningStarted
<1>3. /\ task' \in [Tasks -> TaskState]
      /\ MembersInv' /\ QueueInv' /\ WalkInv' /\ AtMostOnce' /\ StayInv' /\ InOrder'
  <2>1. /\ \A j \in DOMAIN wsQueue' : wsQueue'[j] <= topic
        /\ \A j, k \in DOMAIN wsQueue' : j < k => wsQueue'[j] < wsQueue'[k]
        /\ \A c \in Conns : \A x \in DOMAIN got[c] : \A j \in DOMAIN wsQueue' :
               got[c][x] < wsQueue'[j]
        /\ \A t \in Tasks : Busy(t) /\ t # i =>
               \A j \in DOMAIN wsQueue' : task[t].msg < wsQueue'[j]
    BY <1>1 DEF QueueInv
  <2>. QED
    BY <1>1, <1>2, <2>1, StopStep
<1>4. TypeOK'
  BY <1>1, <1>3 DEF TypeOK, TaskState
<1>. QED
  BY <1>3, <1>4

\* A client connects or leaves, its handler fails, or WSLine.close closes
\* connections.
LEMMA PhaseSteps ==
    ASSUME LinesInv,
           (\E c \in Conns : Connect(c) \/ ClientLeaves(c) \/ ReadFails(c)) \/ CloseNext \/ CloseEnds
    PROVE  LinesInv'
<1>. USE DEF LinesInv
<1>1. /\ phase \in [Conns -> {"fresh", "accepted", "open", "closed", "gone", "broken"}]
      /\ writers \in Seq(Conns) /\ IsInjective(writers) /\ closing \in 0..Cardinality(Conns) + 1
      /\ inbox \in [Conns -> Seq(0..MaxWeb + 1)]
  BY DEF TypeOK
<1> DEFINE Phased ==
      /\ phase' \in [Conns -> {"fresh", "accepted", "open", "closed", "gone", "broken"}]
      /\ \A c \in Conns : phase[c] = "gone" <=> phase'[c] = "gone"
      /\ \A c \in Conns : phase[c] \in {"fresh", "accepted"} <=> phase'[c] \in {"fresh", "accepted"}
      /\ UNCHANGED <<writers, wsQueue, task, started, got, mqtt, mqttTask, mqttQueue,
                     published, topic, web, failed>>
      /\ inbox' \in [Conns -> Seq(0..MaxWeb + 1)]
      /\ closing' \in 0..Cardinality(Conns) + 1 /\ srv' \in BOOLEAN
<1>2. Phased
  <2>. USE DEF wsVars, mqttVars
  <2>1. ASSUME NEW c \in Conns, Connect(c) PROVE Phased
    BY <1>1, <2>1 DEF Connect, TypeOK
  <2>2. ASSUME NEW c \in Conns, ClientLeaves(c) PROVE Phased
    BY <1>1, <2>2 DEF ClientLeaves, TypeOK
  <2>3. ASSUME CloseNext PROVE Phased
    <3>1. closing \in 1..Len(writers) /\ closing + 1 \in 0..Cardinality(Conns) + 1
      BY <1>1, <2>3, ConnsCounted, InjectiveIsShort DEF CloseNext
    <3>2. writers[closing] \in Conns
      BY <1>1, <3>1, ElementOfSeq
    <3>3. /\ phase' = [phase EXCEPT ![writers[closing]] = IF @ = "open" THEN "closed" ELSE @]
          /\ closing' = closing + 1 /\ srv' \in BOOLEAN
          /\ UNCHANGED <<inbox, writers, wsQueue, task, started, got, mqtt, mqttTask, mqttQueue,
                         published, topic, web, failed>>
      BY <2>3 DEF CloseNext, TypeOK
    <3>. QED
      BY <1>1, <3>1, <3>2, <3>3
  <2>4. ASSUME CloseEnds PROVE Phased
    BY <1>1, <2>4 DEF CloseEnds
  <2>5. ASSUME NEW c \in Conns, ReadFails(c) PROVE Phased
    BY <1>1, <2>5 DEF ReadFails, TypeOK
  <2>. QED
    BY <2>1, <2>2, <2>3, <2>4, <2>5
<1>3. TypeOK'
  BY <1>2 DEF TypeOK
<1>4. Joined' = Joined
  BY <1>2 DEF Joined
<1>. QED
  BY <1>2, <1>3, <1>4, PhaseStep DEF core

\* Steps of the clients' streams and of the MqttLine.
LEMMA QuietSteps ==
    ASSUME LinesInv,
           \/ \E c \in Conns : ClientSends(c) \/ ReadMessage(c)
           \/ MqttOpen \/ MqttLost \/ MqttDispatch \/ CloseBegins
    PROVE  LinesInv'
<1>. USE DEF LinesInv
<1> DEFINE Same == UNCHANGED <<phase, writers, wsQueue, task, started, got, topic, failed, srv>>
<1>1. Same
  <2>. USE DEF connVars, wsVars
  <2>1. ASSUME NEW c \in Conns, ClientSends(c) \/ ReadMessage(c) PROVE Same
    BY <2>1 DEF ClientSends, ReadMessage
  <2>2. ASSUME MqttOpen \/ MqttLost \/ MqttDispatch \/ CloseBegins PROVE Same
    BY <2>2 DEF MqttOpen, MqttLost, MqttDispatch, MqttTake, Published, PublishFails, CloseBegins
  <2>. QED
    BY <2>1, <2>2
<1> DEFINE Streams ==
      /\ inbox' \in [Conns -> Seq(0..MaxWeb + 1)] /\ web' \in 0..MaxWeb
      /\ mqtt' \in {"opening", "open", "lost"} /\ mqttTask' \in WebMessage \cup {Idle, Gone}
      /\ mqttQueue' \in Seq(WebMessage) /\ published' \in Seq(WebMessage)
      /\ closing' \in 0..Cardinality(Conns) + 1
<1>2. Streams
  <2>1. /\ inbox \in [Conns -> Seq(0..MaxWeb + 1)] /\ web \in 0..MaxWeb
        /\ mqtt \in {"opening", "open", "lost"} /\ mqttTask \in WebMessage \cup {Idle, Gone}
        /\ mqttQueue \in Seq(WebMessage) /\ published \in Seq(WebMessage)
        /\ closing \in 0..Cardinality(Conns) + 1 /\ 1 \in 0..Cardinality(Conns) + 1
    BY ConnsCounted DEF TypeOK
  <2>2. ASSUME NEW c \in Conns, ClientSends(c) PROVE Streams
    <3>1. PICK m \in {Empty, Binary, web + 1} : inbox' = [inbox EXCEPT ![c] = Append(@, m)]
      BY <2>2 DEF ClientSends
    <3>2. web' \in 0..MaxWeb /\ m \in 0..MaxWeb + 1
      BY <2>1, <2>2, <3>1, WebAssumption DEF ClientSends, Empty, Binary
    <3>3. Append(inbox[c], m) \in Seq(0..MaxWeb + 1)
      BY <2>1, <3>2, AppendFacts
    <3>4. inbox' \in [Conns -> Seq(0..MaxWeb + 1)]
      BY <2>1, <3>1, <3>3
    <3>. QED
      BY <2>1, <2>2, <3>2, <3>4 DEF ClientSends, mqttVars
  <2>3. ASSUME NEW c \in Conns, ReadMessage(c) PROVE Streams
    <3>1. /\ Head(inbox[c]) \in 0..MaxWeb + 1 /\ Tail(inbox[c]) \in Seq(0..MaxWeb + 1)
          /\ Head(inbox[c]) \notin {Empty, Binary}
      BY <2>1, <2>3, TailFacts DEF ReadMessage
    <3>2. [src |-> c, num |-> Head(inbox[c])] \in WebMessage
      BY <3>1, WebAssumption DEF WebMessage, Empty, Binary
    <3>3. Append(mqttQueue, [src |-> c, num |-> Head(inbox[c])]) \in Seq(WebMessage)
      BY <2>1, <3>2, AppendFacts
    <3>4. /\ inbox' = [inbox EXCEPT ![c] = Tail(inbox[c])]
          /\ mqttQueue' = Append(mqttQueue, [src |-> c, num |-> Head(inbox[c])])
          /\ UNCHANGED <<mqtt, mqttTask, published, closing, web>>
      BY <2>3 DEF ReadMessage
    <3>. QED
      BY <2>1, <3>1, <3>3, <3>4
  <2>4. ASSUME MqttOpen PROVE Streams
    BY <2>1, <2>4 DEF MqttOpen, connVars
  <2>5. ASSUME MqttLost PROVE Streams
    BY <2>1, <2>5 DEF MqttLost, connVars
  <2>6. ASSUME MqttTake PROVE Streams
    <3>1. Head(mqttQueue) \in WebMessage /\ Tail(mqttQueue) \in Seq(WebMessage)
      BY <2>1, <2>6, TailFacts DEF MqttTake
    <3>. QED
      BY <2>1, <2>6, <3>1 DEF MqttTake, connVars
  <2>7. ASSUME Published PROVE Streams
    <3>1. mqttTask \in WebMessage
      BY <2>1, <2>7 DEF Published
    <3>2. Append(published, mqttTask) \in Seq(WebMessage)
      BY <2>1, <3>1, AppendFacts
    <3>. QED
      BY <2>1, <2>7, <3>2 DEF Published, connVars
  <2>8. ASSUME PublishFails PROVE Streams
    BY <2>1, <2>8 DEF PublishFails, connVars
  <2>9. ASSUME CloseBegins PROVE Streams
    BY <2>1, <2>9 DEF CloseBegins, connVars, mqttVars
  <2>. QED
    BY <2>2, <2>3, <2>4, <2>5, <2>6, <2>7, <2>8, <2>9 DEF MqttDispatch
<1>3. TypeOK'
  BY <1>1, <1>2 DEF TypeOK
<1>4. Joined' = Joined /\ \A c \in Conns : phase[c] = "gone" <=> phase'[c] = "gone"
  BY <1>1 DEF Joined
<1>. QED
  BY <1>1, <1>3, <1>4, PhaseStep DEF core

LEMMA LinesInvariant == Spec => []LinesInv
<1>1. Init => LinesInv
  <2> SUFFICES ASSUME Init PROVE LinesInv
    OBVIOUS
  <2>. USE DEF Init
  <2>1. TypeOK
    <3>1. /\ phase \in [Conns -> {"fresh", "accepted", "open", "closed", "gone", "broken"}]
          /\ inbox \in [Conns -> Seq(0..MaxWeb + 1)]
          /\ writers \in Seq(Conns) /\ got \in [Conns -> Seq(1..MaxTopic)]
      OBVIOUS
    <3>2. IsInjective(writers)
      BY DEF IsInjective
    <3>3. task \in [Tasks -> TaskState]
      BY TaskKinds
    <3>4. /\ wsQueue \in Seq(1..MaxTopic) /\ started \in 0..Cardinality(Conns)
          /\ mqtt \in {"opening", "open", "lost"} /\ mqttTask \in WebMessage \cup {Idle, Gone}
          /\ mqttQueue \in Seq(WebMessage) /\ published \in Seq(WebMessage)
      BY ConnsCounted
    <3>5. /\ closing \in 0..Cardinality(Conns) + 1
          /\ topic \in 0..MaxTopic /\ web \in 0..MaxWeb
      BY ConnsCounted
    <3>6. srv \in BOOLEAN /\ failed \in BOOLEAN
      OBVIOUS
    <3>. QED
      BY <3>1, <3>2, <3>3, <3>4, <3>5, <3>6 DEF TypeOK, TaskState
  <2>2. Joined = {} /\ Cardinality(Joined) = 0
    BY FS_EmptySet DEF Joined
  <2>3. \A i \in Tasks : task[i] = Ended /\ ~Busy(i)
    BY TaskKinds DEF Busy
  <2>4. MembersInv /\ QueueInv /\ WalkInv /\ AtMostOnce /\ StayInv /\ InOrder
    BY <2>2, <2>3 DEF MembersInv, QueueInv, WalkInv, AtMostOnce, StayInv, InOrder, IsInjective
  <2>. QED
    BY <2>1, <2>4 DEF LinesInv
<1>2. LinesInv /\ [Next]_vars => LinesInv'
  <2> SUFFICES ASSUME LinesInv, [Next]_vars PROVE LinesInv'
    OBVIOUS
  <2>1. ASSUME NEW c \in Conns, Client(c) PROVE LinesInv'
    BY <2>1, PhaseSteps, QuietSteps DEF Client
  <2>2. ASSUME NEW c \in Conns, Handler(c) PROVE LinesInv'
    BY <2>2, StartStep, QuietSteps, PhaseSteps, EndStep DEF Handler
  <2>3. ASSUME NEW i \in Tasks, Dispatch(i) PROVE LinesInv'
    BY <2>3, TakeStep, SentStep, BrokenStep DEF Dispatch
  <2>4. ASSUME MqttOpen \/ MqttLost \/ MqttDispatch PROVE LinesInv'
    BY <2>4, QuietSteps
  <2>5. ASSUME TopicMessage PROVE LinesInv'
    BY <2>5, TopicStep
  <2>6. ASSUME Close PROVE LinesInv'
    BY <2>6, PhaseSteps, QuietSteps DEF Close
  <2>7. ASSUME UNCHANGED vars PROVE LinesInv'
    <3>1. UNCHANGED <<phase, inbox, writers, wsQueue, task, started, got, mqtt, mqttTask,
                      mqttQueue, published, closing, srv, topic, web, failed>>
      BY <2>7 DEF vars, connVars, wsVars, mqttVars
    <3>2. TypeOK'
      BY <3>1 DEF LinesInv, TypeOK
    <3>3. Joined' = Joined /\ \A c \in Conns : phase[c] = "gone" <=> phase'[c] = "gone"
      BY <3>1 DEF Joined
    <3>. QED
      BY <3>1, <3>2, <3>3, PhaseStep DEF core, LinesInv
  <2>. QED
    BY <2>1, <2>2, <2>3, <2>4, <2>5, <2>6, <2>7 DEF Next
<1>. QED
  BY <1>1, <1>2, PTL DEF Spec

-----------------------------------------------------------------------------
(* The theorems                                                            *)

(* Every variable keeps its type; no more dispatch tasks are started than  *)
(* there are connections.                                                  *)
THEOREM TypeCorrect == Spec => []TypeOK
<1>1. LinesInv => TypeOK
  BY DEF LinesInv
<1>. QED
  BY <1>1, LinesInvariant, PTL

(* No client is written a topic message twice, however many dispatchers    *)
(* line_handler starts and wherever they are in their walk when clients    *)
(* join the list or leave it (WSLine.dispatch).                            *)
THEOREM NobodyIsWrittenTwice == Spec => []AtMostOnce
<1>1. LinesInv => AtMostOnce
  BY DEF LinesInv
<1>. QED
  BY <1>1, LinesInvariant, PTL

(* Until the first handler ends there is one dispatcher, and every client  *)
(* is written the messages in the order of the topic.                      *)
THEOREM WrittenInOrder == Spec => []InOrder
<1>1. LinesInv => InOrder
  BY DEF LinesInv
<1>. QED
  BY <1>1, LinesInvariant, PTL

(* As long as no client has left, a dispatcher that is through with a      *)
(* message has written it to every client that is on the list, those that  *)
(* joined during the walk included.                                        *)
THEOREM NobodyIsSkipped == Spec => SentToAllWhoStay
<1> DEFINE AllWritten ==
        \A i \in Tasks : AllStay /\ Through(i) =>
            \A c \in Range(writers) : phase[c] = "open" => task[i].msg \in Range(got[c])
<1>1. LinesInv /\ [Next]_vars => [AllWritten]_vars
  <2> SUFFICES ASSUME LinesInv, Next, NEW i \in Tasks, AllStay, Through(i),
                      NEW c \in Range(writers)
               PROVE  task[i].msg \in Range(got[c])
    OBVIOUS
  <2>. USE DEF LinesInv
  <2>1. /\ task \in [Tasks -> TaskState] /\ Busy(i) /\ task'[i].at # "send" /\ started \in Nat
        /\ \A d \in Conns : phase[d] \notin {"closed", "gone", "broken"}
        /\ writers \in Seq(Conns) /\ DOMAIN writers = 1..Len(writers) /\ Len(writers) \in Nat
    BY ConnsCounted, LenProperties DEF TypeOK, TaskState, Through, Busy, AllStay
  \* Only the task itself, going on with its message, can be through with it.
  <2>2. Sent(i)
    <3>1. task'[i] # task[i]
      BY <2>1 DEF Busy
    <3>2. ASSUME NEW d \in Conns, StartHandler(d) PROVE FALSE
      <4>1. task' = [task EXCEPT ![started + 1] = Getting]
        BY <3>1, <3>2 DEF StartHandler
      <4>2. i = started + 1
        BY <2>1, <3>1, <4>1
      <4>3. ~(i > started)
        BY <2>1, TaskKinds DEF MembersInv, Busy
      <4>. QED
        BY <2>1, <4>2, <4>3
    <3>3. ASSUME NEW j \in Tasks, Take(j) PROVE FALSE
      <4>1. j # i
        BY <2>1, <3>3 DEF Take, Busy
      <4>2. task'[i] = task[i]
        BY <2>1, <3>3, <4>1 DEF Take, SendNext, Die
      <4>. QED
        BY <3>1, <4>2
    <3>4. ASSUME NEW j \in Tasks, Sent(j) PROVE j = i
      BY <2>1, <3>1, <3>4 DEF Sent, SendNext, Die
    <3>5. ASSUME NEW j \in Tasks, SendBroken(j) PROVE FALSE
      BY <2>1, <3>5 DEF SendBroken, MembersInv, Busy
    <3>6. ASSUME NEW d \in Conns, Client(d) \/ ReadMessage(d) \/ ReadFails(d) \/ EndHandler(d)
          PROVE FALSE
      BY <3>1, <3>6 DEF Client, Connect, ClientSends, ClientLeaves, ReadMessage, ReadFails, EndHandler,
                        wsVars
    <3>7. ASSUME MqttOpen \/ MqttLost \/ TopicMessage \/ MqttDispatch \/ Close PROVE FALSE
      BY <3>1, <3>7 DEF MqttOpen, MqttLost, TopicMessage, MqttDispatch, MqttTake, Published,
                        PublishFails, Close, CloseBegins, CloseNext, CloseEnds, wsVars
    <3>. QED
      BY <3>2, <3>3, <3>4, <3>5, <3>6, <3>7 DEF Next, Handler, Dispatch
  <2> DEFINE m == task[i].msg
             n == task[i].next
  <2>3. m \in 0..MaxTopic /\ n \in 1..Cardinality(Conns) + 1 /\ n \in Nat
    BY <2>1, TaskFields
  <2>4. SendNext(i, m, n)
    BY <2>2 DEF Sent
  <2>5. n > Len(writers)
    <3> SUFFICES ASSUME ~(n > Len(writers)) PROVE FALSE
      OBVIOUS
    <3>1. n \in DOMAIN writers
      BY <2>1, <2>3, ConnsCounted
    <3>2. writers[n] \in Conns /\ phase[writers[n]] = "open"
      BY <2>1, <3>1 DEF MembersInv, Joined, TypeOK
    <3>3. n + 1 \in 1..Cardinality(Conns) + 1
      <4>1. IsInjective(writers)
        BY DEF TypeOK
      <4>2. Len(writers) <= Cardinality(Conns)
        BY <2>1, <4>1, InjectiveIsShort
      <4>. QED
        BY <2>1, <3>1, <4>2, ConnsCounted
    <3>4. task' = [task EXCEPT ![i] = Sending(m, n + 1, writers[n])]
      BY <2>4, <3>2 DEF SendNext, After
    <3>5. task'[i] = Sending(m, n + 1, writers[n])
      BY <2>1, <3>4
    <3>. QED
      BY <2>1, <2>3, <3>2, <3>3, <3>5, TaskKinds
  <2>6. PICK k \in DOMAIN writers : writers[k] = c
    BY DEF Range
  <2>7. k < n
    BY <2>1, <2>3, <2>5
  <2>8. Has(got[c], m)
    BY <2>1, <2>6, <2>7 DEF StayInv
  <2>. QED
    BY <2>8 DEF Has, Range
<1>. QED
  BY <1>1, LinesInvariant, PTL DEF Spec, SentToAllWhoStay
=============================================================================
