--------------------------- MODULE JunctionProofs ---------------------------
(* Proofs about the junction for any number of lines and connections, any  *)
(* routes and any callbacks.                                               *)
EXTENDS JunctionRouter, FiniteSetTheorems, TLAPS

-----------------------------------------------------------------------------
(* The inductive invariant                                                 *)

\* Every connection past "fresh" belongs to a line.
AtInv == \A c \in Conns : phase[c] # "fresh" => at[c] \in Lines

\* The line ids handed out are positive, at most sid and all different.
LidInv ==
    /\ \A c \in Conns : lid[c] <= sid /\ (phase[c] \in {"fresh", "accepted"} <=> lid[c] = 0)
    /\ \A c, d \in Conns : lid[c] = lid[d] /\ lid[c] > 0 => c = d

\* The writers of a line are connections with a handler, or what a reset left.
WritersInv ==
    \A l \in Lines : \A c \in writers[l] : phase[c] \in {"open", "broken"} /\ at[c] = l

\* The DLINE of a response is the id of the connection it answers.
Addressed(m) == m.to # NoConn => m.dline > 0 /\ m.dline = lid[m.to]

InboxInv == \A c \in Conns : \A i \in DOMAIN inbox[c] :
                /\ Addressed(inbox[c][i])
                /\ inbox[c][i].src = c

QueueInv == \A l \in Lines : \A i \in DOMAIN queue[l] :
                /\ Addressed(queue[l][i].msg)
                /\ queue[l][i].src_line = lid[queue[l][i].msg.src]
                /\ queue[l][i].src_line > 0

OutInv == \A c \in Conns : \A i \in DOMAIN out[c] :
                /\ out[c][i].msg.to \in {NoConn, c}
                /\ lid[out[c][i].msg.src] > 0
                /\ out[c][i].class = "proto" => out[c][i].sline = lid[out[c][i].msg.src]

RoutingInv ==
    /\ TypeOK /\ AtInv /\ LidInv /\ WritersInv
    /\ InboxInv /\ QueueInv /\ OutInv

-----------------------------------------------------------------------------
(* Sequences                                                               *)

(* What Append makes: the elements of s, then e.                           *)
LEMMA AppendFacts ==
    ASSUME NEW S, NEW s \in Seq(S), NEW e \in S
    PROVE  /\ Append(s, e) \in Seq(S)
           /\ DOMAIN Append(s, e) = 1..Len(s) + 1
           /\ DOMAIN s = 1..Len(s)
           /\ \A i \in DOMAIN Append(s, e) :
                  Append(s, e)[i] = IF i = Len(s) + 1 THEN e ELSE s[i]
  OBVIOUS

(* What Head and Tail leave: elements of s.                                *)
LEMMA TailFacts ==
    ASSUME NEW S, NEW s \in Seq(S), s # <<>>
    PROVE  /\ Head(s) \in S
           /\ Head(s) = s[1] /\ 1 \in DOMAIN s
           /\ Tail(s) \in Seq(S)
           /\ \A i \in DOMAIN Tail(s) : i + 1 \in DOMAIN s /\ Tail(s)[i] = s[i + 1]
  OBVIOUS

(* A prefix of s has the elements of s.                                    *)
LEMMA PrefixFacts ==
    ASSUME NEW S, NEW s \in Seq(S), NEW k \in 0..Len(s)
    PROVE  /\ SubSeq(s, 1, k) \in Seq(S)
           /\ \A i \in DOMAIN SubSeq(s, 1, k) : i \in DOMAIN s /\ SubSeq(s, 1, k)[i] = s[i]
  OBVIOUS

-----------------------------------------------------------------------------
(* The invariant holds initially and is kept by every step                 *)

(* No line is opened and nothing is sent in the initial state.             *)
LEMMA RoutingInit == Init => RoutingInv
  <1> SUFFICES ASSUME Init PROVE RoutingInv
    OBVIOUS
  <1>1. TypeOK
    <2>0. ASSUME NEW I, NEW S PROVE [i \in I |-> <<>>] \in [I -> Seq(S)]
      <3>1. <<>> \in Seq(S)
        OBVIOUS
      <3> QED
        BY <3>1
    <2>1. /\ sent \in [Conns -> Seq(Message)] /\ inbox \in [Conns -> Seq(Message)]
          /\ queue \in [Lines -> Seq(Packet)] /\ out \in [Conns -> Seq(Written)]
      BY <2>0 DEF Init
    <2>2. /\ registry \subseteq Lines /\ inits \in Nat
          /\ opening \in [Lines -> Nat] /\ dialing \in [Lines -> Nat]
          /\ opens \in [Lines -> Int] /\ complaints \in Nat /\ sid \in Nat
      BY DEF Init
    <2>4. stopping \in BOOLEAN /\ srv \in [Lines -> BOOLEAN]
      BY DEF Init
    <2>3. /\ phase \in [Conns -> {"fresh", "accepted", "open", "gone", "broken"}]
          /\ at \in [Conns -> Lines \cup {NoLine}] /\ lid \in [Conns -> Nat]
          /\ eof \in [Conns -> BOOLEAN] /\ writers \in [Lines -> SUBSET Conns]
          /\ ndisp \in [Lines -> Nat]
      BY DEF Init
    <2> QED
      BY <2>1, <2>2, <2>3, <2>4 DEF TypeOK
  <1>2. AtInv /\ LidInv /\ WritersInv
    BY DEF Init, AtInv, LidInv, WritersInv
  <1>3. InboxInv /\ QueueInv /\ OutInv
    BY DEF Init, InboxInv, QueueInv, OutInv
  <1> QED
    BY <1>1, <1>2, <1>3 DEF RoutingInv

\* What the routing part of the invariant speaks of.
core == <<cvars, rvars, writers, queue, out>>

(* A step that leaves the connections and the messages alone keeps the     *)
(* routing part of the invariant.                                          *)
LEMMA QuietStep ==
    ASSUME RoutingInv, UNCHANGED core
    PROVE  AtInv' /\ LidInv' /\ WritersInv' /\ InboxInv' /\ QueueInv' /\ OutInv'
  BY DEF RoutingInv, core, cvars, rvars, AtInv, LidInv, WritersInv,
         InboxInv, QueueInv, OutInv, Addressed

(* Junction.init and the start of shutdown are such steps.                 *)
LEMMA InitStep ==
    ASSUME RoutingInv, JunctionInit \/ Shutdown
    PROVE  RoutingInv'
  <1>1. TypeOK
    BY DEF RoutingInv
  <1>2. UNCHANGED core
    BY DEF core, JunctionInit, Shutdown
  <1>3. CASE JunctionInit
    <2>1. TypeOK'
      BY <1>1, <1>3 DEF TypeOK, JunctionInit, cvars, rvars
    <2> QED
      BY <1>2, <2>1, QuietStep DEF RoutingInv
  <1>4. CASE Shutdown
    <2>1. TypeOK'
      BY <1>1, <1>4 DEF TypeOK, Shutdown, ovars, cvars, rvars
    <2> QED
      BY <1>2, <2>1, QuietStep DEF RoutingInv
  <1> QED
    BY <1>3, <1>4

(* So are open() and the close of a serial line.                           *)
LEMMA OpenStep ==
    ASSUME RoutingInv, NEW l \in Lines,
           Open(l) \/ DetachSerial(l) \/ DetachSerialFails(l)
    PROVE  RoutingInv'
  <1>1. TypeOK
    BY DEF RoutingInv
  <1>2. UNCHANGED core
    BY DEF core, Open, OpenServer, OpenSerial, OpenFails,
           DialFails, SerialComplains, DetachSerial, DetachSerialFails
  <1>3. TypeOK'
    <2>1. CASE OpenServer(l)
      BY <1>1, <2>1 DEF TypeOK, OpenServer, jvars, cvars, rvars
    <2>2. CASE OpenSerial(l)
      BY <1>1, <2>2 DEF TypeOK, OpenSerial, jvars, cvars, rvars
    <2>3. CASE OpenFails(l)
      BY <1>1, <2>3 DEF TypeOK, OpenFails, jvars, cvars, rvars
    <2>4. CASE DialFails(l)
      BY <1>1, <2>4 DEF TypeOK, DialFails, jvars, cvars, rvars
    <2>5. CASE SerialComplains(l)
      BY <1>1, <2>5 DEF TypeOK, SerialComplains, jvars, cvars, rvars
    <2>6. CASE DetachSerial(l)
      BY <1>1, <2>6 DEF TypeOK, DetachSerial, cvars, rvars
    <2>7. CASE DetachSerialFails(l)
      BY <1>1, <2>7 DEF TypeOK, DetachSerialFails, ovars, cvars, rvars
    <2> QED
      BY <2>1, <2>2, <2>3, <2>4, <2>5, <2>6, <2>7 DEF Open
  <1> QED
    BY <1>2, <1>3, QuietStep DEF RoutingInv

(* A new connection has no id yet, and belongs to a line.                  *)
LEMMA AttachStep ==
    ASSUME RoutingInv, NEW c \in Conns, NEW l \in Lines,
           Accept(c, l) \/ ConnectRemote(c, l) \/ ConnectSerial(c, l)
    PROVE  RoutingInv'
  <1>1. /\ phase[c] = "fresh"
        /\ phase' = [phase EXCEPT ![c] = "accepted"]
        /\ at' = [at EXCEPT ![c] = l]
        /\ UNCHANGED <<sid, lid, rvars, writers, queue, ndisp, out>>
    BY DEF Accept, ConnectRemote, ConnectSerial, Establish
  <1>2. TypeOK'
    <2>1. CASE Accept(c, l)
      BY <1>1, <2>1 DEF RoutingInv, TypeOK, Accept, jvars, ovars, rvars
    <2>2. CASE ConnectRemote(c, l)
      BY <1>1, <2>2 DEF RoutingInv, TypeOK, ConnectRemote, jvars, rvars
    <2>3. CASE ConnectSerial(c, l)
      BY <1>1, <2>3 DEF RoutingInv, TypeOK, ConnectSerial, jvars, rvars
    <2> QED
      BY <2>1, <2>2, <2>3
  <1>3. AtInv' /\ LidInv' /\ WritersInv'
    BY <1>1 DEF RoutingInv, TypeOK, AtInv, LidInv, WritersInv
  <1>4. InboxInv' /\ QueueInv' /\ OutInv'
    BY <1>1 DEF RoutingInv, InboxInv, QueueInv, OutInv, Addressed, rvars
  <1> QED
    BY <1>2, <1>3, <1>4 DEF RoutingInv

(* A reset leaves no message to read, and the writer in its list.         *)
LEMMA ResetStep ==
    ASSUME RoutingInv, NEW c \in Conns, Reset(c)
    PROVE  RoutingInv'
  <1>1. /\ phase[c] = "open"
        /\ inbox' = [inbox EXCEPT ![c] = <<>>]
        /\ phase' = [phase EXCEPT ![c] = "broken"]
        /\ UNCHANGED <<jvars, ovars, sid, at, lid, eof, sent, writers, queue, ndisp, out>>
    BY DEF Reset
  <1>2. TypeOK'
    <2>1. <<>> \in Seq(Message)
      OBVIOUS
    <2>2. inbox' \in [Conns -> Seq(Message)]
      BY <1>1, <2>1 DEF RoutingInv, TypeOK
    <2> QED
      BY <1>1, <2>2 DEF RoutingInv, TypeOK, jvars, ovars
  <1>3. AtInv' /\ LidInv'
    BY <1>1 DEF RoutingInv, TypeOK, AtInv, LidInv
  <1>4. WritersInv'
    BY <1>1 DEF RoutingInv, TypeOK, WritersInv
  <1>5. InboxInv'
    BY <1>1 DEF RoutingInv, TypeOK, InboxInv, Addressed
  <1>6. QueueInv' /\ OutInv'
    BY <1>1 DEF RoutingInv, QueueInv, OutInv, Addressed
  <1> QED
    BY <1>2, <1>3, <1>4, <1>5, <1>6 DEF RoutingInv

(* What an endpoint writes is addressed by the rule of Respond.            *)
LEMMA RemoteStep ==
    ASSUME RoutingInv, NEW c \in Conns, Remote(c)
    PROVE  RoutingInv'
  <1>1. CASE RemoteClose(c)
    BY <1>1 DEF RoutingInv, TypeOK, AtInv, LidInv, WritersInv, InboxInv, QueueInv, OutInv,
                Addressed, RemoteClose, jvars, ovars, cvars
  <1>2. ASSUME NEW class \in Classes, NEW dline \in Nat, NEW to \in Conns \cup {NoConn},
               Write(c, class, dline, to), to # NoConn => dline > 0 /\ dline = lid[to]
        PROVE  RoutingInv'
    <2> DEFINE m == [src |-> c, seq |-> Len(sent[c]) + 1, class |-> class,
                     dline |-> dline, to |-> to]
    <2>1. /\ sent' = [sent EXCEPT ![c] = Append(@, m)]
          /\ inbox' = [inbox EXCEPT ![c] = Append(@, m)]
          /\ UNCHANGED <<jvars, ovars, cvars, eof, writers, queue, ndisp, out>>
      BY <1>2 DEF Write
    <2>2. m \in Message /\ Addressed(m) /\ m.src = c
      BY <1>2 DEF Message, RoutingInv, TypeOK, Addressed
    <2>3. sent[c] \in Seq(Message) /\ inbox[c] \in Seq(Message)
      BY DEF RoutingInv, TypeOK
    <2> HIDE DEF m
    <2>4. TypeOK'
      BY <2>1, <2>2, <2>3, AppendFacts DEF RoutingInv, TypeOK, jvars, ovars, cvars
    <2>5. AtInv' /\ LidInv' /\ WritersInv' /\ QueueInv' /\ OutInv'
      BY <2>1 DEF RoutingInv, AtInv, LidInv, WritersInv, QueueInv, OutInv, Addressed, cvars
    <2>6. InboxInv'
      <3>1. \A d \in Conns : \A i \in DOMAIN inbox'[d] :
                \/ inbox'[d][i] = m /\ d = c
                \/ i \in DOMAIN inbox[d] /\ inbox'[d][i] = inbox[d][i]
        BY <2>1, <2>2, <2>3, AppendFacts DEF RoutingInv, TypeOK
      <3> QED
        BY <3>1, <2>1, <2>2 DEF RoutingInv, InboxInv, Addressed, cvars
    <2> QED
      BY <2>4, <2>5, <2>6 DEF RoutingInv
  <1>3. CASE Send(c)
    BY <1>3, <1>2 DEF Send
  <1>4. CASE Respond(c)
    <2>1. PICK i \in DOMAIN out[c] : /\ out[c][i].class = "proto"
                                     /\ Write(c, "proto", out[c][i].sline, out[c][i].msg.src)
      BY <1>4 DEF Respond
    <2>2. out[c][i] \in Written
      BY DEF RoutingInv, TypeOK
    <2>3. out[c][i].sline \in Nat /\ out[c][i].msg.src \in Conns
      BY <2>2 DEF Written, Message
    <2>4. out[c][i].sline > 0 /\ out[c][i].sline = lid[out[c][i].msg.src]
      BY <2>1 DEF RoutingInv, OutInv
    <2> QED
      BY <2>1, <2>3, <2>4, <1>2 DEF Classes
  <1>5. CASE Reset(c)
    BY <1>5, ResetStep
  <1> QED
    BY <1>1, <1>3, <1>4, <1>5 DEF Remote

(* The handler of a connection takes the next id, which no connection has. *)
LEMMA StartStep ==
    ASSUME RoutingInv, NEW c \in Conns, StartHandler(c)
    PROVE  RoutingInv'
  <1>1. /\ phase[c] = "accepted" /\ lid[c] = 0
        /\ sid' = sid + 1
        /\ lid' = [lid EXCEPT ![c] = sid + 1]
        /\ phase' = [phase EXCEPT ![c] = "open"]
        /\ writers' = [writers EXCEPT ![at[c]] = @ \cup {c}]
        /\ UNCHANGED <<jvars, ovars, at, rvars, queue, out>>
    BY DEF StartHandler, AllocSid, RoutingInv, LidInv
  <1>2. TypeOK
    BY DEF RoutingInv
  <1>3. TypeOK'
    <2>1. ndisp' \in [Lines -> Nat]
      <3>1. at[c] \in Lines /\ ndisp[at[c]] \in Nat /\ ndisp[at[c]] + 1 \in Nat
        BY <1>1, <1>2 DEF TypeOK, RoutingInv, AtInv
      <3> QED
        BY <3>1, <1>2 DEF TypeOK, StartHandler
    <2>2. writers' \in [Lines -> SUBSET Conns]
      BY <1>1, <1>2 DEF TypeOK
    <2> QED
      BY <1>1, <1>2, <2>1, <2>2 DEF TypeOK, jvars, ovars, rvars
  <1>4. AtInv' /\ WritersInv'
    BY <1>1, <1>2, SMTT(30) DEF RoutingInv, TypeOK, AtInv, WritersInv
  <1>5. LidInv'
    <2>1. LidInv
      BY DEF RoutingInv
    <2>2. \A d \in Conns : d # c => lid'[d] = lid[d] /\ phase'[d] = phase[d]
      BY <1>1, <1>2 DEF TypeOK
    <2>3. lid'[c] = sid + 1 /\ phase'[c] = "open" /\ sid \in Nat
      BY <1>1, <1>2 DEF TypeOK
    <2>4. \A d \in Conns : lid[d] \in Nat
      BY <1>2 DEF TypeOK
    <2> QED
      BY <1>1, <2>1, <2>2, <2>3, <2>4 DEF LidInv
  <1>6. \A d \in Conns : lid[d] > 0 => lid'[d] = lid[d]
    BY <1>1, <1>2 DEF TypeOK
  <1>7. InboxInv'
    <2> SUFFICES ASSUME NEW d \in Conns, NEW i \in DOMAIN inbox[d]
                 PROVE  Addressed(inbox[d][i])' /\ inbox[d][i].src = d
      BY <1>1 DEF InboxInv, rvars
    <2>1. inbox[d][i] \in Message
      BY <1>2 DEF TypeOK
    <2> QED
      BY <1>1, <1>6, <2>1 DEF RoutingInv, InboxInv, Addressed, Message, rvars
  <1>8. QueueInv'
    <2> SUFFICES ASSUME NEW l \in Lines, NEW i \in DOMAIN queue[l]
                 PROVE  /\ Addressed(queue[l][i].msg)'
                        /\ queue[l][i].src_line = lid'[queue[l][i].msg.src]
                        /\ queue[l][i].src_line > 0
      BY <1>1 DEF QueueInv
    <2>1. queue[l][i] \in Packet
      BY <1>2 DEF TypeOK
    <2> QED
      BY <1>1, <1>6, <2>1 DEF RoutingInv, QueueInv, Addressed, Packet, Message
  <1>9. OutInv'
    <2> SUFFICES ASSUME NEW d \in Conns, NEW i \in DOMAIN out[d]
                 PROVE  /\ out[d][i].msg.to \in {NoConn, d}
                        /\ lid'[out[d][i].msg.src] > 0
                        /\ out[d][i].class = "proto" => out[d][i].sline = lid'[out[d][i].msg.src]
      BY <1>1 DEF OutInv
    <2>1. out[d][i] \in Written
      BY <1>2 DEF TypeOK
    <2> QED
      BY <1>6, <2>1 DEF RoutingInv, OutInv, Written, Message
  <1> QED
    BY <1>3, <1>4, <1>5, <1>7, <1>8, <1>9 DEF RoutingInv

(* A message read from c is queued with the id of c.                       *)
LEMMA ReadStep ==
    ASSUME RoutingInv, NEW c \in Conns, ReadMessage(c)
    PROVE  RoutingInv'
  <1> DEFINE p == [msg |-> Head(inbox[c]), from |-> at[c], src_line |-> lid[c]]
  <1>1. /\ phase[c] = "open" /\ inbox[c] # <<>>
        /\ inbox' = [inbox EXCEPT ![c] = Tail(@)]
        /\ queue' = [t \in Lines |-> IF t \in Peers[at[c]] THEN Append(queue[t], p)
                                                        ELSE queue[t]]
        /\ UNCHANGED <<jvars, ovars, cvars, eof, sent, writers, ndisp, out>>
    BY DEF ReadMessage
  <1>2. TypeOK /\ inbox[c] \in Seq(Message)
    BY DEF RoutingInv, TypeOK
  <1>3. /\ p \in Packet
        /\ Addressed(p.msg) /\ p.src_line = lid[p.msg.src] /\ p.src_line > 0
    <2>1. Head(inbox[c]) \in Message /\ Head(inbox[c]) = inbox[c][1] /\ 1 \in DOMAIN inbox[c]
      BY <1>1, <1>2, TailFacts
    <2>2. at[c] \in Lines /\ lid[c] \in Nat /\ lid[c] > 0
      BY <1>1, <1>2 DEF RoutingInv, AtInv, LidInv, TypeOK
    <2> QED
      BY <2>1, <2>2 DEF Packet, RoutingInv, InboxInv
  <1> HIDE DEF p
  <1>4. \A t \in Lines : queue[t] \in Seq(Packet) /\ Append(queue[t], p) \in Seq(Packet)
    BY <1>2, <1>3, AppendFacts DEF TypeOK
  <1>5. TypeOK'
    <2>1. inbox' \in [Conns -> Seq(Message)]
      BY <1>1, <1>2, TailFacts DEF TypeOK
    <2>2. queue' \in [Lines -> Seq(Packet)]
      BY <1>1, <1>4
    <2> QED
      BY <1>1, <1>2, <2>1, <2>2 DEF TypeOK, jvars, ovars, cvars
  <1>6. AtInv' /\ LidInv' /\ WritersInv' /\ OutInv'
    BY <1>1 DEF RoutingInv, AtInv, LidInv, WritersInv, OutInv, cvars
  <1>7. InboxInv'
    <2>1. \A d \in Conns : \A i \in DOMAIN inbox'[d] :
              \E j \in DOMAIN inbox[d] : inbox'[d][i] = inbox[d][j]
      BY <1>1, <1>2, TailFacts DEF TypeOK
    <2> QED
      BY <1>1, <2>1 DEF RoutingInv, InboxInv, Addressed, cvars
  <1>8. QueueInv'
    <2>1. \A t \in Lines : \A i \in DOMAIN queue'[t] :
              \/ queue'[t][i] = p
              \/ i \in DOMAIN queue[t] /\ queue'[t][i] = queue[t][i]
      BY <1>1, <1>2, <1>3, <1>4, AppendFacts
    <2> QED
      BY <1>1, <1>3, <2>1 DEF RoutingInv, QueueInv, Addressed, cvars
  <1> QED
    BY <1>5, <1>6, <1>7, <1>8 DEF RoutingInv

(* A handler that ends takes its writer with it.                           *)
LEMMA EndStep ==
    ASSUME RoutingInv, NEW c \in Conns, EndHandler(c)
    PROVE  RoutingInv'
  <1>1. /\ phase[c] = "open"
        /\ writers' = [writers EXCEPT ![at[c]] = @ \ {c}]
        /\ phase' = [phase EXCEPT ![c] = "gone"]
        /\ UNCHANGED <<sid, at, lid, rvars, queue, out>>
    BY DEF EndHandler
  <1>2. TypeOK'
    <2>1. opening' \in [Lines -> Nat]
      <3>1. at[c] \in Lines /\ opening[at[c]] \in Nat /\ opening[at[c]] + 1 \in Nat
        BY <1>1 DEF TypeOK, RoutingInv, AtInv
      <3>2. opening \in [Lines -> Nat]
        BY DEF RoutingInv, TypeOK
      <3> QED
        BY <3>1, <3>2 DEF EndHandler
    <2>2. writers' \in [Lines -> SUBSET Conns]
      BY <1>1 DEF RoutingInv, TypeOK
    <2>3. UNCHANGED <<jvars, dialing, opens, srv, complaints, ndisp>>
      BY DEF EndHandler
    <2> QED
      BY <1>1, <2>1, <2>2, <2>3 DEF RoutingInv, TypeOK, jvars, rvars
  <1>3. AtInv' /\ LidInv'
    BY <1>1 DEF RoutingInv, TypeOK, AtInv, LidInv
  <1>4. WritersInv'
    <2> SUFFICES ASSUME NEW l \in Lines, NEW d \in writers'[l] PROVE phase'[d] \in {"open", "broken"} /\ at'[d] = l
      BY DEF WritersInv
    <2> QED
      BY <1>1 DEF RoutingInv, TypeOK, WritersInv
  <1>5. InboxInv' /\ QueueInv' /\ OutInv'
    BY <1>1 DEF RoutingInv, InboxInv, QueueInv, OutInv, Addressed, rvars
  <1> QED
    BY <1>2, <1>3, <1>4, <1>5 DEF RoutingInv

(* A message leaves the queue of a line for its addressees, which a        *)
(* response has at most one of.                                            *)
LEMMA DispatchStep ==
    ASSUME RoutingInv, NEW l \in Lines, Dispatch(l)
    PROVE  RoutingInv'
  <1> DEFINE p    == Head(queue[l])
             dst  == Addressees(l, p)
             o    == Outcome(l, p)
             dies == dst # {} /\ Lethal(l, p)
             w    == [msg |-> p.msg, class |-> o,
                      sline |-> IF o = "proto" THEN p.src_line ELSE 0]
  <1>1. /\ ndisp[l] > 0
        /\ queue[l] # <<>>
        /\ queue' = [queue EXCEPT ![l] = Tail(@)]
        /\ ndisp' = [ndisp EXCEPT ![l] = IF dies THEN @ - 1 ELSE @]
        /\ out' = [c \in Conns |-> IF c \in dst /\ ~dies THEN Append(out[c], w) ELSE out[c]]
        /\ UNCHANGED <<jvars, ovars, cvars, rvars, writers>>
    BY DEF Dispatch
  <1>2. TypeOK
    BY DEF RoutingInv
  <1>3. queue[l] \in Seq(Packet)
    BY <1>2 DEF TypeOK
  <1>4. /\ p \in Packet
        /\ p.msg \in Message /\ p.from \in Lines /\ p.src_line \in Nat
        /\ Addressed(p.msg) /\ p.src_line = lid[p.msg.src] /\ p.src_line > 0
    <2>1. p \in Packet /\ p = queue[l][1] /\ 1 \in DOMAIN queue[l]
      BY <1>1, <1>3, TailFacts
    <2>2. p.msg \in Message /\ p.from \in Lines /\ p.src_line \in Nat
      BY <2>1 DEF Packet
    <2> QED
      BY <2>1, <2>2 DEF RoutingInv, QueueInv
  <1>5. o \in Outcomes
    BY <1>4, MorphAssumption DEF Outcome, Message
  <1>6. ~Lethal(l, p) => w \in Written
    BY <1>4, <1>5 DEF Lethal, Written, Outcomes
  <1>7. \A c \in Conns : \/ out'[c] = out[c]
                         \/ /\ c \in dst /\ w \in Written
                            /\ out'[c] = Append(out[c], w)
    BY <1>1, <1>6
  <1>8. \A c \in dst : c \in Conns /\ p.msg.dline \in {0, lid[c]}
    BY <1>2 DEF Addressees, TypeOK
  <1>9. w.msg = p.msg /\ (w.class = "proto" => w.sline = lid[p.msg.src])
    BY <1>4
  <1> HIDE DEF p, dst, o, dies, w
  <1>10. TypeOK'
    <2>1. queue' \in [Lines -> Seq(Packet)]
      BY <1>1, <1>2, <1>3, TailFacts DEF TypeOK
    <2>2. ndisp' \in [Lines -> Nat]
      <3>1. ndisp[l] \in Nat /\ ndisp[l] - 1 \in Nat
        BY <1>1, <1>2 DEF TypeOK
      <3>2. ndisp \in [Lines -> Nat]
        BY <1>2 DEF TypeOK
      <3> QED
        BY <1>1, <3>1, <3>2
    <2>3. out' \in [Conns -> Seq(Written)]
      <3>1. \A c \in Conns : out[c] \in Seq(Written)
        BY <1>2 DEF TypeOK
      <3>2. \A c \in Conns : out'[c] \in Seq(Written)
        BY <1>7, <3>1, AppendFacts, SMTT(30)
      <3> QED
        BY <1>1, <3>2
    <2> QED
      BY <1>1, <1>2, <2>1, <2>2, <2>3 DEF TypeOK, jvars, ovars, cvars, rvars
  <1>11. AtInv' /\ LidInv' /\ WritersInv' /\ InboxInv'
    BY <1>1 DEF RoutingInv, AtInv, LidInv, WritersInv, InboxInv, Addressed, cvars, rvars
  <1>12. QueueInv'
    <2>1. \A t \in Lines : \A i \in DOMAIN queue'[t] :
              \E j \in DOMAIN queue[t] : queue'[t][i] = queue[t][j]
      BY <1>1, <1>2, <1>3, TailFacts DEF TypeOK
    <2> QED
      BY <1>1, <2>1 DEF RoutingInv, QueueInv, Addressed, cvars
  <1>13. OutInv'
    <2>1. ASSUME NEW c \in dst PROVE p.msg.to \in {NoConn, c}
      <3>1. CASE p.msg.to = NoConn
        BY <3>1
      <3>2. CASE p.msg.to # NoConn
        <4>1. p.msg.to \in Conns /\ c \in Conns
          BY <1>4, <1>8, <3>2 DEF Message
        <4>2. lid[p.msg.to] = lid[c] /\ lid[c] > 0
          BY <1>4, <1>8, <2>1, <3>2 DEF Addressed
        <4> QED
          BY <4>1, <4>2 DEF RoutingInv, LidInv
      <3> QED
        BY <3>1, <3>2
    <2>2. \A c \in Conns : \A i \in DOMAIN out'[c] :
              \/ i \in DOMAIN out[c] /\ out'[c][i] = out[c][i]
              \/ c \in dst /\ out'[c][i] = w
      <3> SUFFICES ASSUME NEW c \in Conns, NEW i \in DOMAIN out'[c]
                   PROVE  \/ i \in DOMAIN out[c] /\ out'[c][i] = out[c][i]
                          \/ c \in dst /\ out'[c][i] = w
        OBVIOUS
      <3>1. out[c] \in Seq(Written)
        BY <1>2 DEF TypeOK
      <3>2. CASE out'[c] = out[c]
        BY <3>2
      <3>3. CASE c \in dst /\ w \in Written /\ out'[c] = Append(out[c], w)
        <4>1. DOMAIN out'[c] = 1..Len(out[c]) + 1 /\ DOMAIN out[c] = 1..Len(out[c])
          BY <3>1, <3>3, AppendFacts
        <4>2. out'[c][i] = IF i = Len(out[c]) + 1 THEN w ELSE out[c][i]
          BY <3>1, <3>3, AppendFacts
        <4> QED
          BY <3>1, <3>3, <4>1, <4>2
      <3> QED
        BY <1>7, <3>2, <3>3
    <2>3. lid[p.msg.src] > 0
      BY <1>4
    <2> QED
      BY <1>1, <1>9, <2>1, <2>2, <2>3 DEF RoutingInv, OutInv, cvars
  <1> QED
    BY <1>10, <1>11, <1>12, <1>13 DEF RoutingInv

(* Closing a line keeps a prefix of what its connections have not read.    *)
LEMMA DetachStep ==
    ASSUME RoutingInv, NEW l \in Lines, DetachTcp(l)
    PROVE  RoutingInv'
  <1>1. /\ srv' = [srv EXCEPT ![l] = FALSE]
        /\ registry' = registry \ {l}
        /\ eof' = [c \in Conns |-> eof[c] \/ c \in writers[l]]
        /\ UNCHANGED <<inits, stopping, opening, dialing, opens, complaints, cvars,
                       sent, writers, queue, ndisp, out>>
    BY DEF DetachTcp, CloseWriters
  <1>2. PICK kept \in [writers[l] -> 0..MaxSends] :
            /\ \A c \in writers[l] : kept[c] \in 0..Len(inbox[c])
            /\ inbox' = [c \in Conns |-> IF c \in writers[l]
                                           THEN SubSeq(inbox[c], 1, kept[c]) ELSE inbox[c]]
    BY DEF DetachTcp, CloseWriters
  <1>3. TypeOK
    BY DEF RoutingInv
  <1>4. \A c \in Conns : /\ inbox'[c] \in Seq(Message)
                         /\ \A i \in DOMAIN inbox'[c] :
                                i \in DOMAIN inbox[c] /\ inbox'[c][i] = inbox[c][i]
    <2> SUFFICES ASSUME NEW c \in Conns
                 PROVE  /\ inbox'[c] \in Seq(Message)
                        /\ \A i \in DOMAIN inbox'[c] :
                               i \in DOMAIN inbox[c] /\ inbox'[c][i] = inbox[c][i]
      OBVIOUS
    <2>1. inbox[c] \in Seq(Message)
      BY <1>3 DEF TypeOK
    <2>2. CASE c \in writers[l]
      <3>1. kept[c] \in 0..Len(inbox[c]) /\ inbox'[c] = SubSeq(inbox[c], 1, kept[c])
        BY <1>2, <2>2
      <3> QED
        BY <2>1, <3>1, PrefixFacts
    <2>3. CASE c \notin writers[l]
      BY <1>2, <2>1, <2>3
    <2> QED
      BY <2>2, <2>3
  <1>5. TypeOK'
    <2>1. inbox' \in [Conns -> Seq(Message)]
      BY <1>2, <1>4
    <2>2. eof' \in [Conns -> BOOLEAN] /\ srv' \in [Lines -> BOOLEAN] /\ registry' \subseteq Lines
      BY <1>1, <1>3 DEF TypeOK
    <2> QED
      BY <1>1, <1>3, <2>1, <2>2 DEF TypeOK, cvars
  <1>6. AtInv' /\ LidInv' /\ WritersInv' /\ QueueInv' /\ OutInv'
    BY <1>1 DEF RoutingInv, AtInv, LidInv, WritersInv, QueueInv, OutInv, Addressed, cvars
  <1>7. InboxInv'
    BY <1>1, <1>4 DEF RoutingInv, InboxInv, Addressed, cvars
  <1> QED
    BY <1>5, <1>6, <1>7 DEF RoutingInv

-----------------------------------------------------------------------------
(* The theorems                                                            *)

(* Every step of the junction keeps the routing invariant.                 *)
LEMMA RoutingStep == RoutingInv /\ [Next]_vars => RoutingInv'
  <1> SUFFICES ASSUME RoutingInv, [Next]_vars PROVE RoutingInv'
    OBVIOUS
  <1>1. CASE UNCHANGED vars
    BY <1>1 DEF vars, jvars, ovars, cvars, rvars, RoutingInv, TypeOK, AtInv, LidInv,
                WritersInv, InboxInv, QueueInv, OutInv, Addressed
  <1>2. CASE JunctionInit \/ Shutdown
    BY <1>2, InitStep
  <1>3. ASSUME NEW l \in Lines, Open(l) \/ Dispatch(l) \/ Detach(l) PROVE RoutingInv'
    BY <1>3, OpenStep, DispatchStep, DetachStep DEF Detach
  <1>4. ASSUME NEW c \in Conns, Attach(c) \/ Remote(c) \/ Handler(c) PROVE RoutingInv'
    BY <1>4, AttachStep, RemoteStep, StartStep, ReadStep, EndStep DEF Attach, Handler
  <1> QED
    BY <1>1, <1>2, <1>3, <1>4 DEF Next

(* The routing invariant holds in every reachable state.                   *)
THEOREM RoutingInvariant == Spec => []RoutingInv
  BY RoutingInit, RoutingStep, PTL DEF Spec

(* The variables keep their types, whatever the callbacks return: what is  *)
(* written is always a string or a packet, never None.                     *)
THEOREM TypeCorrect == Spec => []TypeOK
  <1>1. RoutingInv => TypeOK
    BY DEF RoutingInv
  <1> QED
    BY <1>1, RoutingInvariant, PTL

(* A response is only ever written to the connection it answers: line ids  *)
(* are unique and a response carries the id of its requester.              *)
THEOREM RepliesReachRequesters == Spec => []ReplyReachesRequester
  <1>1. RoutingInv => ReplyReachesRequester
    BY DEF RoutingInv, OutInv, ReplyReachesRequester
  <1> QED
    BY <1>1, RoutingInvariant, PTL

-----------------------------------------------------------------------------
(* A line with clients is served                                           *)

(* A dispatch task only ends on a packet that cannot be written, and there *)
(* is none while no callback fails and the ids fit their byte.             *)
LEMMA DispatchServes ==
    ASSUME RoutingInv, ServedWhileConnected, NEW l \in Lines, Dispatch(l)
    PROVE  ServedWhileConnected'
  <1> SUFFICES ASSUME NoFailingMorph, sid <= MaxSline PROVE ndisp' = ndisp
    BY DEF ServedWhileConnected, NoFailingMorph, Dispatch, cvars
  <1> DEFINE p == Head(queue[l])
  <1>1. TypeOK /\ queue[l] \in Seq(Packet) /\ queue[l] # <<>>
    BY DEF RoutingInv, TypeOK, Dispatch
  <1>2. p \in Packet /\ p = queue[l][1] /\ 1 \in DOMAIN queue[l]
    BY <1>1, TailFacts
  <1>3. p.from \in Lines /\ p.msg.class \in Classes /\ p.msg.src \in Conns
    BY <1>2 DEF Packet, Message
  <1>4. Outcome(l, p) \in Classes
    BY <1>3 DEF NoFailingMorph, Outcome
  <1>5. p.src_line = lid[p.msg.src] /\ lid[p.msg.src] <= sid
    BY <1>2, <1>3 DEF RoutingInv, QueueInv, LidInv
  <1>6. p.src_line \in Nat /\ sid \in Nat /\ MaxSline \in Nat
    BY <1>1, <1>2, BoundAssumption DEF Packet, TypeOK
  <1>7. ~Lethal(l, p)
    BY <1>4, <1>5, <1>6 DEF Lethal, Classes
  <1>8. ndisp' = [ndisp EXCEPT ![l] = ndisp[l]]
    BY <1>7 DEF Dispatch
  <1> QED
    BY <1>1, <1>8 DEF TypeOK

(* The first client of a line starts a task, the others find one.          *)
LEMMA StartServes ==
    ASSUME RoutingInv, ServedWhileConnected, NEW c \in Conns, StartHandler(c)
    PROVE  ServedWhileConnected'
  <1> SUFFICES ASSUME NoFailingMorph, sid' <= MaxSline, NEW l \in Lines, writers'[l] # {}
               PROVE  ndisp'[l] > 0
    BY DEF ServedWhileConnected, NoFailingMorph
  <1>1. TypeOK
    BY DEF RoutingInv
  <1>2. sid' = sid + 1 /\ sid \in Nat /\ MaxSline \in Nat
    BY <1>1, BoundAssumption DEF StartHandler, AllocSid, TypeOK
  <1>3. writers[l] # {} => ndisp[l] > 0
    BY <1>2 DEF ServedWhileConnected, NoFailingMorph
  <1>4. ndisp[l] \in Nat
    BY <1>1 DEF TypeOK
  <1>5. CASE l = at[c]
    <2>1. ndisp'[l] = IF writers[l] = {} THEN ndisp[l] + 1 ELSE ndisp[l]
      BY <1>1, <1>5 DEF TypeOK, StartHandler
    <2> QED
      BY <1>3, <1>4, <2>1
  <1>6. CASE l # at[c]
    <2>1. ndisp'[l] = ndisp[l] /\ writers'[l] = writers[l]
      BY <1>1, <1>6 DEF TypeOK, StartHandler
    <2> QED
      BY <1>3, <2>1
  <1> QED
    BY <1>5, <1>6

(* A client that leaves ends no dispatch task.                             *)
LEMMA EndServes ==
    ASSUME RoutingInv, ServedWhileConnected, NEW c \in Conns, EndHandler(c)
    PROVE  ServedWhileConnected'
  <1>1. UNCHANGED <<sid, ndisp>>
    BY DEF EndHandler
  <1>2. \A l \in Lines : writers'[l] \subseteq writers[l]
    BY DEF EndHandler, RoutingInv, TypeOK
  <1> QED
    BY <1>1, <1>2 DEF ServedWhileConnected, NoFailingMorph

(* No step leaves a line with clients and without a dispatch task.         *)
LEMMA ServedStep ==
    RoutingInv /\ ServedWhileConnected /\ [Next]_vars => ServedWhileConnected'
  <1> SUFFICES ASSUME RoutingInv, ServedWhileConnected, [Next]_vars
               PROVE  ServedWhileConnected'
    OBVIOUS
  <1>1. CASE UNCHANGED <<sid, writers, ndisp>>
    BY <1>1 DEF ServedWhileConnected, NoFailingMorph
  <1>2. CASE UNCHANGED vars
    BY <1>1, <1>2 DEF vars, cvars
  <1>3. CASE JunctionInit \/ Shutdown
    BY <1>1, <1>3 DEF JunctionInit, Shutdown, cvars
  <1>4. ASSUME NEW l \in Lines, Open(l) \/ Detach(l) PROVE ServedWhileConnected'
    BY <1>1, <1>4 DEF Open, OpenServer, OpenSerial, OpenFails, DialFails, SerialComplains,
                      Detach, DetachTcp, DetachSerial, DetachSerialFails, cvars
  <1>5. ASSUME NEW l \in Lines, Dispatch(l) PROVE ServedWhileConnected'
    BY <1>5, DispatchServes
  <1>6. ASSUME NEW c \in Conns, Attach(c) PROVE ServedWhileConnected'
    BY <1>1, <1>6 DEF Attach, Accept, ConnectRemote, ConnectSerial
  <1>7. ASSUME NEW c \in Conns, Remote(c) PROVE ServedWhileConnected'
    BY <1>1, <1>7 DEF Remote, Send, Respond, Write, RemoteClose, Reset, cvars
  <1>8. ASSUME NEW c \in Conns, ReadMessage(c) PROVE ServedWhileConnected'
    BY <1>1, <1>8 DEF ReadMessage, cvars
  <1>9. ASSUME NEW c \in Conns, StartHandler(c) \/ EndHandler(c) PROVE ServedWhileConnected'
    BY <1>9, StartServes, EndServes
  <1> QED
    BY <1>2, <1>3, <1>4, <1>5, <1>6, <1>7, <1>8, <1>9 DEF Next, Handler

(* As long as no callback raises or returns None and no more than MaxSline *)
(* connections have been made, a line with connected clients always has a  *)
(* dispatch task, however often clients come and go.                       *)
THEOREM ConnectedLinesAreServed == Spec => []ServedWhileConnected
  <1>1. Init => ServedWhileConnected
    BY DEF Init, ServedWhileConnected
  <1> QED
    BY <1>1, RoutingInvariant, ServedStep, PTL DEF Spec

-----------------------------------------------------------------------------
(* A connection to a remote server is replaced once                        *)

\* The connections of a line that have not ended, or that were reset.
Linked(l) == ConnsOf(l, {"accepted", "open", "broken"})

\* A line whose remote is a server has finitely many, as many as its open()
\* calls that neither wait nor gave up, and never listens or dials ser2net.
Balanced(l) ==
    /\ ~srv[l]
    /\ IsFiniteSet(Linked(l))
    /\ opening[l] + Cardinality(Linked(l)) = opens[l]

OpenInv == \A l \in Lines : Kind[l] = "client" => Balanced(l)

\* What the invariant speaks of.
links == <<opening, opens, srv, phase, at>>

(* A step that moves no connection into or out of these phases.            *)
LEMMA LinkedSame ==
    ASSUME NEW l \in Lines, Balanced(l), UNCHANGED <<phase, at>>, ~srv'[l],
           opening[l] \in Int, opens[l] \in Int, NEW d \in Int,
           opening'[l] = opening[l] + d, opens'[l] = opens[l] + d
    PROVE  Balanced(l)'
  <1>1. Linked(l)' = Linked(l)
    BY DEF Linked, ConnsOf
  <1>2. IsFiniteSet(Linked(l)) /\ Cardinality(Linked(l)) \in Nat
    BY FS_CardinalityType DEF Balanced
  <1>3. Cardinality(Linked(l))' = Cardinality(Linked(l))
    BY <1>1
  <1>5. IsFiniteSet(Linked(l))'
    BY <1>1, <1>2
  <1>6. opening'[l] + Cardinality(Linked(l))' = opens'[l]
    BY <1>2, <1>3 DEF Balanced
  <1> QED
    BY <1>5, <1>6 DEF Balanced

(* A new connection takes the place of the open() that made it.            *)
LEMMA AttachBalances ==
    ASSUME RoutingInv, OpenInv, NEW c \in Conns, Attach(c)
    PROVE  OpenInv'
  <1> SUFFICES ASSUME NEW l \in Lines, Kind[l] = "client" PROVE Balanced(l)'
    BY DEF OpenInv
  <1>0. PICK t \in Lines : Accept(c, t) \/ ConnectRemote(c, t) \/ ConnectSerial(c, t)
    BY DEF Attach
  <1>1. TypeOK /\ Balanced(l)
    BY DEF RoutingInv, OpenInv
  <1>2. /\ opening[l] \in Int /\ opens[l] \in Int
        /\ IsFiniteSet(Linked(l)) /\ Cardinality(Linked(l)) \in Nat
    BY <1>1, FS_CardinalityType DEF TypeOK, Balanced
  <1>3. phase[c] = "fresh" /\ phase' = [phase EXCEPT ![c] = "accepted"]
        /\ at' = [at EXCEPT ![c] = t]
    BY <1>0 DEF Accept, ConnectRemote, ConnectSerial, Establish
  <1>4. UNCHANGED <<opens, srv>>
    BY <1>0 DEF Accept, ConnectRemote, ConnectSerial, ovars
  <1>5. ~srv'[l]
    BY <1>1, <1>4 DEF Balanced
  <1>6. CASE t = l
    <2>1. ConnectRemote(c, l)
      BY <1>0, <1>1, <1>6 DEF Accept, ConnectSerial, Balanced
    <2>2. opening'[l] = opening[l] - 1
      BY <2>1, <1>1 DEF ConnectRemote, TypeOK
    <2>3. Linked(l)' = Linked(l) \cup {c} /\ c \notin Linked(l)
      BY <1>1, <1>3, <1>6 DEF Linked, ConnsOf, TypeOK
    <2>4. /\ IsFiniteSet(Linked(l) \cup {c})
          /\ Cardinality(Linked(l) \cup {c}) = Cardinality(Linked(l)) + 1
      BY <1>2, <2>3, FS_AddElement
    <2>5. IsFiniteSet(Linked(l))' /\ Cardinality(Linked(l))' = Cardinality(Linked(l)) + 1
      BY <2>3, <2>4
    <2>6. opening'[l] + Cardinality(Linked(l))' = opens'[l]
      BY <1>1, <1>2, <1>4, <2>2, <2>5 DEF Balanced
    <2> QED
      BY <1>5, <2>5, <2>6 DEF Balanced
  <1>7. CASE t # l
    <2>1. Linked(l)' = Linked(l)
      <3>1. ASSUME NEW d \in Conns
            PROVE  (at'[d] = l /\ phase'[d] \in {"accepted", "open", "broken"})
                     <=> (at[d] = l /\ phase[d] \in {"accepted", "open", "broken"})
        <4>1. CASE d = c
          <5>1. at'[d] = t /\ phase[d] = "fresh"
            BY <1>1, <1>3, <4>1 DEF TypeOK
          <5> QED
            BY <5>1, <1>7
        <4>2. CASE d # c
          BY <1>1, <1>3, <4>2 DEF TypeOK
        <4> QED
          BY <4>1, <4>2
      <3> QED
        BY <3>1 DEF Linked, ConnsOf
    <2>2. opening'[l] = opening[l]
      BY <1>0, <1>1, <1>7 DEF Accept, ConnectRemote, ConnectSerial, ovars, TypeOK
    <2>3. IsFiniteSet(Linked(l))' /\ Cardinality(Linked(l))' = Cardinality(Linked(l))
      BY <1>2, <2>1
    <2>4. opening'[l] + Cardinality(Linked(l))' = opens'[l]
      BY <1>1, <1>4, <2>2, <2>3 DEF Balanced
    <2> QED
      BY <1>5, <2>3, <2>4 DEF Balanced
  <1> QED
    BY <1>6, <1>7

(* The handler of a lost connection opens another one in its place.        *)
LEMMA EndBalances ==
    ASSUME RoutingInv, OpenInv, NEW c \in Conns, EndHandler(c)
    PROVE  OpenInv'
  <1> SUFFICES ASSUME NEW l \in Lines, Kind[l] = "client" PROVE Balanced(l)'
    BY DEF OpenInv
  <1>1. TypeOK /\ Balanced(l)
    BY DEF RoutingInv, OpenInv
  <1>2. /\ opening[l] \in Int /\ opens[l] \in Int
        /\ IsFiniteSet(Linked(l)) /\ Cardinality(Linked(l)) \in Nat
    BY <1>1, FS_CardinalityType DEF TypeOK, Balanced
  <1>3. /\ phase[c] = "open" /\ phase' = [phase EXCEPT ![c] = "gone"]
        /\ UNCHANGED <<opens, srv, at>>
        /\ opening' = [opening EXCEPT ![at[c]] =
                           IF Kind[at[c]] = "client" THEN opening[at[c]] + 1 ELSE opening[at[c]]]
    BY DEF EndHandler
  <1>4. ~srv'[l]
    BY <1>1, <1>3 DEF Balanced
  <1>5. CASE at[c] = l
    <2>1. opening'[l] = opening[l] + 1
      BY <1>1, <1>3, <1>5 DEF TypeOK
    <2>2. Linked(l)' = Linked(l) \ {c} /\ c \in Linked(l)
      BY <1>1, <1>3, <1>5 DEF Linked, ConnsOf, TypeOK
    <2>3. /\ IsFiniteSet(Linked(l) \ {c})
          /\ Cardinality(Linked(l) \ {c}) = Cardinality(Linked(l)) - 1
      BY <1>2, <2>2, FS_RemoveElement
    <2>4. IsFiniteSet(Linked(l))' /\ Cardinality(Linked(l))' = Cardinality(Linked(l)) - 1
      BY <2>2, <2>3
    <2>5. opening'[l] + Cardinality(Linked(l))' = opens'[l]
      BY <1>1, <1>2, <1>3, <2>1, <2>4 DEF Balanced
    <2> QED
      BY <1>4, <2>4, <2>5 DEF Balanced
  <1>6. CASE at[c] # l
    <2>1. Linked(l)' = Linked(l)
      BY <1>1, <1>3, <1>6 DEF Linked, ConnsOf, TypeOK
    <2>2. opening'[l] = opening[l]
      BY <1>1, <1>3, <1>6 DEF TypeOK
    <2>3. IsFiniteSet(Linked(l))' /\ Cardinality(Linked(l))' = Cardinality(Linked(l))
      BY <1>2, <2>1
    <2>4. opening'[l] + Cardinality(Linked(l))' = opens'[l]
      BY <1>1, <1>3, <2>2, <2>3 DEF Balanced
    <2> QED
      BY <1>4, <2>3, <2>4 DEF Balanced
  <1> QED
    BY <1>5, <1>6

(* A handler that starts leaves its connection among them.                 *)
LEMMA StartBalances ==
    ASSUME RoutingInv, OpenInv, NEW c \in Conns, StartHandler(c)
    PROVE  OpenInv'
  <1> SUFFICES ASSUME NEW l \in Lines, Kind[l] = "client" PROVE Balanced(l)'
    BY DEF OpenInv
  <1>1. TypeOK /\ Balanced(l)
    BY DEF RoutingInv, OpenInv
  <1>2. /\ phase[c] = "accepted" /\ phase' = [phase EXCEPT ![c] = "open"]
        /\ UNCHANGED <<opening, opens, srv, at>>
    BY DEF StartHandler, ovars
  <1>3. Linked(l)' = Linked(l)
    BY <1>1, <1>2 DEF Linked, ConnsOf, TypeOK
  <1> QED
    BY <1>1, <1>2, <1>3 DEF Balanced

(* So does a reset, whose writer stays.                                    *)
LEMMA ResetBalances ==
    ASSUME RoutingInv, OpenInv, NEW c \in Conns, Reset(c)
    PROVE  OpenInv'
  <1> SUFFICES ASSUME NEW l \in Lines, Kind[l] = "client" PROVE Balanced(l)'
    BY DEF OpenInv
  <1>1. TypeOK /\ Balanced(l)
    BY DEF RoutingInv, OpenInv
  <1>2. /\ phase[c] = "open" /\ phase' = [phase EXCEPT ![c] = "broken"]
        /\ UNCHANGED <<opening, opens, srv, at>>
    BY DEF Reset, ovars
  <1>3. Linked(l)' = Linked(l)
    BY <1>1, <1>2 DEF Linked, ConnsOf, TypeOK
  <1> QED
    BY <1>1, <1>2, <1>3 DEF Balanced

(* open() and detach: an open() that gives up no longer counts.            *)
LEMMA OpenBalances ==
    ASSUME RoutingInv, OpenInv, NEW t \in Lines, Open(t) \/ Detach(t)
    PROVE  OpenInv'
  <1> SUFFICES ASSUME NEW l \in Lines, Kind[l] = "client" PROVE Balanced(l)'
    BY DEF OpenInv
  <1>1. TypeOK /\ Balanced(l) /\ ~srv[l]
    BY DEF RoutingInv, OpenInv, Balanced
  <1>2. opening[l] \in Int /\ opens[l] \in Int
    BY <1>1 DEF TypeOK
  <1>3. UNCHANGED <<phase, at>>
    BY DEF Open, OpenServer, OpenSerial, OpenFails, DialFails, SerialComplains,
           Detach, DetachTcp, DetachSerial, DetachSerialFails, cvars
  <1>4. ~srv'[l]
    BY <1>1 DEF Open, OpenServer, OpenSerial, OpenFails, DialFails, SerialComplains,
           Detach, DetachTcp, DetachSerial, DetachSerialFails, ovars, TypeOK
  <1>5. CASE OpenFails(t) /\ t = l
    <2>1. opening'[l] = opening[l] + (0 - 1) /\ opens'[l] = opens[l] + (0 - 1)
      BY <1>1, <1>2, <1>5 DEF OpenFails, TypeOK
    <2> QED
      BY <1>1, <1>2, <1>3, <1>4, <2>1, LinkedSame
  <1>6. CASE ~(OpenFails(t) /\ t = l)
    <2>1. opening'[l] = opening[l] /\ opens'[l] = opens[l]
      BY <1>1, <1>6 DEF Open, OpenServer, OpenSerial, OpenFails, DialFails, SerialComplains,
           Detach, DetachTcp, DetachSerial, DetachSerialFails, ovars, TypeOK
    <2>2. opening'[l] = opening[l] + 0 /\ opens'[l] = opens[l] + 0
      BY <1>2, <2>1
    <2> QED
      BY <1>1, <1>2, <1>3, <1>4, <2>2, LinkedSame
  <1> QED
    BY <1>5, <1>6

(* Junction.init calls open() of every line that is attached.              *)
LEMMA InitBalances ==
    ASSUME RoutingInv, OpenInv, JunctionInit
    PROVE  OpenInv'
  <1> SUFFICES ASSUME NEW l \in Lines, Kind[l] = "client" PROVE Balanced(l)'
    BY DEF OpenInv
  <1>1. TypeOK /\ Balanced(l) /\ ~srv[l]
    BY DEF RoutingInv, OpenInv, Balanced
  <1>2. opening[l] \in Int /\ opens[l] \in Int
    BY <1>1 DEF TypeOK
  <1> DEFINE d == IF l \in registry THEN 1 ELSE 0
  <1>3. opening'[l] = opening[l] + d /\ opens'[l] = opens[l] + d /\ d \in Int
    BY DEF JunctionInit
  <1>4. UNCHANGED <<phase, at>> /\ ~srv'[l]
    BY <1>1 DEF JunctionInit, cvars
  <1> HIDE DEF d
  <1> QED
    BY <1>1, <1>2, <1>3, <1>4, LinkedSame

(* No step loses a connection without a successor or makes two.            *)
LEMMA OpenInvStep == RoutingInv /\ OpenInv /\ [Next]_vars => OpenInv'
  <1> SUFFICES ASSUME RoutingInv, OpenInv, [Next]_vars PROVE OpenInv'
    OBVIOUS
  <1>1. CASE UNCHANGED links
    BY <1>1 DEF links, OpenInv, Balanced, Linked, ConnsOf
  <1>2. CASE UNCHANGED vars
    BY <1>1, <1>2 DEF vars, cvars, ovars, links
  <1>3. CASE Shutdown
    BY <1>1, <1>3 DEF Shutdown, ovars, cvars, links
  <1>4. ASSUME NEW l \in Lines, Dispatch(l) PROVE OpenInv'
    BY <1>1, <1>4 DEF Dispatch, ovars, cvars, links
  <1>5. ASSUME NEW c \in Conns, Remote(c) PROVE OpenInv'
    <2>1. CASE Reset(c)
      BY <2>1, ResetBalances
    <2>2. CASE ~Reset(c)
      BY <1>1, <1>5, <2>2 DEF Remote, Send, Respond, Write, RemoteClose, ovars, cvars, links
    <2> QED
      BY <2>1, <2>2
  <1>6. ASSUME NEW c \in Conns, ReadMessage(c) PROVE OpenInv'
    BY <1>1, <1>6 DEF ReadMessage, ovars, cvars, links
  <1>7. ASSUME NEW l \in Lines, Open(l) \/ Detach(l) PROVE OpenInv'
    BY <1>7, OpenBalances
  <1>8. ASSUME NEW c \in Conns, Attach(c) \/ StartHandler(c) \/ EndHandler(c) PROVE OpenInv'
    BY <1>8, AttachBalances, StartBalances, EndBalances
  <1> QED
    BY <1>2, <1>3, <1>4, <1>5, <1>6, <1>7, <1>8, InitBalances DEF Next, Handler

(* A line whose remote is a server has, for every open() that did not give *)
(* up, one connection, one open() that still tries or one stale writer of  *)
(* a connection that was reset, however often the remote closes and        *)
(* however many connections there are: what the remote closes is replaced  *)
(* once, what is reset never.                                              *)
THEOREM ClosedConnectionsAreReplacedOnce == Spec => []OneConnectionPerOpen
  <1>1. Init => OpenInv
    <2> SUFFICES ASSUME Init, NEW l \in Lines PROVE Balanced(l)
      BY DEF OpenInv
    <2>1. Linked(l) = {}
      BY DEF Init, Linked, ConnsOf
    <2>2. IsFiniteSet(Linked(l)) /\ Cardinality(Linked(l)) = 0
      BY <2>1, FS_EmptySet
    <2>3. ~srv[l] /\ opening[l] = 0 /\ opens[l] = 0
      BY DEF Init
    <2> QED
      BY <2>2, <2>3 DEF Balanced
  <1>2. OpenInv => OneConnectionPerOpen
    BY DEF OpenInv, Balanced, Linked, ConnsOf, OneConnectionPerOpen
  <1> QED
    BY <1>1, <1>2, RoutingInvariant, OpenInvStep, PTL DEF Spec

-----------------------------------------------------------------------------
(* The inductive invariant, on top of the routing invariant                *)

\* A connection that is not established has no line and nothing to read.
FreshInv == \A c \in Conns : phase[c] = "fresh" => at[c] = NoLine /\ inbox[c] = <<>>

\* What is no response is for everybody.
ForAll(m) == m.to = NoConn => m.dline = 0
BroadcastInv ==
    /\ \A c \in Conns : \A i \in DOMAIN inbox[c] : ForAll(inbox[c][i])
    /\ \A l \in Lines : \A i \in DOMAIN queue[l] : ForAll(queue[l][i].msg)

\* The messages of a sender are in order in its stream and in every queue, and
\* those that are queued come before those that are unread.
StreamOrder ==
    \A c \in Conns : \A i, j \in DOMAIN inbox[c] :
        inbox[c][i].seq <= Len(sent[c]) /\ (i < j => inbox[c][i].seq < inbox[c][j].seq)
QueueOrder ==
    \A l \in Lines : \A i, j \in DOMAIN queue[l] :
        i < j /\ queue[l][i].msg.src = queue[l][j].msg.src =>
            queue[l][i].msg.seq < queue[l][j].msg.seq
QueueFirst ==
    \A l \in Lines : \A i \in DOMAIN queue[l] : \A c \in Conns :
        queue[l][i].msg.src = c =>
            /\ queue[l][i].msg.seq <= Len(sent[c])
            /\ \A j \in DOMAIN inbox[c] : queue[l][i].msg.seq < inbox[c][j].seq

\* There is a connection for each line id, and only a shutdown closes a line.
Numbered == {c \in Conns : lid[c] > 0}
CountInv == sid <= Cardinality(Numbered)
StopInv  == stopping => MayShutdown

ImplInv ==
    /\ RoutingInv /\ FreshInv /\ BroadcastInv
    /\ StreamOrder /\ QueueOrder /\ QueueFirst /\ CountInv /\ StopInv

\* A step of the junction that keeps the invariant and is a step of the router.
Kept == /\ FreshInv' /\ BroadcastInv'
        /\ StreamOrder' /\ QueueOrder' /\ QueueFirst' /\ CountInv' /\ StopInv'

-----------------------------------------------------------------------------
(* The state of the router                                                 *)

\* What is due on a line is queued there or unread by one of its sources.
InQueue(l, x) == \E i \in DOMAIN queue[l] : x = Plain(queue[l][i].msg)
InStream(c, x) == \E i \in DOMAIN inbox[c] : x = Plain(inbox[c][i])
DueIs ==
    \A l \in Lines : \A x :
        x \in Due[l] <=> \/ InQueue(l, x)
                         \/ \E c \in Conns : at[c] \in Lines /\ l \in Peers[at[c]] /\ InStream(c, x)

LEMMA DueMembers == DueIs /\ DueIs'
<1>1. DueIs
  BY DEF DueIs, Due, Queued, Unread, SourcesOf, InQueue, InStream
<1>2. DueIs'
  BY DEF DueIs, Due, Queued, Unread, SourcesOf, InQueue, InStream
<1>. QED
  BY <1>1, <1>2

\* It is determined by the queues, the streams and the lines of the connections.
LEMMA DueSame ==
    ASSUME UNCHANGED <<at, inbox, queue>>
    PROVE  Due' = Due
BY DEF Due, Queued, Unread, SourcesOf

LEMMA BrokenSame == ASSUME UNCHANGED phase PROVE Broken' = Broken
BY DEF Broken

LEMMA GotSame == ASSUME UNCHANGED out PROVE Got' = Got
BY DEF Got

LEMMA WroteSame == ASSUME UNCHANGED sent PROVE Wrote' = Wrote
BY DEF Wrote

-----------------------------------------------------------------------------
(* The steps                                                               *)

\* The connections and the messages are left alone.
LEMMA QuietImplements ==
    ASSUME ImplInv, UNCHANGED core, stopping' => MayShutdown
    PROVE  Kept /\ UNCHANGED R!rvars
<1>1. UNCHANGED <<sid, phase, at, lid, eof, sent, inbox, writers, queue, out>>
  BY DEF core, cvars, rvars
<1>2. FreshInv' /\ BroadcastInv' /\ StopInv'
  BY <1>1 DEF ImplInv, FreshInv, BroadcastInv, ForAll, StopInv
<1>3. StreamOrder' /\ QueueOrder' /\ QueueFirst'
  BY <1>1 DEF ImplInv, StreamOrder, QueueOrder, QueueFirst
<1>4. CountInv'
  BY <1>1 DEF ImplInv, CountInv, Numbered
<1>5. UNCHANGED R!rvars
  BY <1>1, DueSame, GotSame, WroteSame, BrokenSame DEF R!rvars
<1>. QED
  BY <1>2, <1>3, <1>4, <1>5 DEF Kept

\* A new connection arrives: nothing of it is due.
LEMMA AttachImplements ==
    ASSUME ImplInv, NEW c \in Conns, NEW l \in Lines,
           Accept(c, l) \/ ConnectRemote(c, l) \/ ConnectSerial(c, l)
    PROVE  Kept /\ R!Arrive(c, l)
<1>1. /\ phase[c] = "fresh"
      /\ phase' = [phase EXCEPT ![c] = "accepted"] /\ at' = [at EXCEPT ![c] = l]
      /\ UNCHANGED <<stopping, sid, lid, eof, sent, inbox, writers, queue, out>>
  BY DEF Accept, ConnectRemote, ConnectSerial, Establish, jvars, rvars
<1>2. /\ phase \in [Conns -> {"fresh", "accepted", "open", "gone", "broken"}]
      /\ at \in [Conns -> Lines \cup {NoLine}]
      /\ at[c] = NoLine /\ inbox[c] = <<>> /\ NoLine \notin Lines
  BY <1>1, ConnsAssumption DEF ImplInv, RoutingInv, TypeOK, FreshInv
<1>3. FreshInv' /\ BroadcastInv' /\ StopInv'
  BY <1>1, <1>2 DEF ImplInv, FreshInv, BroadcastInv, ForAll, StopInv
<1>4. StreamOrder' /\ QueueOrder' /\ QueueFirst' /\ CountInv'
  BY <1>1 DEF ImplInv, StreamOrder, QueueOrder, QueueFirst, CountInv, Numbered
<1>5. Due' = Due
  <2>1. ASSUME NEW t \in Lines PROVE Due'[t] = Due[t]
    <3>1. \A x : ~InStream(c, x)
      BY <1>2 DEF InStream
    <3>2. \A d \in Conns : \A x : InStream(d, x)' <=> InStream(d, x)
      BY <1>1 DEF InStream
    <3>3. \A x : InQueue(t, x)' <=> InQueue(t, x)
      BY <1>1 DEF InQueue
    <3>4. \A d \in Conns : d # c => at'[d] = at[d]
      BY <1>1, <1>2
    <3>5. \A x : x \in Due'[t] <=> x \in Due[t]
      BY <3>1, <3>2, <3>3, <3>4, DueMembers DEF DueIs
    <3>. QED
      BY <3>5
  <2>. QED
    BY <2>1 DEF Due
<1>6. R!Arrive(c, l)
  <2>1. Broken' = Broken
    BY <1>1, <1>2 DEF Broken
  <2>. QED
    BY <1>1, <1>2, <1>5, <2>1, GotSame, WroteSame DEF R!Arrive
<1>. QED
  BY <1>3, <1>4, <1>6 DEF Kept

LEMMA CloseImplements ==
    ASSUME ImplInv, NEW c \in Conns, RemoteClose(c)
    PROVE  Kept /\ UNCHANGED R!rvars
<1>1. UNCHANGED <<stopping, sid, phase, at, lid, sent, inbox, writers, queue, out>>
  BY DEF RemoteClose, jvars, cvars
<1>2. FreshInv' /\ BroadcastInv' /\ StopInv'
  BY <1>1 DEF ImplInv, FreshInv, BroadcastInv, ForAll, StopInv
<1>3. StreamOrder' /\ QueueOrder' /\ QueueFirst' /\ CountInv'
  BY <1>1 DEF ImplInv, StreamOrder, QueueOrder, QueueFirst, CountInv, Numbered
<1>4. UNCHANGED R!rvars
  BY <1>1, DueSame, GotSame, WroteSame, BrokenSame DEF R!rvars
<1>. QED
  BY <1>2, <1>3, <1>4 DEF Kept

\* A message is written: it is due on every line its line is routed to.
LEMMA WriteImplements ==
    ASSUME ImplInv, NEW c \in Conns, NEW class \in Classes, NEW dline \in Nat,
           NEW to \in Conns \cup {NoConn}, Write(c, class, dline, to),
           to = NoConn => dline = 0,
           to = NoConn \/ \E i \in DOMAIN out[c] : to = out[c][i].msg.src
    PROVE  Kept /\ R!Write(c, to)
<1> DEFINE m == [src |-> c, seq |-> Len(sent[c]) + 1, class |-> class, dline |-> dline, to |-> to]
<1>1. /\ phase[c] \in {"accepted", "open"}
      /\ sent' = [sent EXCEPT ![c] = Append(@, m)] /\ inbox' = [inbox EXCEPT ![c] = Append(@, m)]
      /\ UNCHANGED <<stopping, sid, phase, at, lid, writers, queue, out>>
  BY DEF Write, Live, jvars, cvars
<1>2. /\ sent \in [Conns -> Seq(Message)] /\ inbox \in [Conns -> Seq(Message)]
      /\ at \in [Conns -> Lines \cup {NoLine}] /\ at[c] \in Lines /\ NoLine \notin Lines
      /\ Len(sent[c]) \in Nat
  BY <1>1, ConnsAssumption DEF ImplInv, RoutingInv, TypeOK, AtInv
<1>3. m \in Message /\ m.src = c /\ m.seq = Len(sent[c]) + 1 /\ m.to = to /\ ForAll(m)
  BY <1>2 DEF Message, ForAll
<1>4. Plain(m) = [src |-> c, seq |-> Len(sent[c]) + 1, to |-> to]
  BY <1>3 DEF Plain
<1> HIDE DEF m
<1>5. /\ \A d \in Conns : d # c => inbox'[d] = inbox[d] /\ sent'[d] = sent[d]
      /\ Len(sent'[c]) = Len(sent[c]) + 1
      /\ Len(inbox[c]) \in Nat /\ DOMAIN inbox[c] = 1..Len(inbox[c])
      /\ DOMAIN inbox'[c] = 1..Len(inbox[c]) + 1
      /\ \A i \in DOMAIN inbox'[c] :
             inbox'[c][i] = IF i = Len(inbox[c]) + 1 THEN m ELSE inbox[c][i]
  <2>1. /\ inbox[c] \in Seq(Message) /\ inbox'[c] = Append(inbox[c], m)
        /\ sent[c] \in Seq(Message) /\ sent'[c] = Append(sent[c], m)
        /\ \A d \in Conns : d # c => inbox'[d] = inbox[d] /\ sent'[d] = sent[d]
    BY <1>1, <1>2
  <2>2. /\ DOMAIN inbox'[c] = 1..Len(inbox[c]) + 1 /\ DOMAIN inbox[c] = 1..Len(inbox[c])
        /\ \A i \in DOMAIN inbox'[c] :
               inbox'[c][i] = IF i = Len(inbox[c]) + 1 THEN m ELSE inbox[c][i]
    BY <1>3, <2>1, AppendFacts
  <2>3. Len(sent'[c]) = Len(sent[c]) + 1 /\ Len(inbox[c]) \in Nat
    BY <1>3, <2>1
  <2>. QED
    BY <2>1, <2>2, <2>3
<1>6. \A d \in Conns : \A i \in DOMAIN inbox'[d] :
          \/ i \in DOMAIN inbox[d] /\ inbox'[d][i] = inbox[d][i]
          \/ d = c /\ i = Len(inbox[c]) + 1 /\ inbox'[d][i] = m
  BY <1>5
<1>7. \A d \in Conns : Len(sent[d]) \in Nat /\ Len(sent[d]) <= Len(sent'[d])
  <2>1. \A d \in Conns : Len(sent[d]) \in Nat
    BY <1>2
  <2>2. \A d \in Conns : Len(sent'[d]) = Len(sent[d]) \/ Len(sent'[d]) = Len(sent[d]) + 1
    BY <1>5
  <2>. QED
    BY <2>1, <2>2
<1>8. FreshInv' /\ CountInv' /\ StopInv'
  BY <1>1, <1>5 DEF ImplInv, FreshInv, CountInv, Numbered, StopInv
<1>9. BroadcastInv'
  <2>1. \A d \in Conns : \A i \in DOMAIN inbox'[d] : ForAll(inbox'[d][i])
    BY <1>3, <1>6 DEF ImplInv, BroadcastInv
  <2>. QED
    BY <1>1, <2>1 DEF ImplInv, BroadcastInv, ForAll
<1>10. StreamOrder'
  <2>1. \A d \in Conns : \A i \in DOMAIN inbox[d] : inbox[d][i].seq \in Nat /\ inbox[d][i].seq <= Len(sent[d])
    <3>1. \A d \in Conns : \A i \in DOMAIN inbox[d] : inbox[d][i] \in Message
      BY <1>2
    <3>. QED
      BY <3>1 DEF ImplInv, StreamOrder, Message
  <2>2. ASSUME NEW d \in Conns, NEW i \in DOMAIN inbox'[d], NEW j \in DOMAIN inbox'[d]
        PROVE  inbox'[d][i].seq <= Len(sent'[d]) /\ (i < j => inbox'[d][i].seq < inbox'[d][j].seq)
    <3>1. CASE d # c
      BY <1>5, <3>1 DEF ImplInv, StreamOrder
    <3>2. CASE d = c
      <4>1. inbox'[c][i].seq <= Len(sent'[c])
        <5>1. CASE i \in DOMAIN inbox[c] /\ inbox'[c][i] = inbox[c][i]
          <6>1. inbox[c][i].seq \in Nat /\ inbox[c][i].seq <= Len(sent[c])
            BY <2>1, <5>1
          <6>. QED
            BY <1>2, <1>5, <5>1, <6>1
        <5>2. CASE inbox'[c][i] = m
          BY <1>2, <1>3, <1>5, <5>2
        <5>. QED
          BY <1>6, <3>2, <5>1, <5>2
      <4>2. ASSUME i < j PROVE inbox'[c][i].seq < inbox'[c][j].seq
        <5>1. i \in DOMAIN inbox[c] /\ inbox'[c][i] = inbox[c][i]
          BY <1>5, <3>2, <4>2
        <5>2. CASE j \in DOMAIN inbox[c] /\ inbox'[c][j] = inbox[c][j]
          BY <4>2, <5>1, <5>2 DEF ImplInv, StreamOrder
        <5>3. CASE inbox'[c][j] = m
          BY <1>2, <1>3, <2>1, <5>1, <5>3
        <5>. QED
          BY <1>6, <3>2, <5>2, <5>3
      <4>. QED
        BY <3>2, <4>1, <4>2
    <3>. QED
      BY <3>1, <3>2
  <2>. QED
    BY <2>2 DEF StreamOrder
<1>11. QueueOrder'
  BY <1>1 DEF ImplInv, QueueOrder
<1>12. QueueFirst'
  <2>1. ASSUME NEW l \in Lines, NEW i \in DOMAIN queue[l], NEW d \in Conns, queue[l][i].msg.src = d
        PROVE  /\ queue[l][i].msg.seq <= Len(sent'[d])
               /\ \A j \in DOMAIN inbox'[d] : queue[l][i].msg.seq < inbox'[d][j].seq
    <3>1. queue[l][i].msg.seq \in Nat
      <4>1. queue[l][i] \in Packet
        BY DEF ImplInv, RoutingInv, TypeOK
      <4>. QED
        BY <4>1 DEF Packet, Message
    <3>2. /\ queue[l][i].msg.seq <= Len(sent[d])
          /\ \A j \in DOMAIN inbox[d] : queue[l][i].msg.seq < inbox[d][j].seq
      BY <2>1 DEF ImplInv, QueueFirst
    <3>3. \A j \in DOMAIN inbox'[d] : queue[l][i].msg.seq < inbox'[d][j].seq
      <4> SUFFICES ASSUME NEW j \in DOMAIN inbox'[d] PROVE queue[l][i].msg.seq < inbox'[d][j].seq
        OBVIOUS
      <4>1. CASE j \in DOMAIN inbox[d] /\ inbox'[d][j] = inbox[d][j]
        BY <3>2, <4>1
      <4>2. CASE d = c /\ inbox'[d][j] = m
        BY <1>2, <1>3, <3>1, <3>2, <4>2
      <4>. QED
        BY <1>6, <4>1, <4>2
    <3>. QED
      BY <1>2, <1>7, <3>1, <3>2, <3>3
  <2>. QED
    BY <1>1, <2>1 DEF QueueFirst
<1>13. R!Write(c, to)
  <2>1. Wrote' = [Wrote EXCEPT ![c] = @ + 1]
    BY <1>5 DEF Wrote
  <2>2. Got' = Got /\ UNCHANGED <<at, writers>>
    BY <1>1, GotSame
  <2>3. to = NoConn \/ \E i \in DOMAIN Got[c] : to = Got[c][i].src
    BY DEF Got, Plain
  <2>4. Plain(m) = [src |-> c, seq |-> Wrote[c] + 1, to |-> to]
    BY <1>4 DEF Wrote
  <2>5. Due' = [l \in Lines |-> IF l \in Peers[at[c]] THEN Due[l] \cup {Plain(m)} ELSE Due[l]]
    <3>1. ASSUME NEW d \in Conns, NEW x
          PROVE  InStream(d, x)' <=> InStream(d, x) \/ (d = c /\ x = Plain(m))
      <4>1. CASE d # c
        BY <1>5, <4>1 DEF InStream
      <4>2. CASE d = c
        <5>1. Len(inbox[c]) + 1 \in DOMAIN inbox'[c] /\ inbox'[c][Len(inbox[c]) + 1] = m
          BY <1>5
        <5>2. \A i \in DOMAIN inbox[c] : i \in DOMAIN inbox'[c] /\ inbox'[c][i] = inbox[c][i]
          BY <1>5
        <5>. QED
          BY <1>6, <4>2, <5>1, <5>2 DEF InStream
      <4>. QED
        BY <4>1, <4>2
    <3>2. ASSUME NEW l \in Lines, NEW x
          PROVE  x \in Due'[l] <=> x \in Due[l] \/ (l \in Peers[at[c]] /\ x = Plain(m))
      <4>1. InQueue(l, x)' <=> InQueue(l, x)
        BY <1>1 DEF InQueue
      <4>2. at' = at
        BY <1>1
      <4>. QED
        BY <1>2, <3>1, <4>1, <4>2, DueMembers DEF DueIs
    <3>3. \A l \in Lines : Due'[l] = IF l \in Peers[at[c]] THEN Due[l] \cup {Plain(m)} ELSE Due[l]
      BY <3>2
    <3>. QED
      BY <3>3 DEF Due
  <2>6. c \notin Broken /\ Broken' = Broken
    BY <1>1, BrokenSame DEF Broken
  <2>. QED
    BY <1>2, <2>1, <2>2, <2>3, <2>4, <2>5, <2>6 DEF R!Write
<1>. QED
  BY <1>8, <1>9, <1>10, <1>11, <1>12, <1>13 DEF Kept

\* A handler starts: its connection joins the line, and there is an id more.
LEMMA StartImplements ==
    ASSUME ImplInv, NEW c \in Conns, StartHandler(c)
    PROVE  Kept /\ R!Join(c)
<1>1. /\ phase[c] = "accepted" /\ sid' = sid + 1 /\ lid' = [lid EXCEPT ![c] = sid + 1]
      /\ phase' = [phase EXCEPT ![c] = "open"]
      /\ writers' = [writers EXCEPT ![at[c]] = @ \cup {c}]
      /\ UNCHANGED <<stopping, at, sent, inbox, queue, out>>
  BY DEF StartHandler, AllocSid, jvars, rvars
<1>2. /\ phase \in [Conns -> {"fresh", "accepted", "open", "gone", "broken"}]
      /\ lid \in [Conns -> Nat] /\ sid \in Nat /\ at[c] \in Lines /\ NoLine \notin Lines /\ lid[c] = 0
  BY <1>1, ConnsAssumption DEF ImplInv, RoutingInv, TypeOK, AtInv, LidInv
<1>3. FreshInv' /\ BroadcastInv' /\ StopInv'
  BY <1>1, <1>2 DEF ImplInv, FreshInv, BroadcastInv, ForAll, StopInv
<1>4. StreamOrder' /\ QueueOrder' /\ QueueFirst'
  BY <1>1 DEF ImplInv, StreamOrder, QueueOrder, QueueFirst
<1>5. CountInv'
  <2>1. Numbered' = Numbered \cup {c} /\ c \notin Numbered
    BY <1>1, <1>2 DEF Numbered
  <2>2. IsFiniteSet(Numbered) /\ Cardinality(Numbered) \in Nat
    <3>1. Numbered \subseteq Conns
      BY DEF Numbered
    <3>. QED
      BY <3>1, FiniteAssumption, FS_Subset, FS_CardinalityType
  <2>3. Cardinality(Numbered') = Cardinality(Numbered) + 1
    BY <2>1, <2>2, FS_AddElement
  <2>. QED
    BY <1>1, <1>2, <2>2, <2>3 DEF ImplInv, CountInv
<1>6. R!Join(c)
  <2>1. Broken' = Broken
    BY <1>1, <1>2 DEF Broken
  <2>. QED
    BY <1>1, <1>2, <2>1, DueSame, GotSame, WroteSame DEF R!Join
<1>. QED
  BY <1>3, <1>4, <1>5, <1>6 DEF Kept

\* A handler ends: its connection leaves the line.
LEMMA EndImplements ==
    ASSUME ImplInv, NEW c \in Conns, EndHandler(c)
    PROVE  Kept /\ R!Leave(c)
<1>1. /\ phase[c] = "open" /\ phase' = [phase EXCEPT ![c] = "gone"]
      /\ writers' = [writers EXCEPT ![at[c]] = @ \ {c}]
      /\ UNCHANGED <<stopping, sid, lid, at, sent, inbox, queue, out>>
  BY DEF EndHandler, jvars, rvars
<1>2. /\ phase \in [Conns -> {"fresh", "accepted", "open", "gone", "broken"}]
      /\ at[c] \in Lines /\ NoLine \notin Lines
  BY <1>1, ConnsAssumption DEF ImplInv, RoutingInv, TypeOK, AtInv
<1>3. FreshInv' /\ BroadcastInv' /\ StopInv'
  BY <1>1, <1>2 DEF ImplInv, FreshInv, BroadcastInv, ForAll, StopInv
<1>4. StreamOrder' /\ QueueOrder' /\ QueueFirst' /\ CountInv'
  BY <1>1 DEF ImplInv, StreamOrder, QueueOrder, QueueFirst, CountInv, Numbered
<1>5. R!Leave(c)
  <2>1. Broken' = Broken
    BY <1>1, <1>2 DEF Broken
  <2>. QED
    BY <1>1, <1>2, <2>1, DueSame, GotSame, WroteSame DEF R!Leave
<1>. QED
  BY <1>3, <1>4, <1>5 DEF Kept

\* A message goes from the stream to the queues: it stays due where it was.
LEMMA ReadImplements ==
    ASSUME ImplInv, NEW c \in Conns, ReadMessage(c)
    PROVE  Kept /\ UNCHANGED R!rvars
<1> DEFINE h == Head(inbox[c])
           p == [msg |-> h, from |-> at[c], src_line |-> lid[c]]
<1>1. /\ phase[c] = "open" /\ inbox[c] # <<>> /\ inbox' = [inbox EXCEPT ![c] = Tail(@)]
      /\ queue' = [t \in Lines |-> IF t \in Peers[at[c]] THEN Append(queue[t], p) ELSE queue[t]]
      /\ UNCHANGED <<stopping, sid, phase, at, lid, sent, writers, out>>
  BY DEF ReadMessage, jvars, cvars
<1>2. /\ inbox \in [Conns -> Seq(Message)] /\ queue \in [Lines -> Seq(Packet)]
      /\ lid \in [Conns -> Nat] /\ at[c] \in Lines
  BY <1>1 DEF ImplInv, RoutingInv, TypeOK, AtInv
<1>3. /\ h \in Message /\ h = inbox[c][1] /\ 1 \in DOMAIN inbox[c] /\ h.src = c
      /\ \A i \in DOMAIN inbox'[c] : i + 1 \in DOMAIN inbox[c] /\ inbox'[c][i] = inbox[c][i + 1]
      /\ \A i \in DOMAIN inbox[c] : i = 1 \/ (i - 1 \in DOMAIN inbox'[c] /\ inbox'[c][i - 1] = inbox[c][i])
      /\ \A i \in DOMAIN inbox'[c] : i \in Nat /\ i > 0
  <2>1. inbox[c] \in Seq(Message) /\ inbox'[c] = Tail(inbox[c])
    BY <1>1, <1>2
  <2>2. /\ h \in Message /\ h = inbox[c][1] /\ 1 \in DOMAIN inbox[c]
        /\ \A i \in DOMAIN inbox'[c] : i + 1 \in DOMAIN inbox[c] /\ inbox'[c][i] = inbox[c][i + 1]
    <3>1. \A q \in Seq(Message) : q # <<>> =>
              /\ Head(q) \in Message /\ Head(q) = q[1] /\ 1 \in DOMAIN q
              /\ \A i \in DOMAIN Tail(q) : i + 1 \in DOMAIN q /\ Tail(q)[i] = q[i + 1]
      BY TailFacts
    <3>2. \A q : q = inbox[c] =>
              /\ Head(q) \in Message /\ Head(q) = q[1] /\ 1 \in DOMAIN q
              /\ \A i \in DOMAIN Tail(q) : i + 1 \in DOMAIN q /\ Tail(q)[i] = q[i + 1]
      BY <1>1, <2>1, <3>1
    <3>. QED
      BY <2>1, <3>2
  <2>3. ASSUME NEW q \in Seq(Message), q # <<>>, NEW i \in DOMAIN q
        PROVE  i = 1 \/ (i - 1 \in DOMAIN Tail(q) /\ Tail(q)[i - 1] = q[i])
    BY <2>3
  <2>4. \A i \in DOMAIN inbox'[c] : i \in Nat /\ i > 0
    <3>1. inbox'[c] \in Seq(Message)
      BY <1>1, <2>1, TailFacts
    <3>. QED
      BY <3>1
  <2>5. h.src = c
    BY <2>2 DEF ImplInv, RoutingInv, InboxInv
  <2>. QED
    BY <1>1, <2>1, <2>2, <2>3, <2>4, <2>5
<1>4. p \in Packet /\ p.msg = h
  BY <1>2, <1>3 DEF Packet
<1> HIDE DEF h, p
<1>5. \A t \in Lines :
          /\ Len(queue[t]) \in Nat /\ DOMAIN queue[t] = 1..Len(queue[t])
          /\ \/ queue'[t] = queue[t] /\ t \notin Peers[at[c]]
             \/ /\ t \in Peers[at[c]]
                /\ DOMAIN queue'[t] = 1..Len(queue[t]) + 1
                /\ \A i \in DOMAIN queue'[t] :
                       queue'[t][i] = IF i = Len(queue[t]) + 1 THEN p ELSE queue[t][i]
  <2> SUFFICES ASSUME NEW t \in Lines
               PROVE  /\ Len(queue[t]) \in Nat /\ DOMAIN queue[t] = 1..Len(queue[t])
                      /\ \/ queue'[t] = queue[t] /\ t \notin Peers[at[c]]
                         \/ /\ t \in Peers[at[c]]
                            /\ DOMAIN queue'[t] = 1..Len(queue[t]) + 1
                            /\ \A i \in DOMAIN queue'[t] :
                                   queue'[t][i] = IF i = Len(queue[t]) + 1 THEN p ELSE queue[t][i]
    OBVIOUS
  <2>1. queue[t] \in Seq(Packet)
    BY <1>2
  <2>2. CASE t \in Peers[at[c]]
    <3>1. queue'[t] = Append(queue[t], p)
      BY <1>1, <2>2
    <3>2. /\ DOMAIN queue'[t] = 1..Len(queue[t]) + 1
          /\ \A i \in DOMAIN queue'[t] :
                 queue'[t][i] = IF i = Len(queue[t]) + 1 THEN p ELSE queue[t][i]
      BY <1>4, <2>1, <3>1, AppendFacts
    <3>. QED
      BY <2>1, <2>2, <3>2
  <2>3. CASE t \notin Peers[at[c]]
    BY <1>1, <2>1, <2>3
  <2>. QED
    BY <2>2, <2>3
<1>6. \A d \in Conns : d # c => inbox'[d] = inbox[d]
  BY <1>1, <1>2
<1>7. \A t \in Lines : \A i \in DOMAIN queue'[t] :
          \/ i \in DOMAIN queue[t] /\ queue'[t][i] = queue[t][i]
          \/ i = Len(queue[t]) + 1 /\ queue'[t][i] = p /\ t \in Peers[at[c]]
  BY <1>5
<1>8. FreshInv' /\ CountInv' /\ StopInv'
  BY <1>1, <1>6 DEF ImplInv, FreshInv, CountInv, Numbered, StopInv
<1>9. BroadcastInv'
  <2>1. \A d \in Conns : \A i \in DOMAIN inbox'[d] : ForAll(inbox'[d][i])
    BY <1>3, <1>6 DEF ImplInv, BroadcastInv
  <2>2. ForAll(p.msg)
    BY <1>3, <1>4 DEF ImplInv, BroadcastInv
  <2>3. \A t \in Lines : \A i \in DOMAIN queue'[t] : ForAll(queue'[t][i].msg)
    BY <1>7, <2>2 DEF ImplInv, BroadcastInv
  <2>. QED
    BY <2>1, <2>3 DEF BroadcastInv, ForAll
<1>10. StreamOrder'
  <2>1. ASSUME NEW d \in Conns, NEW i \in DOMAIN inbox'[d], NEW j \in DOMAIN inbox'[d]
        PROVE  inbox'[d][i].seq <= Len(sent[d]) /\ (i < j => inbox'[d][i].seq < inbox'[d][j].seq)
    <3>1. CASE d # c
      BY <1>6, <3>1 DEF ImplInv, StreamOrder
    <3>2. CASE d = c
      <4>1. i < j => i + 1 < j + 1
        BY <1>3, <3>2
      <4>. QED
        BY <1>3, <3>2, <4>1 DEF ImplInv, StreamOrder
    <3>. QED
      BY <3>1, <3>2
  <2>. QED
    BY <1>1, <2>1 DEF StreamOrder
<1>11. QueueOrder'
  <2> SUFFICES ASSUME NEW t \in Lines, NEW i \in DOMAIN queue'[t], NEW j \in DOMAIN queue'[t],
                      i < j, queue'[t][i].msg.src = queue'[t][j].msg.src
               PROVE  queue'[t][i].msg.seq < queue'[t][j].msg.seq
    BY DEF QueueOrder
  <2>1. i \in DOMAIN queue[t] /\ queue'[t][i] = queue[t][i]
    <3>1. Len(queue[t]) \in Nat /\ (j \in 1..Len(queue[t]) \/ j = Len(queue[t]) + 1)
      BY <1>5, <1>7
    <3>2. i # Len(queue[t]) + 1
      BY <3>1
    <3>. QED
      BY <1>7, <3>2
  <2>2. CASE j \in DOMAIN queue[t] /\ queue'[t][j] = queue[t][j]
    BY <2>1, <2>2 DEF ImplInv, QueueOrder
  <2>3. CASE queue'[t][j] = p
    <3>1. queue[t][i].msg.src = c
      BY <1>3, <1>4, <2>1, <2>3
    <3>2. queue[t][i].msg.seq < inbox[c][1].seq
      BY <1>3, <2>1, <3>1 DEF ImplInv, QueueFirst
    <3>. QED
      BY <1>3, <1>4, <2>1, <2>3, <3>2
  <2>. QED
    BY <1>7, <2>2, <2>3
<1>12. QueueFirst'
  <2> SUFFICES ASSUME NEW t \in Lines, NEW i \in DOMAIN queue'[t], NEW d \in Conns,
                      queue'[t][i].msg.src = d
               PROVE  /\ queue'[t][i].msg.seq <= Len(sent[d])
                      /\ \A j \in DOMAIN inbox'[d] : queue'[t][i].msg.seq < inbox'[d][j].seq
    BY <1>1, ZenonT(60) DEF QueueFirst
  <2>1. CASE i \in DOMAIN queue[t] /\ queue'[t][i] = queue[t][i]
    <3>1. /\ queue[t][i].msg.seq <= Len(sent[d])
          /\ \A j \in DOMAIN inbox[d] : queue[t][i].msg.seq < inbox[d][j].seq
      BY <2>1 DEF ImplInv, QueueFirst
    <3>. QED
      BY <1>3, <1>6, <2>1, <3>1
  <2>2. CASE queue'[t][i] = p
    <3>1. d = c /\ h.seq <= Len(sent[c])
      BY <1>3, <1>4, <2>2 DEF ImplInv, StreamOrder
    <3>2. \A j \in DOMAIN inbox'[c] : h.seq < inbox'[c][j].seq
      <4>1. \A j \in DOMAIN inbox'[c] : 1 < j + 1
        BY <1>3
      <4>. QED
        BY <1>3, <4>1 DEF ImplInv, StreamOrder
    <3>. QED
      BY <1>4, <2>2, <3>1, <3>2
  <2>. QED
    BY <1>7, <2>1, <2>2
<1>13. Due' = Due
  <2>1. ASSUME NEW x PROVE InStream(c, x) <=> InStream(c, x)' \/ x = Plain(h)
    BY <1>3 DEF InStream
  <2>2. ASSUME NEW x, NEW d \in Conns, d # c PROVE InStream(d, x)' <=> InStream(d, x)
    BY <1>6, <2>2 DEF InStream
  <2>3. ASSUME NEW x, NEW t \in Lines
        PROVE  InQueue(t, x)' <=> InQueue(t, x) \/ (t \in Peers[at[c]] /\ x = Plain(h))
    <3>1. CASE t \notin Peers[at[c]]
      BY <1>5, <3>1 DEF InQueue
    <3>2. CASE t \in Peers[at[c]]
      <4>1. /\ Len(queue[t]) + 1 \in DOMAIN queue'[t] /\ queue'[t][Len(queue[t]) + 1].msg = h
            /\ \A i \in DOMAIN queue[t] : i \in DOMAIN queue'[t] /\ queue'[t][i] = queue[t][i]
        BY <1>4, <1>5, <3>2
      <4>. QED
        BY <1>4, <1>7, <3>2, <4>1 DEF InQueue
    <3>. QED
      BY <3>1, <3>2
  <2>4. ASSUME NEW t \in Lines, NEW x PROVE x \in Due'[t] <=> x \in Due[t]
    <3>1. x \in Due[t] <=> \/ InQueue(t, x)
                           \/ \E d \in Conns : at[d] \in Lines /\ t \in Peers[at[d]] /\ InStream(d, x)
      BY DueMembers DEF DueIs
    <3>2. x \in Due'[t] <=> \/ InQueue(t, x)'
                            \/ \E d \in Conns : at[d] \in Lines /\ t \in Peers[at[d]] /\ InStream(d, x)'
      BY <1>1, DueMembers DEF DueIs
    <3>. QED
      BY <1>2, <2>1, <2>2, <2>3, <3>1, <3>2
  <2>5. \A t \in Lines : Due'[t] = Due[t]
    BY <2>4
  <2>. QED
    BY <2>5 DEF Due
<1>14. UNCHANGED R!rvars
  BY <1>1, <1>13, GotSame, WroteSame, BrokenSame DEF R!rvars
<1>. QED
  BY <1>8, <1>9, <1>10, <1>11, <1>12, <1>14 DEF Kept

\* Appending to what was written is appending to what was delivered.
LEMMA PlainAppend ==
    ASSUME NEW q \in Seq(Written), NEW v \in Written
    PROVE  [i \in DOMAIN Append(q, v) |-> Plain(Append(q, v)[i].msg)]
             = Append([i \in DOMAIN q |-> Plain(q[i].msg)], Plain(v.msg))
<1> DEFINE T == {Plain(x.msg) : x \in Written}
           g == [i \in DOMAIN q |-> Plain(q[i].msg)]
           h == Append(g, Plain(v.msg))
<1>1. /\ DOMAIN Append(q, v) = 1..Len(q) + 1 /\ DOMAIN q = 1..Len(q) /\ Len(q) \in Nat
      /\ \A i \in DOMAIN Append(q, v) : Append(q, v)[i] = IF i = Len(q) + 1 THEN v ELSE q[i]
  BY AppendFacts
<1>2. g \in Seq(T) /\ Len(g) = Len(q) /\ Plain(v.msg) \in T
  <2>1. \A i \in 1..Len(q) : q[i] \in Written
    BY <1>1
  <2>2. g \in [1..Len(q) -> T]
    BY <1>1, <2>1
  <2> HIDE DEF g, T
  <2>3. g \in Seq(T) /\ Len(g) = Len(q)
    BY <1>1, <2>2
  <2>. QED
    BY <2>3 DEF T
<1>3. \A i \in 1..Len(q) : g[i] = Plain(q[i].msg)
  BY <1>1
<1> HIDE DEF g, T
<1>4. /\ h \in Seq(T) /\ DOMAIN h = 1..Len(q) + 1
      /\ \A i \in DOMAIN h : h[i] = IF i = Len(q) + 1 THEN Plain(v.msg) ELSE g[i]
  BY <1>2, AppendFacts
<1>5. h = [i \in DOMAIN h |-> h[i]]
  BY <1>4
<1> HIDE DEF h
<1>6. \A i \in 1..Len(q) + 1 : h[i] = Plain(Append(q, v)[i].msg)
  BY <1>1, <1>3, <1>4
<1>7. h = [i \in DOMAIN Append(q, v) |-> Plain(Append(q, v)[i].msg)]
  BY <1>1, <1>4, <1>5, <1>6
<1>. QED
  BY <1>7 DEF h, g

\* There are as many ids as numbered connections, at most all of them.
LEMMA SidBounded == ASSUME ImplInv PROVE sid <= Cardinality(Conns) /\ sid \in Nat
<1>1. Numbered \subseteq Conns
  BY DEF Numbered
<1>2. /\ Cardinality(Numbered) <= Cardinality(Conns)
      /\ Cardinality(Numbered) \in Nat /\ Cardinality(Conns) \in Nat
  BY <1>1, FiniteAssumption, FS_Subset, FS_CardinalityType
<1>3. sid \in Nat /\ sid <= Cardinality(Numbered)
  BY DEF ImplInv, CountInv, RoutingInv, TypeOK
<1>. QED
  BY <1>2, <1>3

\* A message leaves the queue: it is the oldest of its sender that is due, and
\* the ids of the line single out whom it is for.
LEMMA DispatchImplements ==
    ASSUME ImplInv, NEW l \in Lines, Dispatch(l)
    PROVE  Kept /\ \E m \in Due[l] : R!Deliver(l, m)
<1> DEFINE p    == Head(queue[l])
           m    == Plain(p.msg)
           dst  == Addressees(l, p)
           o    == Outcome(l, p)
           dies == dst # {} /\ Lethal(l, p)
           w    == [msg |-> p.msg, class |-> o, sline |-> IF o = "proto" THEN p.src_line ELSE 0]
<1>1. /\ queue[l] # <<>> /\ queue' = [queue EXCEPT ![l] = Tail(@)]
      /\ out' = [c \in Conns |-> IF c \in dst /\ ~dies THEN Append(out[c], w) ELSE out[c]]
      /\ UNCHANGED <<stopping, sid, phase, at, lid, sent, inbox, writers>>
  BY DEF Dispatch, jvars, cvars, rvars
<1>2. /\ queue \in [Lines -> Seq(Packet)] /\ out \in [Conns -> Seq(Written)]
      /\ writers \in [Lines -> SUBSET Conns] /\ lid \in [Conns -> Nat]
  BY DEF ImplInv, RoutingInv, TypeOK
<1>3. /\ p \in Packet /\ p = queue[l][1] /\ 1 \in DOMAIN queue[l]
      /\ \A i \in DOMAIN queue'[l] : i + 1 \in DOMAIN queue[l] /\ queue'[l][i] = queue[l][i + 1]
      /\ \A i \in DOMAIN queue[l] : i = 1 \/ (i - 1 \in DOMAIN queue'[l] /\ queue'[l][i - 1] = queue[l][i])
      /\ \A i \in DOMAIN queue[l] : i \in Nat /\ i > 0
      /\ \A i \in DOMAIN queue'[l] : i \in Nat /\ i > 0
  <2>1. queue[l] \in Seq(Packet) /\ queue'[l] = Tail(queue[l])
    BY <1>1, <1>2
  <2>2. \A q \in Seq(Packet) : q # <<>> =>
            /\ Head(q) \in Packet /\ Head(q) = q[1] /\ 1 \in DOMAIN q
            /\ Tail(q) \in Seq(Packet)
            /\ \A i \in DOMAIN Tail(q) : i + 1 \in DOMAIN q /\ Tail(q)[i] = q[i + 1]
    BY TailFacts
  <2>3. ASSUME NEW q \in Seq(Packet), q # <<>>, NEW i \in DOMAIN q
        PROVE  i = 1 \/ (i - 1 \in DOMAIN Tail(q) /\ Tail(q)[i - 1] = q[i])
    BY <2>3
  <2>4. \A q \in Seq(Packet) : \A i \in DOMAIN q : i \in Nat /\ i > 0
    OBVIOUS
  <2>5. \A q, r : q \in Seq(Packet) /\ q # <<>> /\ r = Tail(q) =>
            /\ Head(q) \in Packet /\ Head(q) = q[1] /\ 1 \in DOMAIN q
            /\ \A i \in DOMAIN r : i + 1 \in DOMAIN q /\ r[i] = q[i + 1]
            /\ \A i \in DOMAIN q : i = 1 \/ (i - 1 \in DOMAIN r /\ r[i - 1] = q[i])
            /\ \A i \in DOMAIN q : i \in Nat /\ i > 0
            /\ \A i \in DOMAIN r : i \in Nat /\ i > 0
    BY <2>2, <2>3, <2>4
  <2>. QED
    BY <1>1, <2>1, <2>5
<1>4. /\ p.msg \in Message /\ p.from \in Lines /\ p.src_line \in Nat
      /\ p.src_line = lid[p.msg.src] /\ Addressed(p.msg) /\ ForAll(p.msg)
  <2>1. p.msg \in Message /\ p.from \in Lines /\ p.src_line \in Nat
    BY <1>3 DEF Packet
  <2>. QED
    BY <1>3, <2>1 DEF ImplInv, RoutingInv, QueueInv, BroadcastInv
<1>5. \A c \in dst : c \in Conns
  BY <1>2 DEF Addressees
\* Who is addressed is who the message is for.
<1>6. \A c \in Conns : c \in dst <=> c \in writers[l] /\ m.to \in {NoConn, c}
  <2> SUFFICES ASSUME NEW c \in Conns, c \in writers[l]
               PROVE  p.msg.dline \in {0, lid[c]} <=> p.msg.to \in {NoConn, c}
    BY <1>5 DEF Addressees, Plain
  <2>1. lid[c] > 0
    <3>1. phase[c] \in {"open", "broken"} /\ lid[c] \in Nat
      BY <1>2 DEF ImplInv, RoutingInv, WritersInv
    <3>. QED
      BY <3>1 DEF ImplInv, RoutingInv, LidInv
  <2>2. CASE p.msg.to = NoConn
    BY <1>4, <2>2 DEF ForAll
  <2>3. CASE p.msg.to # NoConn
    <3>1. p.msg.to \in Conns /\ p.msg.dline = lid[p.msg.to] /\ lid[p.msg.to] > 0
      BY <1>4, <2>3 DEF Addressed, Message
    <3>2. lid[p.msg.to] = lid[c] <=> p.msg.to = c
      BY <2>1, <3>1 DEF ImplInv, RoutingInv, LidInv
    <3>. QED
      BY <2>3, <3>1, <3>2, <1>2
  <2>. QED
    BY <2>2, <2>3
<1>7. CannotFail => ~dies
  <2> SUFFICES ASSUME CannotFail PROVE ~Lethal(l, p)
    OBVIOUS
  <2>1. o \in Classes
    BY <1>4 DEF CannotFail, NoFailingMorph, Outcome, Message
  <2>2. p.src_line <= sid
    BY <1>4 DEF ImplInv, RoutingInv, LidInv, Message
  <2>3. sid <= MaxSline
    BY SidBounded, FiniteAssumption, FS_CardinalityType, BoundAssumption DEF CannotFail
  <2>4. ~(p.src_line > MaxSline)
    BY <1>4, <2>2, <2>3, SidBounded, BoundAssumption
  <2>. QED
    BY <2>1, <2>4 DEF Lethal, Classes
<1>8. m \in Due[l]
  BY <1>3, DueMembers DEF DueIs, InQueue
<1>9. \A t \in Lines : t # l => queue'[t] = queue[t]
  BY <1>1, <1>2
\* All that is due of the same sender is younger.
<1>10. /\ \A i \in DOMAIN queue[l] : queue[l][i].msg.seq \in Nat
       /\ \A c \in Conns : \A j \in DOMAIN inbox[c] : inbox[c][j].seq \in Nat
       /\ p.msg.seq \in Nat /\ p.msg.src \in Conns
       /\ \A i \in DOMAIN queue[l] :
              i # 1 /\ queue[l][i].msg.src = p.msg.src => p.msg.seq < queue[l][i].msg.seq
       /\ \A c \in Conns : \A j \in DOMAIN inbox[c] :
              inbox[c][j].src = p.msg.src => p.msg.seq < inbox[c][j].seq
  <2>1. \A i \in DOMAIN queue[l] : queue[l][i].msg.seq \in Nat
    <3>1. \A i \in DOMAIN queue[l] : queue[l][i] \in Packet
      BY <1>2
    <3>. QED
      BY <3>1 DEF Packet, Message
  <2>2. \A c \in Conns : \A j \in DOMAIN inbox[c] : inbox[c][j].seq \in Nat /\ inbox[c][j].src = c
    <3>1. \A c \in Conns : \A j \in DOMAIN inbox[c] : inbox[c][j] \in Message
      BY DEF ImplInv, RoutingInv, TypeOK
    <3>. QED
      BY <3>1 DEF ImplInv, RoutingInv, InboxInv, Message
  <2>3. p.msg.seq \in Nat /\ p.msg.src \in Conns
    BY <1>4 DEF Message
  <2>4. \A i \in DOMAIN queue[l] :
            i # 1 /\ queue[l][i].msg.src = p.msg.src => p.msg.seq < queue[l][i].msg.seq
    <3>1. \A i \in DOMAIN queue[l] : i # 1 => 1 < i
      BY <1>3
    <3>. QED
      BY <1>3, <3>1 DEF ImplInv, QueueOrder
  <2>5. \A c \in Conns : \A j \in DOMAIN inbox[c] :
            inbox[c][j].src = p.msg.src => p.msg.seq < inbox[c][j].seq
    <3>1. \A c \in Conns : \A j \in DOMAIN inbox[c] :
              queue[l][1].msg.src = c => queue[l][1].msg.seq < inbox[c][j].seq
      BY <1>3 DEF ImplInv, QueueFirst
    <3>. QED
      BY <1>3, <2>2, <3>1
  <2>. QED
    BY <2>1, <2>2, <2>3, <2>4, <2>5
<1>11. R!Oldest(m, Due[l])
  <2> SUFFICES ASSUME NEW n \in Due[l], n.src = m.src PROVE n.seq >= m.seq
    BY DEF R!Oldest
  <2>1. m.src = p.msg.src /\ m.seq = p.msg.seq
    BY DEF Plain
  <2>2. CASE InQueue(l, n)
    <3>1. PICK i \in DOMAIN queue[l] : n = Plain(queue[l][i].msg)
      BY <2>2 DEF InQueue
    <3>2. n.src = queue[l][i].msg.src /\ n.seq = queue[l][i].msg.seq
      BY <3>1 DEF Plain
    <3>. QED
      BY <1>3, <1>10, <2>1, <3>2
  <2>3. ASSUME NEW c \in Conns, InStream(c, n) PROVE n.seq >= m.seq
    <3>1. PICK j \in DOMAIN inbox[c] : n = Plain(inbox[c][j])
      BY <2>3 DEF InStream
    <3>2. n.src = inbox[c][j].src /\ n.seq = inbox[c][j].seq
      BY <3>1 DEF Plain
    <3>. QED
      BY <1>10, <2>1, <3>2
  <2>. QED
    BY <2>2, <2>3, DueMembers DEF DueIs
<1>12. Due' = [Due EXCEPT ![l] = @ \ {m}]
  <2>1. ASSUME NEW x, NEW c \in Conns PROVE InStream(c, x)' <=> InStream(c, x)
    BY <1>1 DEF InStream
  <2>2. ASSUME NEW t \in Lines, t # l, NEW x PROVE InQueue(t, x)' <=> InQueue(t, x)
    BY <1>9, <2>2 DEF InQueue
  <2>3. ASSUME NEW c \in Conns PROVE ~InStream(c, m)
    <3> SUFFICES ASSUME NEW j \in DOMAIN inbox[c], m = Plain(inbox[c][j]) PROVE FALSE
      BY DEF InStream
    <3>1. p.msg.src = inbox[c][j].src /\ p.msg.seq = inbox[c][j].seq
      BY DEF Plain
    <3>. QED
      BY <1>10, <3>1
  <2>4. \A i \in DOMAIN queue[l] : m = Plain(queue[l][i].msg) => i = 1
    <3> SUFFICES ASSUME NEW i \in DOMAIN queue[l], i # 1, m = Plain(queue[l][i].msg) PROVE FALSE
      OBVIOUS
    <3>1. p.msg.src = queue[l][i].msg.src /\ p.msg.seq = queue[l][i].msg.seq
      BY DEF Plain
    <3>. QED
      BY <1>10, <3>1
  <2>5. ASSUME NEW x PROVE InQueue(l, x)' <=> InQueue(l, x) /\ x # m
    <3>1. ASSUME InQueue(l, x)' PROVE InQueue(l, x) /\ x # m
      <4>1. PICK i \in DOMAIN queue'[l] : x = Plain(queue'[l][i].msg)
        BY <3>1 DEF InQueue
      <4>2. i + 1 \in DOMAIN queue[l] /\ x = Plain(queue[l][i + 1].msg) /\ i + 1 # 1
        BY <1>3, <4>1
      <4>. QED
        BY <2>4, <4>2 DEF InQueue
    <3>2. ASSUME InQueue(l, x), x # m PROVE InQueue(l, x)'
      <4>1. PICK i \in DOMAIN queue[l] : x = Plain(queue[l][i].msg)
        BY <3>2 DEF InQueue
      <4>2. i # 1
        BY <1>3, <3>2, <4>1
      <4>3. i - 1 \in DOMAIN queue'[l] /\ x = Plain(queue'[l][i - 1].msg)
        BY <1>3, <4>1, <4>2
      <4>. QED
        BY <4>3 DEF InQueue
    <3>. QED
      BY <3>1, <3>2
  <2> HIDE DEF m
  <2>6. ASSUME NEW t \in Lines, NEW x
        PROVE  x \in Due'[t] <=> x \in Due[t] /\ (t = l => x # m)
    <3>1. x \in Due[t] <=> \/ InQueue(t, x)
                           \/ \E d \in Conns : at[d] \in Lines /\ t \in Peers[at[d]] /\ InStream(d, x)
      BY DueMembers DEF DueIs
    <3>2. x \in Due'[t] <=> \/ InQueue(t, x)'
                            \/ \E d \in Conns : at[d] \in Lines /\ t \in Peers[at[d]] /\ InStream(d, x)
      BY <1>1, <2>1, DueMembers DEF DueIs
    <3>3. CASE t = l
      BY <2>3, <2>5, <3>1, <3>2, <3>3
    <3>4. CASE t # l
      BY <2>2, <3>1, <3>2, <3>4
    <3>. QED
      BY <3>3, <3>4
  <2>7. \A t \in Lines : Due'[t] = IF t = l THEN Due[t] \ {m} ELSE Due[t]
    BY <2>6
  <2>. QED
    BY <2>7 DEF Due
<1>13. \/ Got' = [c \in Conns |-> IF c \in writers[l] /\ m.to \in {NoConn, c}
                                  THEN Append(Got[c], m) ELSE Got[c]]
       \/ ~CannotFail /\ UNCHANGED Got
  <2>1. CASE dies
    <3>1. out' = [c \in Conns |-> out[c]]
      BY <1>1, <2>1
    <3>2. out' = out
      BY <1>2, <3>1
    <3>. QED
      BY <1>7, <2>1, <3>2, GotSame
  <2>2. CASE ~dies
    <3>1. ASSUME NEW c \in Conns
          PROVE  Got'[c] = IF c \in writers[l] /\ m.to \in {NoConn, c}
                           THEN Append(Got[c], m) ELSE Got[c]
      <4>1. /\ Got[c] = [i \in DOMAIN out[c] |-> Plain(out[c][i].msg)]
            /\ Got'[c] = [i \in DOMAIN out'[c] |-> Plain(out'[c][i].msg)]
        BY DEF Got
      <4>2. CASE c \in dst
        <5>1. out'[c] = Append(out[c], w) /\ out[c] \in Seq(Written) /\ w.msg = p.msg
          BY <1>1, <1>2, <2>2, <4>2
        <5>2. w \in Written
          <6>1. ~Lethal(l, p) /\ o \in Outcomes
            BY <1>4, <2>2, <4>2, MorphAssumption DEF Outcome, Message
          <6>. QED
            BY <1>4, <6>1 DEF Lethal, Written, Outcomes
        <5> HIDE DEF w, p, dst, dies, o
        <5>3. [i \in DOMAIN Append(out[c], w) |-> Plain(Append(out[c], w)[i].msg)]
                = Append([i \in DOMAIN out[c] |-> Plain(out[c][i].msg)], Plain(w.msg))
          BY <5>1, <5>2, PlainAppend
        <5>4. Got'[c] = Append(Got[c], m)
          BY <4>1, <5>1, <5>3 DEF m
        <5>. QED
          BY <1>6, <4>2, <5>4
      <4>3. CASE c \notin dst
        <5>1. out'[c] = out[c]
          BY <1>1, <4>3
        <5>. QED
          BY <1>6, <4>1, <4>3, <5>1
      <4>. QED
        BY <4>2, <4>3
    <3>. QED
      BY <3>1 DEF Got
  <2>. QED
    BY <2>1, <2>2
<1>14. R!Deliver(l, m)
  BY <1>1, <1>11, <1>12, <1>13, WroteSame, BrokenSame DEF R!Deliver
<1> HIDE DEF p, m, dst, o, dies, w
<1>15. FreshInv' /\ StreamOrder' /\ CountInv' /\ StopInv'
  BY <1>1 DEF ImplInv, FreshInv, StreamOrder, CountInv, Numbered, StopInv
<1>16. \A t \in Lines : \A i \in DOMAIN queue'[t] : \E j \in DOMAIN queue[t] : queue'[t][i] = queue[t][j]
  BY <1>3, <1>9
<1>17. BroadcastInv'
  BY <1>1, <1>16 DEF ImplInv, BroadcastInv, ForAll
<1>18. QueueFirst'
  <2> SUFFICES ASSUME NEW t \in Lines, NEW i \in DOMAIN queue'[t], NEW c \in Conns,
                      queue'[t][i].msg.src = c
               PROVE  /\ queue'[t][i].msg.seq <= Len(sent[c])
                      /\ \A j \in DOMAIN inbox[c] : queue'[t][i].msg.seq < inbox[c][j].seq
    BY <1>1 DEF QueueFirst
  <2>1. PICK k \in DOMAIN queue[t] : queue'[t][i] = queue[t][k]
    BY <1>16
  <2>2. /\ queue[t][k].msg.seq <= Len(sent[c])
        /\ \A j \in DOMAIN inbox[c] : queue[t][k].msg.seq < inbox[c][j].seq
    BY <2>1 DEF ImplInv, QueueFirst
  <2>. QED
    BY <2>1, <2>2
<1>19. QueueOrder'
  <2> SUFFICES ASSUME NEW t \in Lines, NEW i \in DOMAIN queue'[t], NEW j \in DOMAIN queue'[t],
                      i < j, queue'[t][i].msg.src = queue'[t][j].msg.src
               PROVE  queue'[t][i].msg.seq < queue'[t][j].msg.seq
    BY DEF QueueOrder
  <2>1. CASE t # l
    BY <1>9, <2>1 DEF ImplInv, QueueOrder
  <2>2. CASE t = l
    <3>1. i + 1 < j + 1
      BY <1>3, <2>2
    <3>. QED
      BY <1>3, <2>2, <3>1 DEF ImplInv, QueueOrder
  <2>. QED
    BY <2>1, <2>2
<1>. QED
  BY <1>8, <1>14, <1>15, <1>17, <1>18, <1>19 DEF Kept

\* Of some streams the end is lost: what is left is in order and was due.
LEMMA CutImplements ==
    ASSUME ImplInv, UNCHANGED <<at, lid, sent, queue>>,
           \A c \in Conns :
               /\ \A i \in DOMAIN inbox'[c] : i \in DOMAIN inbox[c] /\ inbox'[c][i] = inbox[c][i]
               /\ \A i \in DOMAIN inbox'[c], j \in DOMAIN inbox[c] : j < i => j \in DOMAIN inbox'[c]
    PROVE  BroadcastInv' /\ StreamOrder' /\ QueueOrder' /\ QueueFirst' /\ R!Cut
<1>0. UNCHANGED <<at, lid, sent, queue>>
  OBVIOUS
<1>1. \A c \in Conns :
          /\ \A i \in DOMAIN inbox'[c] : i \in DOMAIN inbox[c] /\ inbox'[c][i] = inbox[c][i]
          /\ \A i \in DOMAIN inbox'[c], j \in DOMAIN inbox[c] : j < i => j \in DOMAIN inbox'[c]
          /\ \A i \in DOMAIN inbox[c] : i \in Nat
  <2>1. \A c \in Conns : \A i \in DOMAIN inbox[c] : i \in Nat
    BY DEF ImplInv, RoutingInv, TypeOK
  <2>. QED
    BY <2>1
<1>2. BroadcastInv'
  BY <1>0, <1>1 DEF ImplInv, BroadcastInv, ForAll
<1>3. StreamOrder'
  BY <1>0, <1>1 DEF ImplInv, StreamOrder
<1>4. QueueOrder'
  BY <1>0 DEF ImplInv, QueueOrder
<1>5. QueueFirst'
  <2> SUFFICES ASSUME NEW t \in Lines, NEW i \in DOMAIN queue[t], NEW c \in Conns,
                      queue[t][i].msg.src = c
               PROVE  /\ queue[t][i].msg.seq <= Len(sent[c])
                      /\ \A j \in DOMAIN inbox'[c] : queue[t][i].msg.seq < inbox'[c][j].seq
    BY <1>0 DEF QueueFirst
  <2>1. /\ queue[t][i].msg.seq <= Len(sent[c])
        /\ \A j \in DOMAIN inbox[c] : queue[t][i].msg.seq < inbox[c][j].seq
    BY DEF ImplInv, QueueFirst
  <2>. QED
    BY <1>1, <2>1
<1>6. ASSUME NEW t \in Lines PROVE Due'[t] \subseteq Due[t]
  <2> SUFFICES ASSUME NEW x \in Due'[t] PROVE x \in Due[t]
    OBVIOUS
  <2>1. CASE InQueue(t, x)'
    BY <1>0, <2>1, DueMembers DEF DueIs, InQueue
  <2>2. ASSUME NEW c \in Conns, at[c] \in Lines, t \in Peers[at[c]], InStream(c, x)'
        PROVE  x \in Due[t]
    <3>1. InStream(c, x)
      BY <1>1, <2>2 DEF InStream
    <3>. QED
      BY <2>2, <3>1, DueMembers DEF DueIs
  <2>. QED
    BY <1>0, <2>1, <2>2, DueMembers DEF DueIs
<1>7. ASSUME NEW t \in Lines, NEW m \in Due'[t], NEW n \in Due[t], n.src = m.src, n.seq < m.seq
       PROVE  n \in Due'[t]
  <2>1. CASE InQueue(t, n)
    <3>1. InQueue(t, n)'
      BY <1>0, <2>1 DEF InQueue
    <3>. QED
      BY <3>1, DueMembers DEF DueIs
  <2>2. ASSUME NEW c \in Conns, at[c] \in Lines, t \in Peers[at[c]], InStream(c, n)
        PROVE  n \in Due'[t]
    <3>1. PICK j \in DOMAIN inbox[c] : n = Plain(inbox[c][j])
      BY <2>2 DEF InStream
    <3>2. n.src = c /\ n.seq = inbox[c][j].seq /\ inbox[c][j].seq \in Nat
      <4>1. inbox[c][j] \in Message /\ inbox[c][j].src = c
        BY DEF ImplInv, RoutingInv, TypeOK, InboxInv
      <4>. QED
        BY <3>1, <4>1 DEF Plain, Message
    <3>3. CASE InQueue(t, m)'
      <4>1. PICK i \in DOMAIN queue[t] : m = Plain(queue[t][i].msg)
        BY <1>0, <3>3 DEF InQueue
      <4>2. m.src = queue[t][i].msg.src /\ m.seq = queue[t][i].msg.seq
        BY <4>1 DEF Plain
      <4>3. m.seq < n.seq
        BY <1>7, <3>2, <4>2 DEF ImplInv, QueueFirst
      <4>4. m.seq \in Nat
        <5>1. queue[t][i] \in Packet
          BY DEF ImplInv, RoutingInv, TypeOK
        <5>. QED
          BY <4>2, <5>1 DEF Packet, Message
      <4>. QED
        BY <1>7, <3>2, <4>3, <4>4
    <3>4. ASSUME NEW d \in Conns, InStream(d, m)' PROVE n \in Due'[t]
      <4>1. PICK i \in DOMAIN inbox'[d] : m = Plain(inbox'[d][i])
        BY <3>4 DEF InStream
      <4>2. i \in DOMAIN inbox[d] /\ inbox'[d][i] = inbox[d][i]
        BY <1>1
      <4>3. m.src = d /\ m.seq = inbox[d][i].seq /\ inbox[d][i].seq \in Nat
        <5>1. inbox[d][i] \in Message /\ inbox[d][i].src = d
          BY <4>2, SMTT(30) DEF ImplInv, RoutingInv, TypeOK, InboxInv
        <5>. QED
          BY <4>1, <4>2, <5>1 DEF Plain, Message
      <4>4. d = c
        BY <1>7, <3>2, <4>3
      <4>5. j < i
        <5>1. ~(i < j) /\ i # j
          BY <1>7, <3>2, <4>2, <4>3, <4>4 DEF ImplInv, StreamOrder
        <5>. QED
          BY <1>1, <4>2, <4>4, <5>1
      <4>6. j \in DOMAIN inbox'[c] /\ inbox'[c][j] = inbox[c][j]
        BY <1>1, <4>4, <4>5
      <4>7. InStream(c, n)'
        BY <3>1, <4>6 DEF InStream
      <4>. QED
        BY <1>0, <2>2, <4>7, DueMembers DEF DueIs
    <3>. QED
      BY <3>3, <3>4, DueMembers DEF DueIs
  <2>. QED
    BY <2>1, <2>2, DueMembers DEF DueIs
<1>8. R!Cut
  <2>1. Due' \in [Lines -> SUBSET UNION {Due[t] : t \in Lines}]
    <3>1. \A t \in Lines : Due'[t] \subseteq UNION {Due[u] : u \in Lines}
      BY <1>6
    <3>. QED
      BY <3>1 DEF Due
  <2>. QED
    BY <1>6, <1>7, <2>1 DEF R!Cut
<1>. QED
  BY <1>2, <1>3, <1>4, <1>5, <1>8

\* A line is closed: of each of its connections the end of what was unread is
\* lost.
LEMMA DetachImplements ==
    ASSUME ImplInv, NEW l \in Lines, DetachTcp(l)
    PROVE  Kept /\ R!Lose
<1>1. /\ stopping
      /\ UNCHANGED <<stopping, sid, phase, at, lid, sent, writers, queue, out>>
  BY DEF DetachTcp, cvars
<1>2. PICK kept \in [writers[l] -> 0..MaxSends] :
          /\ \A c \in writers[l] : kept[c] \in 0..Len(inbox[c])
          /\ inbox' = [c \in Conns |-> IF c \in writers[l]
                                         THEN SubSeq(inbox[c], 1, kept[c]) ELSE inbox[c]]
  BY DEF DetachTcp, CloseWriters
\* What is left of a stream is the beginning of it.
<1>3. \A c \in Conns : /\ \A i \in DOMAIN inbox'[c] : i \in DOMAIN inbox[c] /\ inbox'[c][i] = inbox[c][i]
                       /\ \A i \in DOMAIN inbox'[c], j \in DOMAIN inbox[c] : j < i => j \in DOMAIN inbox'[c]
                       /\ \A i \in DOMAIN inbox[c] : i \in Nat
                       /\ inbox[c] = <<>> => inbox'[c] = <<>>
  <2> SUFFICES ASSUME NEW c \in Conns
               PROVE  /\ \A i \in DOMAIN inbox'[c] : i \in DOMAIN inbox[c] /\ inbox'[c][i] = inbox[c][i]
                      /\ \A i \in DOMAIN inbox'[c], j \in DOMAIN inbox[c] : j < i => j \in DOMAIN inbox'[c]
                      /\ \A i \in DOMAIN inbox[c] : i \in Nat
                      /\ inbox[c] = <<>> => inbox'[c] = <<>>
    OBVIOUS
  <2>1. inbox[c] \in Seq(Message)
    BY DEF ImplInv, RoutingInv, TypeOK
  <2>2. CASE c \in writers[l]
    <3>1. kept[c] \in 0..Len(inbox[c]) /\ inbox'[c] = SubSeq(inbox[c], 1, kept[c])
      BY <1>2, <2>2
    <3>2. ASSUME NEW q \in Seq(Message), NEW k \in 0..Len(q), NEW r, r = SubSeq(q, 1, k)
          PROVE  /\ \A i \in DOMAIN r : i \in DOMAIN q /\ r[i] = q[i]
                 /\ \A i \in DOMAIN r, j \in DOMAIN q : j < i => j \in DOMAIN r
                 /\ \A i \in DOMAIN q : i \in Nat
                 /\ q = <<>> => r = <<>>
      BY <3>2
    <3>. QED
      BY <2>1, <3>1, <3>2
  <2>3. CASE c \notin writers[l]
    <3>1. inbox'[c] = inbox[c]
      BY <1>2, <2>3
    <3>. QED
      BY <2>1, <3>1
  <2>. QED
    BY <2>2, <2>3
<1>4. FreshInv' /\ CountInv' /\ StopInv'
  BY <1>1, <1>3 DEF ImplInv, FreshInv, CountInv, Numbered, StopInv
<1>5. BroadcastInv' /\ StreamOrder' /\ QueueOrder' /\ QueueFirst' /\ R!Cut
  BY <1>1, <1>3, CutImplements
<1>6. R!Lose
  <2>1. MayShutdown
    BY <1>1 DEF ImplInv, StopInv
  <2>2. UNCHANGED <<at, writers, Wrote, Got, Broken>>
    BY <1>1, GotSame, WroteSame, BrokenSame
  <2>. QED
    BY <1>5, <2>1, <2>2 DEF R!Lose
<1>. QED
  BY <1>4, <1>5, <1>6 DEF Kept

\* A connection is reset: nothing that it wrote is unread any more.
LEMMA ResetImplements ==
    ASSUME ImplInv, NEW c \in Conns, Reset(c)
    PROVE  Kept /\ R!Break(c)
<1>1. /\ phase[c] = "open" /\ inbox' = [inbox EXCEPT ![c] = <<>>]
      /\ phase' = [phase EXCEPT ![c] = "broken"]
      /\ UNCHANGED <<stopping, sid, at, lid, sent, writers, queue, out>>
  BY DEF Reset, jvars
<1>2. /\ phase \in [Conns -> {"fresh", "accepted", "open", "gone", "broken"}]
      /\ inbox \in [Conns -> Seq(Message)] /\ at[c] \in Lines /\ NoLine \notin Lines
  BY <1>1, ConnsAssumption DEF ImplInv, RoutingInv, TypeOK, AtInv
<1>3. inbox'[c] = <<>> /\ \A d \in Conns : d # c => inbox'[d] = inbox[d]
  BY <1>1, <1>2
<1>4. \A d \in Conns :
          /\ \A i \in DOMAIN inbox'[d] : i \in DOMAIN inbox[d] /\ inbox'[d][i] = inbox[d][i]
          /\ \A i \in DOMAIN inbox'[d], j \in DOMAIN inbox[d] : j < i => j \in DOMAIN inbox'[d]
  <2> SUFFICES ASSUME NEW d \in Conns
               PROVE  /\ \A i \in DOMAIN inbox'[d] : i \in DOMAIN inbox[d] /\ inbox'[d][i] = inbox[d][i]
                      /\ \A i \in DOMAIN inbox'[d], j \in DOMAIN inbox[d] : j < i => j \in DOMAIN inbox'[d]
    OBVIOUS
  <2>1. CASE d = c
    BY <1>3, <2>1
  <2>2. CASE d # c
    BY <1>3, <2>2
  <2>. QED
    BY <2>1, <2>2
<1>5. BroadcastInv' /\ StreamOrder' /\ QueueOrder' /\ QueueFirst' /\ R!Cut
  BY <1>1, <1>4, CutImplements
<1>6. FreshInv' /\ CountInv' /\ StopInv'
  BY <1>1, <1>2, <1>3 DEF ImplInv, FreshInv, CountInv, Numbered, StopInv
<1>7. c \notin Broken /\ Broken' = Broken \cup {c}
  BY <1>1, <1>2 DEF Broken
<1>8. ASSUME NEW l \in Lines, NEW m \in Due[l], m.src # c PROVE m \in Due'[l]
  <2>1. CASE InQueue(l, m)
    <3>1. InQueue(l, m)'
      BY <1>1, <2>1 DEF InQueue
    <3>. QED
      BY <3>1, DueMembers DEF DueIs
  <2>2. ASSUME NEW d \in Conns, at[d] \in Lines, l \in Peers[at[d]], InStream(d, m)
        PROVE  m \in Due'[l]
    <3>1. d # c
      BY <1>8, <2>2 DEF InStream, Plain, ImplInv, RoutingInv, InboxInv
    <3>2. InStream(d, m)'
      BY <1>3, <2>2, <3>1 DEF InStream
    <3>. QED
      BY <1>1, <2>2, <3>2, DueMembers DEF DueIs
  <2>. QED
    BY <2>1, <2>2, DueMembers DEF DueIs
<1>9. R!Break(c)
  <2>1. UNCHANGED <<at, writers, Wrote, Got>>
    BY <1>1, GotSame, WroteSame
  <2>. QED
    BY <1>2, <1>5, <1>7, <1>8, <2>1 DEF R!Break
<1>. QED
  BY <1>5, <1>6, <1>9 DEF Kept

-----------------------------------------------------------------------------
(* The theorem                                                             *)

LEMMA ImplInit == Init => ImplInv /\ R!Init
<1> SUFFICES ASSUME Init PROVE ImplInv /\ R!Init
  OBVIOUS
<1>1. FreshInv /\ BroadcastInv /\ StreamOrder /\ QueueOrder /\ QueueFirst /\ StopInv
  BY DEF Init, FreshInv, BroadcastInv, StreamOrder, QueueOrder, QueueFirst, StopInv
<1>2. CountInv
  <2>1. Numbered = {}
    BY DEF Init, Numbered
  <2>2. Cardinality(Numbered) = 0
    BY <2>1, FS_EmptySet
  <2>. QED
    BY <2>2 DEF Init, CountInv
<1>3. ImplInv
  BY <1>1, <1>2, RoutingInit DEF ImplInv
<1>4. /\ Wrote = [c \in Conns |-> 0] /\ Due = [l \in Lines |-> {}]
      /\ Got = [c \in Conns |-> <<>>]
  <2>1. Wrote = [c \in Conns |-> 0]
    BY DEF Init, Wrote
  <2>2. Due = [l \in Lines |-> {}]
    <3>1. \A l \in Lines : \A x : x \notin Due[l]
      BY DueMembers DEF Init, DueIs, InQueue, InStream
    <3>2. \A l \in Lines : Due[l] = {}
      BY <3>1
    <3>. QED
      BY <3>2 DEF Due
  <2>3. Got = [c \in Conns |-> <<>>]
    <3>1. ASSUME NEW c \in Conns PROVE Got[c] = <<>>
      BY DEF Init, Got
    <3>. QED
      BY <3>1 DEF Got
  <2>. QED
    BY <2>1, <2>2, <2>3
<1>5. R!Init
  <2>1. Broken = {}
    BY DEF Init, Broken
  <2>. QED
    BY <1>4, <2>1 DEF Init, R!Init
<1>. QED
  BY <1>3, <1>5

LEMMA ImplStep == ImplInv /\ [Next]_vars => ImplInv' /\ [R!Next]_R!rvars
<1> SUFFICES ASSUME ImplInv, [Next]_vars PROVE ImplInv' /\ [R!Next]_R!rvars
  OBVIOUS
<1>1. RoutingInv'
  BY RoutingStep DEF ImplInv
<1>2. Kept /\ [R!Next]_R!rvars
  <2>1. CASE UNCHANGED vars
    BY <2>1, QuietImplements DEF vars, core, jvars, ImplInv, StopInv
  <2>2. CASE JunctionInit \/ Shutdown
    BY <2>2, QuietImplements DEF JunctionInit, Shutdown, core, ImplInv, StopInv
  <2>3. ASSUME NEW l \in Lines, Open(l) PROVE Kept /\ [R!Next]_R!rvars
    <3>1. UNCHANGED core /\ stopping' = stopping
      BY <2>3 DEF core, jvars, Open, OpenServer, OpenSerial, OpenFails, DialFails, SerialComplains
    <3>. QED
      BY <3>1, QuietImplements DEF ImplInv, StopInv
  <2>4. ASSUME NEW l \in Lines, Dispatch(l) PROVE Kept /\ [R!Next]_R!rvars
    BY <2>4, DispatchImplements DEF R!Next
  <2>5. ASSUME NEW l \in Lines, Detach(l) PROVE Kept /\ [R!Next]_R!rvars
    <3>1. CASE DetachTcp(l)
      BY <3>1, DetachImplements DEF R!Next
    <3>2. CASE DetachSerial(l) \/ DetachSerialFails(l)
      <4>1. UNCHANGED core /\ (stopping' => stopping)
        BY <3>2 DEF core, DetachSerial, DetachSerialFails
      <4>. QED
        BY <4>1, QuietImplements DEF ImplInv, StopInv
    <3>. QED
      BY <2>5, <3>1, <3>2 DEF Detach
  <2>6. ASSUME NEW c \in Conns, Attach(c) PROVE Kept /\ [R!Next]_R!rvars
    BY <2>6, AttachImplements DEF Attach, R!Next
  <2>7. ASSUME NEW c \in Conns, Remote(c) PROVE Kept /\ [R!Next]_R!rvars
    <3>1. CASE RemoteClose(c)
      BY <3>1, CloseImplements
    <3>2. CASE Send(c)
      <4>1. PICK class \in Classes : Write(c, class, 0, NoConn)
        BY <3>2 DEF Send
      <4>2. Kept /\ R!Write(c, NoConn)
        BY <4>1, WriteImplements
      <4>. QED
        BY <4>2 DEF R!Next
    <3>3. CASE Respond(c)
      <4>1. PICK i \in DOMAIN out[c] : Write(c, "proto", out[c][i].sline, out[c][i].msg.src)
        BY <3>3 DEF Respond
      <4>2. out[c][i].sline \in Nat /\ out[c][i].msg.src \in Conns /\ "proto" \in Classes
        <5>1. out[c][i] \in Written
          BY DEF ImplInv, RoutingInv, TypeOK
        <5>. QED
          BY <5>1 DEF Written, Message, Classes
      <4>3. Kept /\ R!Write(c, out[c][i].msg.src)
        BY <4>1, <4>2, WriteImplements, ConnsAssumption
      <4>. QED
        BY <4>2, <4>3 DEF R!Next
    <3>4. CASE Reset(c)
      BY <3>4, ResetImplements DEF R!Next
    <3>. QED
      BY <2>7, <3>1, <3>2, <3>3, <3>4 DEF Remote
  <2>8. ASSUME NEW c \in Conns, Handler(c) PROVE Kept /\ [R!Next]_R!rvars
    BY <2>8, StartImplements, ReadImplements, EndImplements DEF Handler, R!Next
  <2>. QED
    BY <2>1, <2>2, <2>3, <2>4, <2>5, <2>6, <2>7, <2>8 DEF Next
<1>. QED
  BY <1>1, <1>2 DEF Kept, ImplInv

(* Whatever runs between two awaits of the junction, with its line ids,    *)
(* queues, callbacks and dispatch tasks, is a step of the router or leaves *)
(* its state alone; a dispatch task that ends on a packet it cannot write  *)
(* loses that one message, and never while no callback fails and there are *)
(* no more connections than line ids (Line.line_handler,                   *)
(* Line.deliver_to_peers, Line.dispatch, Packet.packet, Junction.detach).  *)
THEOREM JunctionImplementsRouter == Spec => RouterSpec
<1>1. Spec => []ImplInv
  BY ImplInit, ImplStep, PTL DEF Spec
<1>2. Spec => R!Init /\ [][R!Next]_R!rvars
  BY <1>1, ImplInit, ImplStep, PTL DEF Spec
<1>. QED
  BY <1>2 DEF RouterSpec, R!Spec

(* What the router promises, whatever its endpoints do                     *)

\* What is written, for whom, without its bytes.
Sent == [src : Conns, seq : Nat, to : Conns \cup {NoConn}]

RTyped ==
    /\ at \in [Conns -> Lines \cup {NoLine}]
    /\ writers \in [Lines -> SUBSET Conns]
    /\ Wrote \in [Conns -> Nat]
    /\ Due \in [Lines -> SUBSET Sent]
    /\ Got \in [Conns -> Seq(Sent)]

(* What an endpoint gets of one sender gets there in the order in which it *)
(* was written, and once (junction.py Line.dispatch, deliver_to_peers).    *)
InOrder == \A c \in Conns : \A i, j \in DOMAIN Got[c] :
               i < j /\ Got[c][i].src = Got[c][j].src => Got[c][i].seq < Got[c][j].seq

(* A response gets to the endpoint it answers only (DLINE in dispatch).    *)
ForReceiver == \A c \in Conns : \A i \in DOMAIN Got[c] : Got[c][i].to \in {NoConn, c}

\* The members of a line are its endpoints.
AtHome == \A l \in Lines : \A c \in writers[l] : at[c] = l /\ l # NoLine

\* What is due was written, and sender and number tell the messages of a line apart.
Pending == \A l \in Lines : \A m \in Due[l] :
              /\ m.seq <= Wrote[m.src]
              /\ \A n \in Due[l] : m.src = n.src /\ m.seq = n.seq => m = n

\* What was delivered was written, and before all that is still due on that line.
Past == \A c \in Conns : \A i \in DOMAIN Got[c] :
              /\ at[c] # NoLine /\ Got[c][i].seq <= Wrote[Got[c][i].src]
              /\ \A l \in Lines : at[c] = l => \A n \in Due[l] :
                     n.src = Got[c][i].src => Got[c][i].seq < n.seq

RInv == RTyped /\ InOrder /\ ForReceiver /\ AtHome /\ Pending /\ Past

-----------------------------------------------------------------------------
LEMMA InitRInv == R!Init => RInv
BY DEF R!Init, RInv, RTyped, InOrder, ForReceiver, AtHome, Pending, Past

\* Joining and leaving.
LEMMA MembersRInv ==
    ASSUME RInv, NEW c \in Conns, (\E l \in Lines : R!Arrive(c, l)) \/ R!Join(c) \/ R!Leave(c)
    PROVE  RInv'
<1> USE DEF RInv
<1>1. ASSUME NEW l \in Lines, R!Arrive(c, l)  PROVE RInv'
  <2>1. RTyped'  BY <1>1 DEF R!Arrive, RTyped
  <2>2. InOrder' /\ ForReceiver' /\ Pending'  BY <1>1 DEF R!Arrive, InOrder, ForReceiver, Pending
  <2>3. AtHome'  BY <1>1 DEF R!Arrive, RTyped, AtHome
  <2>4. Past'  BY <1>1 DEF R!Arrive, RTyped, Past
  <2> QED  BY <2>1, <2>2, <2>3, <2>4
<1>2. ASSUME R!Join(c) \/ R!Leave(c)  PROVE RInv'
  <2>0. UNCHANGED <<at, Wrote, Due, Got>>  BY <1>2 DEF R!Join, R!Leave
  <2>7. writers' \in [Lines -> SUBSET Conns]
    <3>1. CASE R!Join(c)  BY <3>1 DEF R!Join, RTyped
    <3>2. CASE R!Leave(c)  BY <3>2 DEF R!Leave, RTyped
    <3> QED  BY <1>2, <3>1, <3>2
  <2>1. RTyped'  BY <2>0, <2>7 DEF RTyped
  <2>2. InOrder' /\ ForReceiver'  BY <2>0 DEF InOrder, ForReceiver
  <2>5. Pending'  BY <2>0 DEF Pending
  <2>6. \A l \in Lines : \A d \in writers'[l] :
           d \in writers[l] \/ (d = c /\ l = at[c] /\ l # NoLine)
    <3>1. CASE R!Join(c)  BY <3>1 DEF R!Join, RTyped
    <3>2. CASE R!Leave(c)  BY <3>2 DEF R!Leave, RTyped
    <3> QED  BY <1>2, <3>1, <3>2
  <2>3. AtHome'  BY <2>0, <2>6 DEF AtHome
  <2>4. Past'  BY <2>0 DEF Past
  <2> QED  BY <2>1, <2>2, <2>3, <2>4, <2>5
<1> QED  BY <1>1, <1>2

\* The next message of a sender is behind all of its messages.
LEMMA WriteRInv ==
    ASSUME RInv, NEW c \in Conns, NEW to \in Conns \cup {NoConn}, R!Write(c, to)
    PROVE  RInv'
<1> USE DEF RInv
<1> DEFINE m == [src |-> c, seq |-> Wrote[c] + 1, to |-> to]
<1>1. m \in Sent /\ m.src = c /\ m.seq = Wrote[c] + 1  BY DEF RTyped, Sent
<1>2. /\ Wrote' = [Wrote EXCEPT ![c] = @ + 1] /\ UNCHANGED <<at, writers, Got>>
      /\ Due' = [l \in Lines |-> IF l \in Peers[at[c]] THEN Due[l] \cup {m} ELSE Due[l]]
  BY DEF R!Write
<1> HIDE DEF m
<1>3. RTyped'  BY <1>1, <1>2 DEF RTyped
<1>4. \A l \in Lines : Due'[l] \subseteq Due[l] \cup {m}  BY <1>2
<1>5. \A d \in Conns : Wrote[d] \in Nat /\ Wrote'[d] \in Nat /\ Wrote'[d] >= Wrote[d]
  BY <1>2 DEF RTyped
<1>6. Wrote'[c] = Wrote[c] + 1  BY <1>2 DEF RTyped
<1>7. \A l \in Lines : \A n \in Due[l] : n.src \in Conns /\ n.seq \in Nat
  BY DEF RTyped, Sent
<1>8. \A l \in Lines : \A n \in Due[l] : n.src = c => n.seq < m.seq
  BY <1>1, <1>5, <1>7 DEF Pending
<1>9. Pending'
  <2> SUFFICES ASSUME NEW l \in Lines, NEW x \in Due'[l], NEW y \in Due'[l]
               PROVE  /\ x.seq <= Wrote'[x.src]
                      /\ x.src = y.src /\ x.seq = y.seq => x = y
    BY DEF Pending
  <2>1. x \in Due[l] \/ x = m  BY <1>4
  <2>2. y \in Due[l] \/ y = m  BY <1>4
  <2>3. x.seq <= Wrote'[x.src]
    <3>1. CASE x \in Due[l]  BY <3>1, <1>5, <1>7 DEF Pending
    <3>2. CASE x = m  BY <3>2, <1>1, <1>5, <1>6
    <3> QED  BY <2>1, <3>1, <3>2
  <2>4. x.src = y.src /\ x.seq = y.seq => x = y
    <3>1. CASE x \in Due[l] /\ y \in Due[l]  BY <3>1 DEF Pending
    <3>2. CASE x = m /\ y = m  BY <3>2
    <3>3. CASE x = m /\ y \in Due[l]  BY <3>3, <1>1, <1>5, <1>7, <1>8
    <3>4. CASE x \in Due[l] /\ y = m  BY <3>4, <1>1, <1>5, <1>7, <1>8
    <3> QED  BY <2>1, <2>2, <3>1, <3>2, <3>3, <3>4
  <2> QED  BY <2>3, <2>4
<1>10. Past'
  <2> SUFFICES ASSUME NEW d \in Conns, NEW i \in DOMAIN Got[d]
               PROVE  /\ at[d] # NoLine /\ Got[d][i].seq <= Wrote'[Got[d][i].src]
                      /\ \A l \in Lines : at[d] = l => \A n \in Due'[l] :
                             n.src = Got[d][i].src => Got[d][i].seq < n.seq
    BY <1>2 DEF Past
  <2>1. Got[d][i] \in Sent  BY DEF RTyped
  <2>2. at[d] # NoLine /\ Got[d][i].seq <= Wrote[Got[d][i].src]  BY DEF Past
  <2>3. Got[d][i].seq <= Wrote'[Got[d][i].src]  BY <2>1, <2>2, <1>5 DEF Sent
  <2>4. ASSUME NEW l \in Lines, at[d] = l, NEW n \in Due'[l], n.src = Got[d][i].src
        PROVE  Got[d][i].seq < n.seq
    <3>1. CASE n \in Due[l]  BY <3>1, <2>4 DEF Past
    <3>2. CASE n = m  BY <3>2, <2>1, <2>2, <2>4, <1>1, <1>5 DEF Sent
    <3> QED  BY <2>4, <1>4, <3>1, <3>2
  <2> QED  BY <2>2, <2>3, <2>4
<1>11. InOrder' /\ ForReceiver' /\ AtHome'  BY <1>2 DEF InOrder, ForReceiver, AtHome
<1> QED  BY <1>3, <1>9, <1>10, <1>11

\* Less is due than before.
LEMMA CutRInv == ASSUME RInv, R!Cut, UNCHANGED <<at, writers, Wrote, Got>> PROVE RInv'
<1> USE DEF RInv
<1>1. \A l \in Lines : Due'[l] \subseteq Due[l]  BY DEF R!Cut
<1>2. Due' \in [Lines -> SUBSET UNION {Due[l] : l \in Lines}]  BY DEF R!Cut
<1>3. UNCHANGED <<at, writers, Wrote, Got>>  OBVIOUS
<1>4. RTyped'  BY <1>1, <1>2, <1>3 DEF RTyped
<1>5. InOrder' /\ ForReceiver' /\ AtHome'  BY <1>3 DEF InOrder, ForReceiver, AtHome
<1>6. Pending'  BY <1>1, <1>3 DEF Pending
<1>7. Past'  BY <1>1, <1>3 DEF Past
<1> QED  BY <1>4, <1>5, <1>6, <1>7

\* The oldest message of a sender is behind those that were delivered.
LEMMA DeliverRInv ==
    ASSUME RInv, NEW l \in Lines, NEW m \in Due[l], R!Deliver(l, m)
    PROVE  RInv'
<1> USE DEF RInv
<1> DEFINE To(c) == c \in writers[l] /\ m.to \in {NoConn, c}
<1>1. m \in Sent /\ m.src \in Conns /\ m.seq \in Nat  BY DEF RTyped, Sent
<1>2. UNCHANGED <<at, writers, Wrote>> /\ Due' = [Due EXCEPT ![l] = @ \ {m}]  BY DEF R!Deliver
<1>3. \A c \in Conns : Got'[c] = Got[c] \/ (To(c) /\ Got'[c] = Append(Got[c], m))
  BY DEF R!Deliver
<1>4. Got' \in [Conns -> Seq(Sent)]
  <2>1. \A c \in Conns : Got[c] \in Seq(Sent) /\ Append(Got[c], m) \in Seq(Sent)
    BY <1>1 DEF RTyped
  <2>2. CASE Got' = [c \in Conns |-> IF To(c) THEN Append(Got[c], m) ELSE Got[c]]
    BY <2>1, <2>2
  <2>3. CASE UNCHANGED Got  BY <2>3 DEF RTyped
  <2> QED  BY <2>2, <2>3 DEF R!Deliver
<1>5. \A k \in Lines : Due'[k] \subseteq Due[k]  BY <1>2 DEF RTyped
<1>6. RTyped' /\ AtHome'  BY <1>2, <1>4 DEF RTyped, AtHome
<1>7. Pending'  BY <1>2, <1>5 DEF Pending
<1>8. \A c \in Conns : To(c) => at[c] = l /\ l # NoLine  BY DEF AtHome
<1>9. ASSUME NEW c \in Conns, NEW i \in DOMAIN Got'[c]
      PROVE  \/ i \in DOMAIN Got[c] /\ Got'[c][i] = Got[c][i]
             \/ i = Len(Got[c]) + 1 /\ Got'[c][i] = m /\ To(c)
  <2>1. Got[c] \in Seq(Sent)  BY DEF RTyped
  <2>2. CASE Got'[c] = Got[c]  BY <2>2, <1>9
  <2>3. CASE To(c) /\ Got'[c] = Append(Got[c], m)
    BY <2>1, <2>3, <1>9
  <2> QED  BY <1>3, <2>2, <2>3
<1> HIDE DEF To
<1>10. InOrder'
  <2> SUFFICES ASSUME NEW c \in Conns, NEW i \in DOMAIN Got'[c], NEW j \in DOMAIN Got'[c],
                      i < j, Got'[c][i].src = Got'[c][j].src
               PROVE  Got'[c][i].seq < Got'[c][j].seq
    BY DEF InOrder
  <2>0. Got[c] \in Seq(Sent) /\ DOMAIN Got[c] = 1..Len(Got[c])  BY DEF RTyped
  <2>1. CASE j \in DOMAIN Got[c] /\ Got'[c][j] = Got[c][j]
    <3>1. i \in DOMAIN Got[c] /\ Got'[c][i] = Got[c][i]  BY <2>0, <2>1, <1>9
    <3> QED  BY <2>1, <3>1 DEF InOrder
  <2>2. CASE j = Len(Got[c]) + 1 /\ Got'[c][j] = m /\ To(c)
    <3>1. i \in DOMAIN Got[c] /\ Got'[c][i] = Got[c][i]  BY <2>0, <2>2, <1>9
    <3>2. at[c] = l  BY <2>2, <1>8
    <3> QED  BY <2>2, <3>1, <3>2 DEF Past
  <2> QED  BY <1>9, <2>1, <2>2
<1>11. ForReceiver'  BY <1>9 DEF ForReceiver, To
<1>12. Past'
  <2> SUFFICES ASSUME NEW c \in Conns, NEW i \in DOMAIN Got'[c]
               PROVE  /\ at[c] # NoLine /\ Got'[c][i].seq <= Wrote[Got'[c][i].src]
                      /\ \A k \in Lines : at[c] = k => \A n \in Due'[k] :
                             n.src = Got'[c][i].src => Got'[c][i].seq < n.seq
    BY <1>2 DEF Past
  <2>1. CASE i \in DOMAIN Got[c] /\ Got'[c][i] = Got[c][i]  BY <2>1, <1>5 DEF Past
  <2>2. CASE Got'[c][i] = m /\ To(c)
    <3>1. at[c] = l /\ l # NoLine  BY <2>2, <1>8
    <3>2. m.seq <= Wrote[m.src]  BY DEF Pending
    <3>3. ASSUME NEW n \in Due'[l], n.src = m.src  PROVE m.seq < n.seq
      <4>1. n \in Due[l] /\ n # m  BY <1>2, <3>3 DEF RTyped
      <4>2. n.seq >= m.seq  BY <3>3, <4>1 DEF R!Deliver, R!Oldest
      <4>3. n.seq # m.seq  BY <3>3, <4>1 DEF Pending
      <4> QED  BY <1>1, <4>1, <4>2, <4>3 DEF RTyped, Sent
    <3> QED  BY <2>2, <3>1, <3>2, <3>3
  <2> QED  BY <1>9, <2>1, <2>2
<1> QED  BY <1>6, <1>7, <1>10, <1>11, <1>12

LEMMA NextRInv == RInv /\ [R!Next]_R!rvars => RInv'
<1> SUFFICES ASSUME RInv, [R!Next]_R!rvars PROVE RInv'  OBVIOUS
<1>1. ASSUME NEW c \in Conns, (\E l \in Lines : R!Arrive(c, l)) \/ R!Join(c) \/ R!Leave(c)  PROVE RInv'
  BY <1>1, MembersRInv
<1>2. ASSUME NEW c \in Conns, NEW to \in Conns \cup {NoConn}, R!Write(c, to)  PROVE RInv'
  BY <1>2, WriteRInv
<1>3. ASSUME NEW l \in Lines, NEW m \in Due[l], R!Deliver(l, m)  PROVE RInv'
  BY <1>3, DeliverRInv
<1>4. CASE R!Lose  BY <1>4, CutRInv DEF R!Lose
<1>6. ASSUME NEW c \in Conns, R!Break(c)  PROVE RInv'  BY <1>6, CutRInv DEF R!Break
<1>5. CASE UNCHANGED R!rvars
  BY <1>5 DEF R!rvars, RInv, RTyped, InOrder, ForReceiver, AtHome, Pending, Past
<1> QED  BY <1>1, <1>2, <1>3, <1>4, <1>5, <1>6 DEF R!Next

(* The messages of one sender are delivered in the order in which they     *)
(* were written and at most once to each endpoint, and responses only to   *)
(* the endpoint they answer: for any behaviour of the router, whether or   *)
(* not messages are lost.                                                  *)
THEOREM RouterDeliversInOrder == RouterSpec => [](InOrder /\ ForReceiver)
<1>1. RInv => InOrder /\ ForReceiver  BY DEF RInv
<1> QED  BY <1>1, InitRInv, NextRInv, PTL DEF RouterSpec, R!Spec

(* So it is in the junction, whose connections share queues and dispatch   *)
(* tasks: what a connection is sent of one sender is in the order in which *)
(* that sender wrote it, each message once, and no response goes to a      *)
(* connection it does not answer (Line.line_handler, Line.dispatch,        *)
(* Line.deliver_to_peers).                                                 *)
THEOREM JunctionDeliversInOrder == Spec => [](InOrder /\ ForReceiver)
BY JunctionImplementsRouter, RouterDeliversInOrder, PTL
=============================================================================
