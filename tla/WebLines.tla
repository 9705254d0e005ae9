------------------------------ MODULE WebLines ------------------------------
(***************************************************************************)
(* A junction that routes an MqttLine and a listening WSLine to each other *)
(* (pynais/junction.py; tests/test_mqtt.py wires them this way).           *)
(*                                                                         *)
(* Unlike the lines of Junction, these two do not look at DLINE, and their *)
(* dispatchers await each write: w.send of a websocket suspends until its  *)
(* buffer has drained, publish until the broker has the packet.  Whatever  *)
(* else is ready runs meanwhile, on the list that WSLine.dispatch walks.   *)
(* An action is what runs between two awaits.  websockets, hbmqtt and the  *)
(* broker are external.                                                    *)
(***************************************************************************)
EXTENDS Integers, Sequences, SequencesExt, FiniteSets

CONSTANTS
    Conns,    \* connections of web clients, one value per incarnation
    NoConn,   \* no connection
    Discard,  \* the topic messages that the callback maps to None
    Fatal,    \* the topic messages for which to_json raises
    MaxTopic, \* bound: messages published on the topic
    MaxWeb    \* bound: messages the web clients send

ASSUME WebAssumption ==
    /\ NoConn \notin Conns /\ IsFiniteSet(Conns) /\ Discard \subseteq Nat
    /\ Fatal \subseteq Nat /\ Discard \cap Fatal = {}
    /\ MaxTopic \in Nat /\ MaxWeb \in Nat

Tasks == 1..Cardinality(Conns)   \* WSLine.dispatch tasks, in the order they start
Empty == 0                       \* a client message that is an empty string
Binary == MaxWeb + 1             \* a client message in a binary frame

\* A dispatch task: not started or ended, in msg_queue.get(), or in w.send.
Ended   == [at |-> "ended", msg |-> 0, next |-> 1, to |-> NoConn]
Getting == [Ended EXCEPT !.at = "get"]
Sending(m, i, c) == [at |-> "send", msg |-> m, next |-> i, to |-> c]

VARIABLES
    phase,     \* phase[c]: "fresh", "accepted", "open", "closed" (by its remote), "gone", "broken"
    inbox,     \* inbox[c]: what c has sent and its handler has not read
    writers,   \* WSLine.writers, in list order
    wsQueue,   \* WSLine.msg_queue: the numbers of the topic messages
    task,      \* task[i]: where the i-th dispatch task is
    started,   \* dispatch tasks started
    got,       \* got[c]: the topic messages written to c
    mqtt,      \* the MqttLine: "opening", "open" (subscribed or not), "lost"
    mqttTask,  \* MqttLine.dispatch: 0 none, "get", or the message in publish
    mqttQueue, \* MqttLine.msg_queue: [src, num]
    published, \* what the broker got
    closing,   \* WSLine.close: 0 not called, or the place it has come to
    srv,       \* the websocket server accepts
    topic, web, \* bounds: messages of the topic and of the clients so far
    failed     \* history: an exception has ended a dispatch task

connVars == <<phase, inbox, writers>>
wsVars   == <<wsQueue, task, started, got>>
mqttVars == <<mqtt, mqttTask, mqttQueue, published>>
vars == <<connVars, wsVars, mqttVars, closing, srv, topic, web, failed>>

WebMessage == [src : Conns, num : 1..MaxWeb]   \* an empty one is not queued
Idle == [src |-> NoConn, num |-> 0]    \* the MQTT dispatcher is in msg_queue.get()
Gone == [src |-> NoConn, num |-> 1]    \* it does not run

TypeOK ==
    /\ phase \in [Conns -> {"fresh", "accepted", "open", "closed", "gone", "broken"}]
    /\ inbox \in [Conns -> Seq(0..MaxWeb + 1)]
    /\ writers \in Seq(Conns) /\ IsInjective(writers)
    /\ wsQueue \in Seq(1..MaxTopic) /\ started \in 0..Cardinality(Conns)
    /\ task \in [Tasks -> [at : {"ended", "get", "send"}, msg : 0..MaxTopic,
                           next : 1..Cardinality(Conns) + 1, to : Conns \cup {NoConn}]]
    /\ got \in [Conns -> Seq(1..MaxTopic)]
    /\ mqtt \in {"opening", "open", "lost"} /\ mqttTask \in WebMessage \cup {Idle, Gone}
    /\ mqttQueue \in Seq(WebMessage) /\ published \in Seq(WebMessage)
    /\ closing \in 0..Cardinality(Conns) + 1 /\ srv \in BOOLEAN
    /\ topic \in 0..MaxTopic /\ web \in 0..MaxWeb /\ failed \in BOOLEAN

\* Junction.init has opened the websocket server; the MqttLine is connecting.
Init ==
    /\ phase = [c \in Conns |-> "fresh"] /\ inbox = [c \in Conns |-> <<>>] /\ writers = <<>>
    /\ wsQueue = <<>> /\ task = [i \in Tasks |-> Ended] /\ started = 0
    /\ got = [c \in Conns |-> <<>>]
    /\ mqtt = "opening" /\ mqttTask = Gone /\ mqttQueue = <<>> /\ published = <<>>
    /\ closing = 0 /\ srv = TRUE /\ topic = 0 /\ web = 0 /\ failed = FALSE

-----------------------------------------------------------------------------
(* The web clients                                                         *)

Connect(c) ==
    /\ phase[c] = "fresh" /\ srv /\ phase' = [phase EXCEPT ![c] = "accepted"]
    /\ UNCHANGED <<inbox, writers, wsVars, mqttVars, closing, srv, topic, web, failed>>

ClientSends(c) ==
    /\ phase[c] \in {"accepted", "open"} /\ web < MaxWeb /\ web' = web + 1
    /\ \E m \in {Empty, Binary, web + 1} : inbox' = [inbox EXCEPT ![c] = Append(@, m)]
    /\ UNCHANGED <<phase, writers, wsVars, mqttVars, closing, srv, topic, failed>>

ClientLeaves(c) ==
    /\ phase[c] = "open" /\ phase' = [phase EXCEPT ![c] = "closed"]
    /\ UNCHANGED <<inbox, writers, wsVars, mqttVars, closing, srv, topic, web, failed>>

-----------------------------------------------------------------------------
(* Line.line_handler, Line.reader_handler, WSLine.read_msg                 *)

EachClient  == TRUE             \* mutant: a dispatcher per client
SecondClient == Len(writers) = 1 \* mutant: the first client gets no dispatcher
FirstClient == writers = <<>>

StartHandler(c) ==
    /\ phase[c] = "accepted" /\ phase' = [phase EXCEPT ![c] = "open"]
    /\ writers' = Append(writers, c)
    /\ IF FirstClient
       THEN started' = started + 1 /\ task' = [task EXCEPT ![started + 1] = Getting]
       ELSE UNCHANGED <<started, task>>
    /\ UNCHANGED <<inbox, wsQueue, got, mqttVars, closing, srv, topic, web, failed>>

ReadMessage(c) ==
    /\ phase[c] \in {"open", "closed"} /\ inbox[c] # <<>>
    /\ Head(inbox[c]) \notin {Empty, Binary}
    /\ inbox' = [inbox EXCEPT ![c] = Tail(@)]
    /\ mqttQueue' = Append(mqttQueue, [src |-> c, num |-> Head(inbox[c])])
    /\ UNCHANGED <<phase, writers, wsVars, mqtt, mqttTask, published, closing, srv,
                   topic, web, failed>>

\* The end of the stream, or an empty message: the handler ends, and websockets
\* closes the connection of a handler that has returned.
EndHandler(c) ==
    /\ phase[c] \in {"open", "closed"}
    /\ IF inbox[c] = <<>> THEN phase[c] = "closed" ELSE Head(inbox[c]) = Empty
    /\ phase' = [phase EXCEPT ![c] = "gone"] /\ inbox' = [inbox EXCEPT ![c] = <<>>]
    /\ \E k \in DOMAIN writers : writers[k] = c /\ writers' = RemoveAt(writers, k)
    /\ UNCHANGED <<wsVars, mqttVars, closing, srv, topic, web, failed>>

\* bytes(msg, 'utf-8') of a binary frame raises TypeError, which leaves
\* line_handler before the writer is removed; websockets closes the connection.
ReadFails(c) ==
    /\ phase[c] \in {"open", "closed"} /\ inbox[c] # <<>> /\ Head(inbox[c]) = Binary
    /\ phase' = [phase EXCEPT ![c] = "broken"] /\ inbox' = [inbox EXCEPT ![c] = <<>>]
    /\ UNCHANGED <<writers, wsVars, mqttVars, closing, srv, topic, web, failed>>

-----------------------------------------------------------------------------
(* WSLine.dispatch                                                         *)

\* An exception other than CancelledError ends the task.
Die(i) == task' = [task EXCEPT ![i] = Ended] /\ failed' = TRUE /\ UNCHANGED got

Stay(n) == n          \* mutant: the loop does not advance
SkipOne(n) == n + 2   \* mutant: the loop steps over a writer
After(n) == n + 1

\* The loop takes the writer that is now at place n of the list.
SendNext(i, m, n) ==
    IF n > Len(writers)
    THEN task' = [task EXCEPT ![i] = Getting] /\ UNCHANGED <<got, failed>>
    ELSE LET c == writers[n]
         IN  IF phase[c] # "open" THEN Die(i)
             ELSE /\ got' = [got EXCEPT ![c] = Append(@, m)]
                  /\ task' = [task EXCEPT ![i] = Sending(m, After(n), c)]
                  /\ UNCHANGED failed

\* Mutant: None is sent to the clients, which raises.
TakeNone(i) ==
    /\ task[i].at = "get" /\ wsQueue # <<>> /\ wsQueue' = Tail(wsQueue)
    /\ IF Head(wsQueue) \in Discard \cup Fatal THEN Die(i) ELSE SendNext(i, Head(wsQueue), 1)
    /\ UNCHANGED <<connVars, started, mqttVars, closing, srv, topic, web>>

\* What the callback maps to None is skipped: to_json returns None.  It raises
\* when the callback does, and for what is neither an object nor UTF-8.
Take(i) ==
    /\ task[i].at = "get" /\ wsQueue # <<>> /\ wsQueue' = Tail(wsQueue)
    /\ IF Head(wsQueue) \in Discard THEN UNCHANGED <<task, got, failed>>
       ELSE IF Head(wsQueue) \in Fatal THEN Die(i)
       ELSE SendNext(i, Head(wsQueue), 1)
    /\ UNCHANGED <<connVars, started, mqttVars, closing, srv, topic, web>>

Sent(i) ==
    /\ task[i].at = "send" /\ SendNext(i, task[i].msg, task[i].next)
    /\ UNCHANGED <<connVars, wsQueue, started, mqttVars, closing, srv, topic, web>>

\* The connection is lost while its buffer drains.
SendBroken(i) ==
    /\ task[i].at = "send" /\ phase[task[i].to] \in {"closed", "gone", "broken"} /\ Die(i)
    /\ UNCHANGED <<connVars, wsQueue, started, mqttVars, closing, srv, topic, web>>

-----------------------------------------------------------------------------
(* MqttLine                                                                *)

\* Mutant: the dispatcher is not started.
MqttOpenDeaf ==
    /\ mqtt = "opening" /\ mqtt' = "open"
    /\ UNCHANGED <<connVars, wsVars, mqttTask, mqttQueue, published, closing, srv, topic, web, failed>>

MqttOpen ==
    /\ mqtt = "opening" /\ mqtt' = "open" /\ mqttTask' = Idle
    /\ UNCHANGED <<connVars, wsVars, mqttQueue, published, closing, srv, topic, web, failed>>

\* The broker is not there, or it is lost and hbmqtt does not reconnect.
MqttLost ==
    /\ mqtt # "lost" /\ mqtt' = "lost"
    /\ UNCHANGED <<connVars, wsVars, mqttTask, mqttQueue, published, closing, srv, topic, web, failed>>

\* mqtt_reader_handler.
TopicMessage ==
    /\ mqtt = "open" /\ topic < MaxTopic /\ topic' = topic + 1
    /\ wsQueue' = Append(wsQueue, topic + 1)
    /\ UNCHANGED <<connVars, task, started, got, mqttVars, closing, srv, web, failed>>

MqttTake ==
    /\ mqttTask = Idle /\ mqttQueue # <<>>
    /\ mqttTask' = Head(mqttQueue) /\ mqttQueue' = Tail(mqttQueue)
    /\ UNCHANGED <<connVars, wsVars, mqtt, published, closing, srv, topic, web, failed>>

Published ==
    /\ mqttTask \notin {Idle, Gone} /\ mqtt = "open"
    /\ published' = Append(published, mqttTask) /\ mqttTask' = Idle
    /\ UNCHANGED <<connVars, wsVars, mqtt, mqttQueue, closing, srv, topic, web, failed>>

\* publish raises ClientException, which ends MqttLine.dispatch.
PublishFails ==
    /\ mqttTask \notin {Idle, Gone} /\ mqtt = "lost" /\ mqttTask' = Gone
    /\ UNCHANGED <<connVars, wsVars, mqtt, mqttQueue, published, closing, srv, topic, web, failed>>

-----------------------------------------------------------------------------
(* WSLine.close, from Junction.shutdown                                    *)

CloseBegins ==
    /\ closing = 0 /\ closing' = 1
    /\ UNCHANGED <<connVars, wsVars, mqttVars, srv, topic, web, failed>>

CloseNext ==
    /\ closing \in 1..Len(writers) /\ srv
    /\ phase' = [phase EXCEPT ![writers[closing]] = IF @ = "open" THEN "closed" ELSE @]
    /\ closing' = closing + 1
    /\ UNCHANGED <<inbox, writers, wsVars, mqttVars, srv, topic, web, failed>>

\* srv.close() refuses new clients and closes those the loop has skipped.
CloseEnds ==
    /\ closing > Len(writers) /\ srv /\ srv' = FALSE
    /\ phase' = [c \in Conns |-> IF phase[c] = "open" THEN "closed" ELSE phase[c]]
    /\ UNCHANGED <<inbox, writers, wsVars, mqttVars, closing, topic, web, failed>>

-----------------------------------------------------------------------------
Handler(c) == StartHandler(c) \/ ReadMessage(c) \/ ReadFails(c) \/ EndHandler(c)
Dispatch(i) == Take(i) \/ Sent(i) \/ SendBroken(i)
MqttDispatch == MqttTake \/ Published \/ PublishFails
Client(c) == Connect(c) \/ ClientSends(c) \/ ClientLeaves(c)
Close == CloseBegins \/ CloseNext \/ CloseEnds

Next ==
    \/ \E c \in Conns : Client(c) \/ Handler(c)
    \/ \E i \in Tasks : Dispatch(i)
    \/ MqttOpen \/ MqttLost \/ TopicMessage \/ MqttDispatch \/ Close

Spec == Init /\ [][Next]_vars

\* The event loop runs what is ready; a buffer drains, or its connection is lost.
Fairness ==
    /\ \A c \in Conns : WF_vars(Handler(c))
    /\ \A i \in Tasks : WF_vars(Dispatch(i))
    /\ WF_vars(MqttDispatch)

FairSpec == Spec /\ Fairness

-----------------------------------------------------------------------------
(* A client is written no message twice, whoever leaves or joins while the *)
(* list is walked and however many dispatch tasks there are.               *)
AtMostOnce == \A c \in Conns : IsInjective(got[c])

(* A client is written the messages in the order of the topic, as long as  *)
(* the handler of no client has ended.  (Afterwards line_handler may start *)
(* a second dispatch task, and the two overtake each other in w.send.)     *)
InOrder ==
    (\A c \in Conns : phase[c] # "gone") =>
        \A c \in Conns : \A i, j \in DOMAIN got[c] : i < j => got[c][i] < got[c][j]

(* "Send a json payload to all websocket clients connected": a task that   *)
(* is through with a message has written it to every client on the line.   *)
Through(i) == task[i].at = "send" /\ task'[i].at # "send"
SentToAll ==
    [][\A i \in Tasks : Through(i) =>
          \A c \in Range(writers) : phase[c] = "open" => task[i].msg \in Range(got[c])]_vars

(* That holds as long as no client has left, whoever joins while the list  *)
(* is walked: then the list only grows (junction.py:636-644).              *)
AllStay == \A c \in Conns : phase[c] \notin {"closed", "gone", "broken"}
SentToAllWhoStay ==
    [][\A i \in Tasks : AllStay /\ Through(i) =>
          \A c \in Range(writers) : phase[c] = "open" => task[i].msg \in Range(got[c])]_vars

\* A topic message that waits, with nothing before it for which to_json raises.
Served(m) == \E k \in DOMAIN wsQueue : /\ wsQueue[k] = m
                                       /\ \A n \in 1..k : wsQueue[n] \notin Fatal
\* Each client that is connected is written it, unless a client leaves: there is a
\* task for it, unless an exception has ended one before, also when the list of
\* writers was empty for a while (line_handler), and none hangs (WSLine.dispatch).
TopicReachesClients ==
    \A c \in Conns : \A m \in 1..MaxTopic \ Discard :
        (/\ c \in Range(writers) /\ Served(m)
         /\ ~failed \/ \E i \in Tasks : task[i].at # "ended")
            ~> (m \in Range(got[c]) \/ ~AllStay)

\* What was read from a client is published, unless the broker is lost.
WebReachesTopic ==
    \A c \in Conns : \A m \in 1..MaxWeb :
        [src |-> c, num |-> m] \in Range(mqttQueue)
            ~> (mqtt # "open" \/ [src |-> c, num |-> m] \in Range(published))

(* The two lines pass messages on, in both directions: a topic message to  *)
(* the clients until an exception ends the dispatch task or somebody       *)
(* leaves, what a client sends to the topic as long as there is a broker.  *)
MessagesGetAcross == TopicReachesClients /\ WebReachesTopic
=============================================================================
