------------------------------ MODULE Junction ------------------------------
(***************************************************************************)
(* The pynais junction (pynais/junction.py, pynais/packet.py): Lines that  *)
(* accept or open stream connections, one line_handler task per            *)
(* connection, one unbounded message queue per Line and the dispatch tasks *)
(* that empty it.  The program is a single asyncio thread: an action is    *)
(* what runs between two awaits that can really suspend.                   *)
(*                                                                         *)
(* This module has the lines that use the base class handler and           *)
(* dispatcher: TcpLine listening ("server"), TcpLine with remote_is_server *)
(* ("client") and SerialLine ("serial").                                   *)
(***************************************************************************)
EXTENDS Integers, Sequences, FiniteSets

CONSTANTS
    Lines,        \* the Line objects
    Conns,        \* connections, one value per incarnation: never reused
    NoConn,       \* no connection
    NoLine,       \* no line
    Kind,         \* Kind[l]: "server", "client" or "serial"
    Peers,        \* Peers[l]: the lines l is routed to
    Morph,        \* Morph[l][t][class]: what the callback from l to t returns
    MaxSline,     \* largest value of the SLINE byte: 255
    MaxSends,     \* bound: messages the remote endpoints send in all
    MaxInits,     \* bound: calls of Junction.init
    MaxComplaints, \* bound: lines ser2net prints on its stderr
    MaxResets,    \* bound: connections that are reset
    MayShutdown   \* bound: FALSE leaves Junction.shutdown out of a run

Kinds    == {"server", "client", "serial"}
Classes  == {"ascii", "proto"}
Outcomes == Classes \cup {"none", "raise"}

ASSUME ConnsAssumption == NoConn \notin Conns /\ NoLine \notin Lines
ASSUME KindAssumption  == Kind \in [Lines -> Kinds]
\* Junction.route always adds the peer on both sides.
ASSUME PeersAssumption == /\ Peers \in [Lines -> SUBSET Lines]
                          /\ \A l, t \in Lines : t \in Peers[l] => l \in Peers[t]
ASSUME MorphAssumption == Morph \in [Lines -> [Lines -> [Classes -> Outcomes]]]
ASSUME BoundAssumption == /\ MaxSline \in Nat /\ MaxSends \in Nat
                          /\ MaxInits \in Nat /\ MaxComplaints \in Nat
                          /\ MaxResets \in Nat /\ MayShutdown \in BOOLEAN

(* A message as its sender wrote it.  src, seq and to identify it for the  *)
(* properties: its sender, its place among the sender's messages and, for  *)
(* a response, the connection whose packet it answers.  The wire has only  *)
(* the class of the message and its DLINE byte (0 in a plain string).      *)
Message == [src : Conns, seq : Nat, class : Classes, dline : Nat, to : Conns \cup {NoConn}]

(* Packet(message, src_line, transformer): the message, the line it came   *)
(* from (which picks the transformer) and the id of its connection.        *)
Packet == [msg : Message, from : Lines, src_line : Nat]

(* What a writer is given: the outcome of the transformer and SLINE.       *)
Written == [msg : Message, class : Classes, sline : Nat]

VARIABLES
    registry,   \* Junction.registry: the attached lines
    inits,      \* number of calls of Junction.init
    stopping,   \* Junction.shutdown is running or has run
    opening,    \* opening[l]: pending open() coroutines
    dialing,    \* dialing[l]: pending SerialLine.open_serial_client()
    opens,      \* opens[l]: open() calls of Junction.init that have not failed for good
    srv,        \* srv[l]: the listening socket is up, or ser2net is running
    complaints, \* stderr lines of ser2net so far
    sid,        \* Line.sid
    phase,      \* phase[c]: "fresh", "accepted", "open", "gone", "broken"
    at,         \* at[c]: the line c belongs to
    lid,        \* lid[c]: reader.line and writer.line
    eof,        \* eof[c]: the remote has closed, or Line.close() has
    sent,       \* sent[c]: the messages the remote endpoint wrote
    inbox,      \* inbox[c]: messages written and not yet read
    writers,    \* writers[l]: Line.writers
    queue,      \* queue[l]: Line.msg_queue
    ndisp,      \* ndisp[l]: dispatch() tasks alive
    out         \* out[c]: what was written to the connection's writer

jvars == <<registry, inits, stopping>>
ovars == <<opening, dialing, opens, srv, complaints>>
cvars == <<sid, phase, at, lid>>
rvars == <<eof, sent, inbox>>
vars  == <<jvars, ovars, cvars, rvars, writers, queue, ndisp, out>>

TypeOK ==
    /\ registry \subseteq Lines
    /\ inits \in Nat
    /\ stopping \in BOOLEAN
    /\ opening \in [Lines -> Nat]
    /\ dialing \in [Lines -> Nat]
    /\ opens \in [Lines -> Int]
    /\ srv \in [Lines -> BOOLEAN]
    /\ complaints \in Nat
    /\ sid \in Nat
    /\ phase \in [Conns -> {"fresh", "accepted", "open", "gone", "broken"}]
    /\ at \in [Conns -> Lines \cup {NoLine}]
    /\ lid \in [Conns -> Nat]
    /\ eof \in [Conns -> BOOLEAN]
    /\ sent \in [Conns -> Seq(Message)]
    /\ inbox \in [Conns -> Seq(Message)]
    /\ writers \in [Lines -> SUBSET Conns]
    /\ queue \in [Lines -> Seq(Packet)]
    /\ ndisp \in [Lines -> Nat]
    /\ out \in [Conns -> Seq(Written)]

(* The lines have been built (Line.__init__ attaches them) and routed.     *)
Init ==
    /\ registry = Lines
    /\ inits = 0
    /\ stopping = FALSE
    /\ opening = [l \in Lines |-> 0]
    /\ dialing = [l \in Lines |-> 0]
    /\ opens = [l \in Lines |-> 0]
    /\ srv = [l \in Lines |-> FALSE]
    /\ complaints = 0
    /\ sid = 0
    /\ phase = [c \in Conns |-> "fresh"]
    /\ at = [c \in Conns |-> NoLine]
    /\ lid = [c \in Conns |-> 0]
    /\ eof = [c \in Conns |-> FALSE]
    /\ sent = [c \in Conns |-> <<>>]
    /\ inbox = [c \in Conns |-> <<>>]
    /\ writers = [l \in Lines |-> {}]
    /\ queue = [l \in Lines |-> <<>>]
    /\ ndisp = [l \in Lines |-> 0]
    /\ out = [c \in Conns |-> <<>>]

-----------------------------------------------------------------------------
(* Junction.init, Line.open and what they schedule                         *)

\* Junction.init: one open() per registered line.
JunctionInit ==
    /\ inits < MaxInits
    /\ ~stopping
    /\ inits' = inits + 1
    /\ opening' = [l \in Lines |-> opening[l] + (IF l \in registry THEN 1 ELSE 0)]
    /\ opens' = [l \in Lines |-> opens[l] + (IF l \in registry THEN 1 ELSE 0)]
    /\ UNCHANGED <<registry, stopping, dialing, srv, complaints,
                   cvars, rvars, writers, queue, ndisp, out>>

\* TcpLine.open, listening.
OpenServer(l) ==
    /\ Kind[l] = "server"
    /\ opening[l] > 0
    /\ ~srv[l]
    /\ opening' = [opening EXCEPT ![l] = @ - 1]
    /\ srv' = [srv EXCEPT ![l] = TRUE]
    /\ UNCHANGED <<jvars, dialing, opens, complaints, cvars, rvars,
                   writers, queue, ndisp, out>>

\* SerialLine.open: ser2net is started, then a client of it is scheduled.
\* A second open() replaces self._serial by a second process, which finds
\* its port taken; its client reaches the first one.
OpenSerial(l) ==
    /\ Kind[l] = "serial"
    /\ opening[l] > 0
    /\ opening' = [opening EXCEPT ![l] = @ - 1]
    /\ dialing' = [dialing EXCEPT ![l] = @ + 1]
    /\ srv' = [srv EXCEPT ![l] = TRUE]
    /\ UNCHANGED <<jvars, opens, complaints, cvars, rvars, writers, queue, ndisp, out>>

\* Mutant: the failure is reported without a pending open().
OpenFailsUnguarded(l) ==
    /\ opening' = [opening EXCEPT ![l] = @ - 1]
    /\ opens' = [opens EXCEPT ![l] = @ - 1]
    /\ UNCHANGED <<jvars, dialing, srv, complaints, cvars, rvars, writers, queue, ndisp, out>>

\* open() ends with an exception or after socket.gaierror: the port of a
\* server is taken, the name of a remote server is unknown, ser2net is not
\* installed.  (A refused connection is retried: open() stays pending.)
OpenFails(l) ==
    /\ opening[l] > 0
    /\ opening' = [opening EXCEPT ![l] = @ - 1]
    /\ opens' = [opens EXCEPT ![l] = @ - 1]
    /\ UNCHANGED <<jvars, dialing, srv, complaints, cvars, rvars,
                   writers, queue, ndisp, out>>

\* A connection c of line l is established; its handler task is scheduled.
Establish(c, l) ==
    /\ phase[c] = "fresh"
    /\ phase' = [phase EXCEPT ![c] = "accepted"]
    /\ at' = [at EXCEPT ![c] = l]

\* asyncio accepts a client of a listening line.
Accept(c, l) ==
    /\ Kind[l] = "server"
    /\ srv[l]
    /\ Establish(c, l)
    /\ UNCHANGED <<jvars, ovars, sid, lid, rvars, writers, queue, ndisp, out>>

\* TcpLine.open with remote_is_server: open_connection succeeds.
ConnectRemote(c, l) ==
    /\ Kind[l] = "client"
    /\ opening[l] > 0
    /\ opening' = [opening EXCEPT ![l] = @ - 1]
    /\ Establish(c, l)
    /\ UNCHANGED <<jvars, dialing, opens, srv, complaints, sid, lid, rvars,
                   writers, queue, ndisp, out>>

\* SerialLine.open_serial_client: ser2net accepts.
ConnectSerial(c, l) ==
    /\ srv[l]
    /\ dialing[l] > 0
    /\ dialing' = [dialing EXCEPT ![l] = @ - 1]
    /\ Establish(c, l)
    /\ UNCHANGED <<jvars, opening, opens, srv, complaints, sid, lid, rvars,
                   writers, queue, ndisp, out>>

\* open_serial_client raises: ser2net is not ready or is gone.
DialFails(l) ==
    /\ dialing[l] > 0
    /\ dialing' = [dialing EXCEPT ![l] = @ - 1]
    /\ UNCHANGED <<jvars, opening, opens, srv, complaints, cvars, rvars,
                   writers, queue, ndisp, out>>

\* SerialLine.errors_from_serial: one more client, the old one not closed.
SerialComplains(l) ==
    /\ Kind[l] = "serial"
    /\ srv[l]
    /\ complaints < MaxComplaints
    /\ complaints' = complaints + 1
    /\ dialing' = [dialing EXCEPT ![l] = @ + 1]
    /\ UNCHANGED <<jvars, opening, opens, srv, cvars, rvars, writers, queue, ndisp, out>>

-----------------------------------------------------------------------------
(* The remote endpoints: what arrives on a connection                      *)

Live(c) == phase[c] \in {"accepted", "open"} /\ ~eof[c]

\* The messages sent so far, as pairs of a sender and a place.
SentSoFar == UNION {{c} \X DOMAIN sent[c] : c \in Conns}

Write(c, class, dline, to) ==
    LET m == [src |-> c, seq |-> Len(sent[c]) + 1, class |-> class, dline |-> dline, to |-> to]
    IN  /\ Live(c)
        /\ Cardinality(SentSoFar) < MaxSends
        /\ sent' = [sent EXCEPT ![c] = Append(@, m)]
        /\ inbox' = [inbox EXCEPT ![c] = Append(@, m)]
        /\ UNCHANGED <<jvars, ovars, cvars, eof, writers, queue, ndisp, out>>

\* A plain string, or a packet that answers nothing (DLINE 0).
Send(c) == \E class \in Classes : Write(c, class, 0, NoConn)

\* A response: DLINE is the SLINE of the packet it answers (pynais.ack,
\* set_dline in the firmware).
Respond(c) ==
    \E i \in DOMAIN out[c] :
        /\ out[c][i].class = "proto"
        /\ Write(c, "proto", out[c][i].sline, out[c][i].msg.src)

\* The remote endpoint closes the connection.
RemoteClose(c) ==
    /\ Live(c)
    /\ eof' = [eof EXCEPT ![c] = TRUE]
    /\ UNCHANGED <<jvars, ovars, cvars, sent, inbox, writers, queue, ndisp, out>>

-----------------------------------------------------------------------------
(* Line.line_handler, reader_handler, deliver_to_peers                     *)

\* Mutant: the id of a connection that is gone is used again.
AllocSidReuse ==
    CHOOSE i \in 1..sid + 1 : /\ i \notin {lid[c] : c \in {d \in Conns : phase[d] = "open"}}
                             /\ \A k \in 1..i - 1 : \E c \in Conns : phase[c] = "open" /\ lid[c] = k

\* Line.alloc_sid.
AllocSid == sid + 1

\* Mutant: the dispatcher is started for the first connection of all only.
StartHandlerOnce(c) ==
    LET l == at[c] IN
    /\ phase[c] = "accepted"
    /\ ndisp' = [ndisp EXCEPT ![l] = IF sid = 0 THEN @ + 1 ELSE @]
    /\ writers' = [writers EXCEPT ![l] = @ \cup {c}]
    /\ sid' = AllocSid
    /\ lid' = [lid EXCEPT ![c] = AllocSid]
    /\ phase' = [phase EXCEPT ![c] = "open"]
    /\ UNCHANGED <<jvars, ovars, at, rvars, queue, out>>

\* line_handler up to its first await.
StartHandler(c) ==
    LET l == at[c] IN
    /\ phase[c] = "accepted"
    /\ ndisp' = [ndisp EXCEPT ![l] = IF writers[l] = {} THEN @ + 1 ELSE @]
    /\ writers' = [writers EXCEPT ![l] = @ \cup {c}]
    /\ sid' = AllocSid
    /\ lid' = [lid EXCEPT ![c] = AllocSid]
    /\ phase' = [phase EXCEPT ![c] = "open"]
    /\ UNCHANGED <<jvars, ovars, at, rvars, queue, out>>

\* reader_handler reads one message; deliver_to_peers queues it on every
\* peer (put on an unbounded queue never suspends).
ReadMessage(c) ==
    /\ phase[c] = "open"
    /\ inbox[c] # <<>>
    /\ inbox' = [inbox EXCEPT ![c] = Tail(@)]
    /\ LET p == [msg |-> Head(inbox[c]), from |-> at[c], src_line |-> lid[c]]
       IN  queue' = [t \in Lines |-> IF t \in Peers[at[c]] THEN Append(queue[t], p)
                                                         ELSE queue[t]]
    /\ UNCHANGED <<jvars, ovars, cvars, eof, sent, writers, ndisp, out>>

\* Mutant: a lost connection is not replaced.
EndHandlerNoRetry(c) ==
    LET l == at[c] IN
    /\ phase[c] = "open"
    /\ eof[c]
    /\ inbox[c] = <<>>
    /\ writers' = [writers EXCEPT ![l] = @ \ {c}]
    /\ phase' = [phase EXCEPT ![c] = "gone"]
    /\ UNCHANGED <<jvars, ovars, sid, at, lid, rvars, queue, ndisp, out>>

\* The end of line_handler: the stream is at its end, and a line whose
\* remote is a server schedules another open().
EndHandler(c) ==
    LET l == at[c] IN
    /\ phase[c] = "open"
    /\ eof[c]
    /\ inbox[c] = <<>>
    /\ opening' = [opening EXCEPT ![l] = IF Kind[l] = "client" THEN @ + 1 ELSE @]
    /\ writers' = [writers EXCEPT ![l] = @ \ {c}]
    /\ phase' = [phase EXCEPT ![c] = "gone"]
    /\ UNCHANGED <<jvars, dialing, opens, srv, complaints, sid, at, lid,
                   rvars, queue, ndisp, out>>

\* Mutant: a reset also empties the queue of the line.
ResetFlushes(c) ==
    /\ phase[c] = "open"
    /\ Cardinality({d \in Conns : phase[d] = "broken"}) < MaxResets
    /\ inbox' = [inbox EXCEPT ![c] = <<>>]
    /\ queue' = [queue EXCEPT ![at[c]] = <<>>]
    /\ phase' = [phase EXCEPT ![c] = "broken"]
    /\ UNCHANGED <<jvars, ovars, sid, at, lid, eof, sent, writers, ndisp, out>>

\* The connection is reset: reader.read raises ConnectionResetError, whatever
\* the StreamReader still holds.  reader_handler catches CancelledError and
\* ConnectionClosed, line_handler CancelledError only: the handler task ends
\* without a new open() and leaves its writer in the list, closed, where
\* write() does nothing.
Reset(c) ==
    /\ phase[c] = "open"
    /\ Cardinality({d \in Conns : phase[d] = "broken"}) < MaxResets
    /\ inbox' = [inbox EXCEPT ![c] = <<>>]
    /\ phase' = [phase EXCEPT ![c] = "broken"]
    /\ UNCHANGED <<jvars, ovars, sid, at, lid, eof, sent, writers, queue, ndisp, out>>

-----------------------------------------------------------------------------
(* Line.dispatch and Packet                                                *)

Outcome(l, p) == Morph[p.from][l][p.msg.class]

\* Mutant: the largest id that fits is taken for one that does not.
LethalEarly(l, p) ==
    \/ Outcome(l, p) \in {"none", "raise"}
    \/ Outcome(l, p) = "proto" /\ p.src_line >= MaxSline

\* Evaluating message.packet, or writing its value, raises: the callback
\* raises, or returns None (write(None) is a TypeError), or the id of the
\* source does not fit the SLINE byte (ValueError).
Lethal(l, p) ==
    \/ Outcome(l, p) \in {"none", "raise"}
    \/ Outcome(l, p) = "proto" /\ p.src_line > MaxSline

\* Mutant: DLINE 0 is a broadcast in strings only.
AddresseesStrings(l, p) ==
    {c \in writers[l] : p.msg.dline = lid[c] \/ p.msg.class = "ascii"}

Addressees(l, p) == {c \in writers[l] : p.msg.dline \in {0, lid[c]}}

\* Mutant: the message is written to one of its addressees.
DispatchFirst(l) ==
    LET p    == Head(queue[l])
        dst  == Addressees(l, p)
        w    == [msg |-> p.msg, class |-> Outcome(l, p), sline |-> p.src_line]
    IN  /\ ndisp[l] > 0
        /\ queue[l] # <<>>
        /\ queue' = [queue EXCEPT ![l] = Tail(@)]
        /\ out' = [c \in Conns |-> IF dst # {} /\ c = CHOOSE d \in dst : TRUE
                                   THEN Append(out[c], w) ELSE out[c]]
        /\ UNCHANGED <<jvars, ovars, cvars, rvars, writers, ndisp>>

\* One message of dispatch(): write it to its addressees; an exception ends
\* the task and loses the message.
Dispatch(l) ==
    LET p    == Head(queue[l])
        dst  == Addressees(l, p)
        o    == Outcome(l, p)
        dies == dst # {} /\ Lethal(l, p)
        w    == [msg |-> p.msg, class |-> o, sline |-> IF o = "proto" THEN p.src_line ELSE 0]
    IN  /\ ndisp[l] > 0
        /\ queue[l] # <<>>
        /\ queue' = [queue EXCEPT ![l] = Tail(@)]
        /\ ndisp' = [ndisp EXCEPT ![l] = IF dies THEN @ - 1 ELSE @]
        /\ out' = [c \in Conns |-> IF c \in dst /\ ~dies THEN Append(out[c], w) ELSE out[c]]
        /\ UNCHANGED <<jvars, ovars, cvars, rvars, writers>>

-----------------------------------------------------------------------------
(* Junction.shutdown and Junction.detach                                   *)

Shutdown ==
    /\ MayShutdown
    /\ ~stopping
    /\ inits > 0
    /\ stopping' = TRUE
    /\ UNCHANGED <<registry, inits, ovars, cvars, rvars, writers, queue, ndisp, out>>

\* Line.close on the connections: what the kernel still holds is lost, what
\* the StreamReader has buffered can still be read.
CloseWriters(l) ==
    /\ eof' = [c \in Conns |-> eof[c] \/ c \in writers[l]]
    /\ \E kept \in [writers[l] -> 0..MaxSends] :
           /\ \A c \in writers[l] : kept[c] \in 0..Len(inbox[c])
           /\ inbox' = [c \in Conns |-> IF c \in writers[l]
                                          THEN SubSeq(inbox[c], 1, kept[c])
                                          ELSE inbox[c]]

\* Junction.detach of a TcpLine: Line.close, then out of the registry.
DetachTcp(l) ==
    /\ stopping
    /\ l \in registry
    /\ Kind[l] # "serial"
    /\ CloseWriters(l)
    /\ srv' = [srv EXCEPT ![l] = FALSE]
    /\ registry' = registry \ {l}
    /\ UNCHANGED <<inits, stopping, opening, dialing, opens, complaints, cvars,
                   sent, writers, queue, ndisp, out>>

\* SerialLine.close terminates ser2net and leaves the connections to it.
DetachSerial(l) ==
    /\ stopping
    /\ l \in registry
    /\ Kind[l] = "serial"
    /\ srv[l]
    /\ srv' = [srv EXCEPT ![l] = FALSE]
    /\ registry' = registry \ {l}
    /\ UNCHANGED <<inits, stopping, opening, dialing, opens, complaints, cvars, rvars,
                   writers, queue, ndisp, out>>

\* SerialLine.close before open has set self._serial: AttributeError, and
\* shutdown leaves the remaining lines attached.
DetachSerialFails(l) ==
    /\ stopping
    /\ l \in registry
    /\ Kind[l] = "serial"
    /\ ~srv[l]
    /\ stopping' = FALSE
    /\ UNCHANGED <<registry, inits, ovars, cvars, rvars, writers, queue, ndisp, out>>

-----------------------------------------------------------------------------
Open(l)   == OpenServer(l) \/ OpenSerial(l) \/ OpenFails(l) \/ DialFails(l) \/ SerialComplains(l)
Attach(c) == \E l \in Lines : Accept(c, l) \/ ConnectRemote(c, l) \/ ConnectSerial(c, l)
Remote(c) == Send(c) \/ Respond(c) \/ RemoteClose(c) \/ Reset(c)
Handler(c) == StartHandler(c) \/ ReadMessage(c) \/ EndHandler(c)
Detach(l) == DetachTcp(l) \/ DetachSerial(l) \/ DetachSerialFails(l)

Next ==
    \/ JunctionInit
    \/ Shutdown
    \/ \E l \in Lines : Open(l) \/ Dispatch(l) \/ Detach(l)
    \/ \E c \in Conns : Attach(c) \/ Remote(c) \/ Handler(c)

Spec == Init /\ [][Next]_vars

(* The event loop runs every ready task, and a remote endpoint that closed *)
(* stays closed: the handler and dispatcher steps are weakly fair.         *)
Fairness == /\ \A c \in Conns : WF_vars(Handler(c))
            /\ \A l \in Lines : WF_vars(Dispatch(l))

FairSpec == Spec /\ Fairness

-----------------------------------------------------------------------------
(* A response is written to the connection whose packet it answers and to  *)
(* no other: line ids are unique among all connections of all lines and    *)
(* never reused, so a late answer to a closed connection is dropped        *)
(* (alloc_sid, the filter of Line.dispatch, SLINE set by Packet.packet).   *)
ReplyReachesRequester ==
    \A c \in Conns : \A i \in DOMAIN out[c] : out[c][i].msg.to \in {NoConn, c}

NoFailingMorph == \A l, t \in Lines : \A k \in Classes : Morph[l][t][k] \in Classes

(* A line with connected clients has a dispatch task, as long as no        *)
(* callback fails and the line ids fit their byte (line_handler starts a   *)
(* task only when the line had no writer; Line.dispatch ends on any        *)
(* exception).                                                             *)
ServedWhileConnected ==
    NoFailingMorph /\ sid <= MaxSline => \A l \in Lines : writers[l] # {} => ndisp[l] > 0

\* The connections of line l in one of the given phases.
ConnsOf(l, phases) == {c \in Conns : at[c] = l /\ phase[c] \in phases}

(* A line whose remote is a server has, for every open() that did not give *)
(* up, exactly one pending open(), one connection or one connection that   *)
(* was reset, whose stale writer is all that is left of it: a connection   *)
(* that the remote closed is replaced once, never doubled and never        *)
(* forgotten, and nothing ever replaces one that was reset (line_handler's *)
(* else, TcpLine.open).                                                    *)
OneConnectionPerOpen ==
    \A l \in Lines : Kind[l] = "client" =>
        opening[l] + Cardinality(ConnsOf(l, {"accepted", "open", "broken"})) = opens[l]

(* A connection to a remote server that was lost, however it was lost, is  *)
(* being replaced (line_handler: "if the remote endpoint is a server try   *)
(* to reconnect").                                                         *)
LostIsReplaced ==
    \A l \in Lines : Kind[l] = "client" =>
        opening[l] + Cardinality(ConnsOf(l, {"accepted", "open"})) = opens[l]

(* A broadcast waiting in the queue of a line is written to every          *)
(* connected client of the line, or the client leaves (dispatch is always  *)
(* running while a client is connected).                                   *)
BroadcastDelivered ==
    \A c, s \in Conns : \A n \in 1..MaxSends :
        (/\ NoFailingMorph /\ sid <= MaxSline
         /\ phase[c] = "open"
         /\ \E i \in DOMAIN queue[at[c]] : LET m == queue[at[c]][i].msg IN
                m.src = s /\ m.seq = n /\ m.dline = 0)
        ~> (\/ phase[c] # "open"
            \/ sid > MaxSline
            \/ \E i \in DOMAIN out[c] : out[c][i].msg.src = s /\ out[c][i].msg.seq = n)

(* After shutdown has detached a line, the line opens no new connection    *)
(* (Junction.detach: "The inverse of Junction.attach").                    *)
DetachedStaysClosed ==
    [][\A c \in Conns : phase[c] # "accepted" /\ phase'[c] = "accepted" => at'[c] \in registry]_vars

(* A message for which the callback returns None is discarded and nothing  *)
(* else happens to the line ("If return None the packet is silently        *)
(* discarded").                                                            *)
NoneIsDiscarded ==
    [][\A l \in Lines : /\ queue[l] # <<>> /\ Outcome(l, Head(queue[l])) = "none"
                        /\ queue'[l] = Tail(queue[l])
                        => ndisp'[l] = ndisp[l]]_vars
=============================================================================
