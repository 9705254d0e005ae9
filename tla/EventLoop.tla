----------------------------- MODULE EventLoop -----------------------------
(***************************************************************************)
(* The sockets of a board: the event loop (eventloop.c), the channels it   *)
(* serves (bocia_mqtt.c, bocia_tcp.c) and the main thread of the hello-mqtt *)
(* application, which connects and reconnects.                             *)
(*                                                                         *)
(* The main thread has a higher priority than the loop: the loop runs only *)
(* while main is blocked, so what main does between two blocking calls is  *)
(* one action, while main may run between any two steps of the loop.       *)
(***************************************************************************)
EXTENDS Integers, Sequences, FiniteSets

CONSTANTS
    Slots,     \* number of entries of fd_map: SBAPI_SOCKETS
    Socks,     \* the sockets of the network processor; numbers are reused
    MaxIps,    \* bound: how often the board acquires an IP address
    MaxCloses, \* bound: how often the remote end closes of its own accord
    MaxErrors  \* bound: how many connections fail with a receive error

ASSUME EventLoopAssumption ==
    /\ Slots \in Nat \ {0}
    /\ IsFiniteSet(Socks)
    /\ 0 \notin Socks
    /\ MaxIps \in Nat /\ MaxCloses \in Nat /\ MaxErrors \in Nat

VARIABLES
    transport, \* what Config.network selects: "mqtt" or "tcp"
    fd,        \* fd_map[i].fd, 0 when the slot is free
    pending,   \* fd_map[i].close_pending
    handler,   \* mqtt_handler: a slot, or 0
    mutex,     \* whether the mutex of the event loop is locked
    loop,      \* where the loop is, its slot and its readfs
    main,      \* where the main thread is
    inbox,     \* the message queue of the main thread
    timer,     \* the retry timer: off, on, linked to itself, or firing for ever
    peer,      \* every socket: free, or what recv on it would return
    asked,     \* history: the sockets main decided to close
    dropped,   \* history: the sockets given up, on an error or without a slot
    forgotten, \* history: the sockets whose slot the loop cleared for another's sake
    stale,     \* history: whether a close request has been left at a free slot
    ips, closes, errors

sockVars == <<peer, asked, dropped, forgotten, stale>>
mainVars == <<main, inbox, timer>>
envVars  == <<transport, ips, closes, errors>>
vars == <<fd, pending, handler, mutex, loop, sockVars, mainVars, envVars>>

Slot == 1..Slots

\* The interrupt handler has not taken the processor for good.
Alive == timer # "hung"

\* The beginning of a round of the loop.
Scanning == [pc |-> "scan", i |-> 1, readfs |-> {}]

LoopSteps == {"off", "scan", "lock", "blocked", "select", "slot", "closed", "check", "recv",
              "ended", "notify"}

TypeOK ==
    /\ transport \in {"mqtt", "tcp"}
    /\ fd \in [Slot -> Socks \cup {0}]
    /\ pending \in [Slot -> BOOLEAN]
    /\ handler \in 0..Slots
    /\ mutex \in BOOLEAN
    /\ loop \in [pc : LoopSteps, i : 1..Slots + 1, readfs : SUBSET Socks]
    /\ main \in {"idle", "disconnecting", "connecting", "subscribing"}
    /\ inbox \in Seq({"IP_ACQUIRED", "SOCK_CLOSED", "RETRY"})
    /\ timer \in {"off", "on", "cycle", "hung"}
    /\ peer \in [Socks -> {"free", "quiet", "data", "eof", "error"}]
    /\ asked \subseteq Socks /\ dropped \subseteq Socks /\ forgotten \subseteq Socks /\ stale \in BOOLEAN
    /\ ips \in 0..MaxIps /\ closes \in 0..MaxCloses /\ errors \in 0..MaxErrors

Init ==
    /\ transport \in {"mqtt", "tcp"}
    /\ fd = [i \in Slot |-> 0] /\ pending = [i \in Slot |-> FALSE]
    /\ handler = 0 /\ mutex = FALSE
    /\ loop = [pc |-> "off", i |-> 1, readfs |-> {}]
    /\ main = "idle" /\ inbox = <<>> /\ timer = "off"
    /\ peer = [s \in Socks |-> "free"] /\ asked = {}
    /\ dropped = {} /\ forgotten = {} /\ stale = FALSE
    /\ ips = 0 /\ closes = 0 /\ errors = 0

-----------------------------------------------------------------------------
(* The network and the other threads                                       *)

\* The sbapi thread starts the loop and tells main.
IpAcquired ==
    /\ Alive /\ ips < MaxIps
    /\ ips' = ips + 1
    /\ loop' = IF loop.pc = "off" THEN Scanning ELSE loop
    /\ inbox' = Append(inbox, "IP_ACQUIRED")
    /\ UNCHANGED <<fd, pending, handler, mutex, sockVars, main, timer, transport, closes, errors>>

\* A packet arrives, the remote end closes, as it does after DISCONNECT, or
\* the connection breaks.
PeerActs(s) ==
    /\ peer[s] = "quiet"
    /\ \/ peer' = [peer EXCEPT ![s] = "data"] /\ UNCHANGED <<closes, errors>>
       \/ peer' = [peer EXCEPT ![s] = "eof"] /\ s \in asked /\ UNCHANGED <<closes, errors>>
       \/ /\ peer' = [peer EXCEPT ![s] = "eof"] /\ s \notin asked
          /\ closes < MaxCloses /\ closes' = closes + 1 /\ UNCHANGED errors
       \/ /\ peer' = [peer EXCEPT ![s] = "error"]
          /\ errors < MaxErrors /\ errors' = errors + 1 /\ UNCHANGED closes
    /\ UNCHANGED <<fd, pending, handler, mutex, loop, asked, dropped, forgotten, stale, mainVars, transport, ips>>

\* The timer's callback sends its message. A timer that is its own successor
\* in the list is shot again and again in the interrupt handler.
TimerFires ==
    /\ timer \in {"on", "cycle"}
    /\ timer' = IF timer = "on" THEN "off" ELSE "hung"
    /\ inbox' = Append(inbox, "RETRY")
    /\ UNCHANGED <<fd, pending, handler, mutex, loop, sockVars, main, envVars>>

-----------------------------------------------------------------------------
(* The main thread                                                         *)

\* RIOT hands a locked mutex over to the thread that waits for it.
UnlockMutex ==
    IF loop.pc = "blocked" THEN loop' = Scanning /\ mutex' = mutex
                           ELSE mutex' = FALSE /\ loop' = loop

\* app_init: xtimer_set_msg does not take the timer off the list first.
ScheduleRetry == timer' = IF timer = "off" THEN "on" ELSE "cycle"

\* Every message the loop and the timer send makes main call app_init. An
\* MQTT connection that is still up is first told to DISCONNECT.
HandleMessage ==
    /\ Alive /\ main = "idle" /\ inbox # <<>>
    /\ inbox' = Tail(inbox)
    /\ main' = IF transport = "mqtt" /\ handler # 0 /\ fd[handler] # 0
                 THEN "disconnecting" ELSE "connecting"
    /\ asked' = IF main' = "disconnecting" THEN asked \cup {fd[handler]} ELSE asked
    /\ UNCHANGED <<fd, pending, handler, mutex, loop, peer, dropped, forgotten, stale, timer, envVars>>

\* Mutant: the socket is closed at once.
CloseSoonNow ==
    /\ Alive /\ main = "disconnecting"
    /\ main' = "connecting"
    /\ fd' = [fd EXCEPT ![handler] = 0]
    /\ peer' = [s \in Socks |-> IF s = fd[handler] THEN "free" ELSE peer[s]]
    /\ asked' = asked \ {fd[handler]}
    /\ UNCHANGED <<handler, pending, mutex, loop, dropped, forgotten, stale, inbox, timer, envVars>>

\* Mutant: an old connection is left to the broker.
CloseSoonNever ==
    /\ Alive /\ main = "disconnecting"
    /\ main' = "connecting"
    /\ UNCHANGED <<fd, handler, pending, mutex, loop, sockVars, inbox, timer, envVars>>

\* DISCONNECT is sent; bocia_close_soon.
CloseSoon ==
    /\ Alive /\ main = "disconnecting"
    /\ main' = "connecting"
    /\ pending' = [pending EXCEPT ![handler] = TRUE]
    /\ stale' = (stale \/ fd[handler] = 0)
    /\ UNCHANGED <<fd, handler, mutex, loop, peer, asked, dropped, forgotten, inbox, timer, envVars>>

\* Mutant: no retry is scheduled.
ConnectFailsQuietly ==
    /\ Alive /\ main = "connecting"
    /\ main' = "idle"
    /\ handler' = 0
    /\ UNCHANGED <<fd, pending, mutex, loop, sockVars, inbox, timer, envVars>>

\* mqtt_connect, or bocia_tcp_connect, has closed what it had opened.
ConnectFails ==
    /\ Alive /\ main = "connecting"
    /\ main' = "idle"
    /\ handler' = 0
    /\ ScheduleRetry
    /\ UNCHANGED <<fd, pending, mutex, loop, sockVars, inbox, envVars>>

FirstFree(i) == fd[i] = 0 /\ \A j \in 1..i - 1 : fd[j] # 0

\* Mutant: the mutex is unlocked only when the loop already waits for it.
RegisterQuiet(s) ==
    \/ \E i \in Slot :
           /\ FirstFree(i)
           /\ fd' = [fd EXCEPT ![i] = s]
           /\ handler' = IF transport = "mqtt" THEN i ELSE handler
           /\ IF loop.pc = "blocked" THEN UnlockMutex ELSE UNCHANGED <<loop, mutex>>
           /\ UNCHANGED <<dropped, timer>>
    \/ /\ \A i \in Slot : fd[i] # 0
       /\ dropped' = dropped \cup {s}
       /\ handler' = 0
       /\ IF transport = "tcp" THEN ScheduleRetry ELSE UNCHANGED timer
       /\ UNCHANGED <<fd, mutex, loop>>

\* bocia_register_handlers puts the socket into the first free slot and wakes
\* the loop; without a free slot the socket is nobody's.
Register(s) ==
    \/ \E i \in Slot :
           /\ FirstFree(i)
           /\ fd' = [fd EXCEPT ![i] = s]
           /\ handler' = IF transport = "mqtt" THEN i ELSE handler
           /\ UnlockMutex
           /\ UNCHANGED <<dropped, timer>>
    \/ /\ \A i \in Slot : fd[i] # 0
       /\ dropped' = dropped \cup {s}
       /\ handler' = 0
       /\ IF transport = "tcp" THEN ScheduleRetry ELSE UNCHANGED timer
       /\ UNCHANGED <<fd, mutex, loop>>

ConnectSucceeds(s) ==
    /\ Alive /\ main = "connecting" /\ peer[s] = "free"
    /\ peer' = [peer EXCEPT ![s] = "quiet"]
    /\ Register(s)
    /\ main' = IF transport = "mqtt" THEN "subscribing" ELSE "idle"
    /\ UNCHANGED <<pending, asked, forgotten, stale, inbox, envVars>>

\* bocia_mqtt_init returns the handler, which may be NULL, to app_init.
Subscribed ==
    /\ Alive /\ main = "subscribing"
    /\ main' = "idle"
    /\ IF handler = 0 THEN ScheduleRetry ELSE UNCHANGED timer
    /\ UNCHANGED <<fd, pending, handler, mutex, loop, sockVars, inbox, envVars>>

-----------------------------------------------------------------------------
(* The event loop                                                          *)

At(pc) == Alive /\ loop.pc = pc
NextSlot == loop' = [pc |-> "slot", i |-> loop.i + 1, readfs |-> loop.readfs]

\* One slot is put into readfs; after the last one the loop selects or, if
\* there is no socket, waits for one.
Scan ==
    /\ At("scan")
    /\ loop' = IF loop.i <= Slots
                 THEN [pc |-> "scan", i |-> loop.i + 1, readfs |-> loop.readfs \cup ({fd[loop.i]} \ {0})]
                 ELSE [loop EXCEPT !.pc = IF loop.readfs = {} THEN "lock" ELSE "select"]
    /\ UNCHANGED <<fd, pending, handler, mutex, sockVars, mainVars, envVars>>

\* mutex_lock, used as a semaphore.
Lock ==
    /\ At("lock")
    /\ IF mutex THEN loop' = [loop EXCEPT !.pc = "blocked"] /\ mutex' = mutex
                ELSE loop' = Scanning /\ mutex' = TRUE
    /\ UNCHANGED <<fd, pending, handler, sockVars, mainVars, envVars>>

\* sl_Select returns the readable sockets of readfs, or none after 10 s.
Select ==
    /\ At("select")
    /\ LET ready == {s \in loop.readfs : peer[s] \in {"data", "eof", "error"}} IN
           loop' = IF ready = {} THEN Scanning
                                 ELSE [pc |-> "slot", i |-> 1, readfs |-> ready]
    /\ UNCHANGED <<fd, pending, handler, mutex, sockVars, mainVars, envVars>>

RoundEnds ==
    /\ At("slot") /\ loop.i > Slots
    /\ loop' = Scanning
    /\ UNCHANGED <<fd, pending, handler, mutex, sockVars, mainVars, envVars>>

\* sl_Close of a socket whose close was requested.
ClosePending ==
    /\ At("slot") /\ loop.i <= Slots /\ pending[loop.i]
    /\ peer' = [s \in Socks |-> IF s = fd[loop.i] THEN "free" ELSE peer[s]]
    /\ asked' = asked \ {fd[loop.i]}
    /\ loop' = [loop EXCEPT !.pc = "closed"]
    /\ UNCHANGED <<fd, pending, handler, mutex, dropped, forgotten, stale, mainVars, envVars>>

\* The slot is cleared, even if the request was a stale one, nothing was closed
\* and main has put a new socket there meanwhile: that one is forgotten.
Closed ==
    /\ At("closed")
    /\ fd' = [fd EXCEPT ![loop.i] = 0]
    /\ pending' = [pending EXCEPT ![loop.i] = FALSE]
    /\ forgotten' = forgotten \cup {s \in Socks \ dropped :
                        /\ s = fd[loop.i] /\ peer[s] # "free"
                        /\ \A j \in Slot \ {loop.i} : fd[j] # s}
    /\ loop' = [loop EXCEPT !.pc = "check"]
    /\ UNCHANGED <<handler, mutex, peer, asked, dropped, stale, mainVars, envVars>>

\* The channel's handler is called if its socket is readable.
CheckSlot ==
    /\ \/ At("check")
       \/ At("slot") /\ loop.i <= Slots /\ ~pending[loop.i]
    /\ IF fd[loop.i] \in loop.readfs THEN loop' = [loop EXCEPT !.pc = "recv"] ELSE NextSlot
    /\ UNCHANGED <<fd, pending, handler, mutex, sockVars, mainVars, envVars>>

\* Mutant: main is told that the socket is closed after every message.
ReceiveDataClosed ==
    /\ At("recv") /\ peer[fd[loop.i]] = "data"
    /\ peer' = [peer EXCEPT ![fd[loop.i]] = "quiet"]
    /\ inbox' = Append(inbox, "SOCK_CLOSED")
    /\ NextSlot
    /\ UNCHANGED <<fd, pending, handler, mutex, asked, dropped, forgotten, stale, main, timer, envVars>>

\* A message is received and handled.
ReceiveData ==
    /\ At("recv") /\ peer[fd[loop.i]] = "data"
    /\ peer' = [peer EXCEPT ![fd[loop.i]] = "quiet"]
    /\ NextSlot
    /\ UNCHANGED <<fd, pending, handler, mutex, asked, dropped, forgotten, stale, mainVars, envVars>>

\* Mutant: the socket is forgotten without being closed.
ReceiveEofOpen ==
    /\ At("recv") /\ peer[fd[loop.i]] = "eof"
    /\ loop' = [loop EXCEPT !.pc = "ended"]
    /\ UNCHANGED <<fd, pending, handler, mutex, sockVars, mainVars, envVars>>

\* recv returns 0: the handler closes the socket.
ReceiveEof ==
    /\ At("recv") /\ peer[fd[loop.i]] = "eof"
    /\ peer' = [peer EXCEPT ![fd[loop.i]] = "free"]
    /\ asked' = asked \ {fd[loop.i]}
    /\ loop' = [loop EXCEPT !.pc = "ended"]
    /\ UNCHANGED <<fd, pending, handler, mutex, dropped, forgotten, stale, mainVars, envVars>>

\* recv returns an error: the MQTT handler forgets the socket without closing
\* it, the TCP handler does nothing.
ReceiveError ==
    /\ At("recv") /\ peer[fd[loop.i]] = "error"
    /\ IF transport = "mqtt"
         THEN dropped' = dropped \cup {fd[loop.i]} /\ loop' = [loop EXCEPT !.pc = "ended"]
         ELSE NextSlot /\ UNCHANGED dropped
    /\ UNCHANGED <<fd, pending, handler, mutex, peer, asked, forgotten, stale, mainVars, envVars>>

Ended ==
    /\ At("ended")
    /\ fd' = [fd EXCEPT ![loop.i] = 0]
    /\ loop' = [loop EXCEPT !.pc = "notify"]
    /\ stale' = (stale \/ pending[loop.i])
    /\ UNCHANGED <<pending, handler, mutex, peer, asked, dropped, forgotten, mainVars, envVars>>

\* Mutant: the thread is told only of sockets it asked to close.
NotifyPending ==
    /\ At("notify")
    /\ inbox' = IF fd[loop.i] = 0 /\ pending[loop.i] THEN Append(inbox, "SOCK_CLOSED") ELSE inbox
    /\ NextSlot
    /\ UNCHANGED <<fd, pending, handler, mutex, sockVars, main, timer, envVars>>

\* BOCIA_SOCK_CLOSED, if the slot has not been taken again.
Notify ==
    /\ At("notify")
    /\ inbox' = IF fd[loop.i] = 0 THEN Append(inbox, "SOCK_CLOSED") ELSE inbox
    /\ NextSlot
    /\ UNCHANGED <<fd, pending, handler, mutex, sockVars, main, timer, envVars>>

Loop == \/ Scan \/ Lock \/ Select \/ RoundEnds \/ ClosePending \/ Closed \/ CheckSlot
        \/ ReceiveData \/ ReceiveEof \/ ReceiveError \/ Ended \/ Notify
Main == HandleMessage \/ CloseSoon \/ ConnectFails \/ (\E s \in Socks : ConnectSucceeds(s)) \/ Subscribed
Environment == IpAcquired \/ (\E s \in Socks : PeerActs(s)) \/ TimerFires

Next == Loop \/ Main \/ Environment
Spec == Init /\ [][Next]_vars

(* Every thread that can run is scheduled, the timer fires, and a broker   *)
(* that is asked again and again accepts the connection.                   *)
Fairness == /\ WF_vars(Loop) /\ WF_vars(TimerFires)
            /\ WF_vars(HandleMessage \/ CloseSoon \/ Subscribed)
            /\ SF_vars(\E s \in Socks : ConnectSucceeds(s))
            /\ WF_vars(\E s \in Socks : ConnectSucceeds(s) \/ ConnectFails)
FairSpec == Spec /\ Fairness

-----------------------------------------------------------------------------
(* The loop sleeps only while there is no socket to listen to: a channel   *)
(* registered while it decides to sleep wakes it (bocia_register_handlers, *)
(* the mutex of bocia_loop_run).                                           *)
NoLostWakeup == loop.pc = "blocked" => \A i \in Slot : fd[i] = 0

(* No socket is closed while the loop selects on it, which would hang      *)
(* sl_Select (bocia_close_soon).                                           *)
ClosedOutsideSelect ==
    [][\A s \in Socks : peer[s] # "free" /\ peer'[s] = "free" =>
           ~(loop.pc = "select" /\ s \in loop.readfs)]_vars

\* The loop works on slots of the table and receives from their sockets; what
\* it has found out on its way to sleep still holds, or the mutex has been
\* unlocked since.
ScanInv ==
    /\ loop.pc \in {"closed", "check", "recv", "ended", "notify"} => loop.i <= Slots
    /\ loop.pc = "recv" => fd[loop.i] \in loop.readfs
    /\ loop.pc = "scan" /\ mutex =>
           \A j \in Slot : j < loop.i => fd[j] \in loop.readfs \cup {0}
    /\ loop.pc = "lock" /\ mutex => \A j \in Slot : fd[j] = 0
    /\ NoLostWakeup

(* The board holds one MQTT session: whatever the messages and failures in *)
(* flight, at most one channel is in use and not about to be closed        *)
(* (bocia_mqtt_init).                                                      *)
OneSession ==
    transport = "mqtt" => Cardinality({i \in Slot : fd[i] # 0 /\ ~pending[i]}) <= 1

(* Every open socket is in a slot or was given up after a receive error or *)
(* for want of a slot; no other close or end loses one, except that the    *)
(* close of a stale request may: main registers a socket in the free slot  *)
(* while the loop is in sl_Close, and the loop then clears the slot         *)
(* (sock_receive, bocia_tcp_receive, bocia_loop_run).                      *)
SocketsAccounted ==
    \A s \in Socks : peer[s] # "free" =>
        \/ s \in dropped
        \/ stale /\ s \in forgotten
        \/ \E i \in Slot : fd[i] = s

(* While there is no connection something is on its way that leads to one: *)
(* main is at work, a message or the timer is pending, or the loop is      *)
(* about to send one ("connection failed or socket closed by peer: try to  *)
(* reconnect", hello-mqtt/main.c).                                         *)
KeepsTrying ==
    ips > 0 => /\ Alive
               /\ \/ main # "idle" \/ inbox # <<>> \/ timer = "on"
                  \/ loop.pc \in {"ended", "notify"}
                  \/ \E i \in Slot : fd[i] # 0 /\ ~pending[i]

(* The same, with two exceptions: a close request, meant for a channel     *)
(* that the loop has closed meanwhile, has been left for the next one in   *)
(* its slot; or the retry timer was set again while it was running, and    *)
(* the interrupt handler takes, or has taken, the processor for good.      *)
KeepsTryingUnlessStale == ~stale /\ timer \in {"off", "on"} => KeepsTrying

(* Lost and refused connections alone never set the retry timer while it   *)
(* is running: one thing at a time starts main's next attempt, until a     *)
(* second address is acquired (app_init, xtimer_set_msg).                  *)
OneRetryAtATime == ips <= 1 => timer \in {"off", "on"}

(* A board that acquires its address once is connected again and again     *)
(* until nothing disturbs it any more: a lost MQTT connection is replaced. *)
Connected == \E i \in Slot : fd[i] # 0 /\ ~pending[i] /\ peer[fd[i]] \in {"quiet", "data"}
Reconnects == transport = "mqtt" /\ <>[](ips = 1) => <>[]Connected
=============================================================================
