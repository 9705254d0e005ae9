------------------------------- MODULE Sbapi -------------------------------
(***************************************************************************)
(* The network thread of a board (sbapi_cc3200.c).  Events of the network  *)
(* processor are read by whichever thread holds the lock of its driver:    *)
(* the spawn thread, or a thread inside a call of its own.  The handler of *)
(* an event sets the status bits and sends a message to the sbapi thread,  *)
(* which tells main; a timer gives sbapi a time slot until an IP address   *)
(* is there, and after MaxSlots of them it starts SmartConfig.             *)
(*                                                                         *)
(* Messages are RIOT's: a thread that sends to a full queue waits for      *)
(* room, an interrupt does not, nor does a thread that sends to itself.    *)
(***************************************************************************)
EXTENDS Integers, Sequences, SequencesExt, FiniteSets

CONSTANTS
    MaxSlots,   \* MAX_CONN_COUNTER_VAL
    Size,       \* SBAPI_MSG_QUEUE_SIZE, of the queues of sbapi and of main
    Roles,      \* the roles the network processor may start in
    MaxEvents,  \* bound: events of the network
    MaxOthers   \* bound: other messages that make main connect

ASSUME SbapiAssumption ==
    /\ MaxSlots \in Nat \ {0} /\ Size \in Nat \ {0}
    /\ Roles \subseteq {"sta", "ap"} /\ MaxEvents \in Nat /\ MaxOthers \in Nat

VARIABLES
    role,      \* nwp.role
    link,      \* the link as the network processor has it: "none", "wlan" or "ip"
    ip,        \* STATUS_BIT_IP_ACQUIRED of nwp.status
    smart,     \* options & SBAPI_SMARTCONFIG
    lock,      \* who holds the driver's lock: a context or "free"
    hand,      \* hand[c]: the message the handler has to send in context c, or "none"
    main,      \* where main is
    mainQ,     \* the message queue of main
    sb,        \* where sbapi is; "policy", "smart": in a call; "panic": in PANIC's loop
    out,       \* the message sbapi has to send to main
    sbQ,       \* the message queue of sbapi
    counter,   \* counter of _sbapi_loop
    timer,     \* sig_tim is set
    callback,  \* what sig_tim sends: "slot" or "active"
    loop,      \* bocia_loop_init has created the loop thread
    told,      \* history: what sbapi has told main
    read,      \* history: the link changes read and not lost
    lost,      \* history: how events and ticks were lost: "early", "self", "tick"
    ipRoles,   \* history: the roles in which an IP address was acquired
    offers,    \* history: how often SmartConfig was started
    events, others

nwpVars   == <<role, link, ip, lock, hand>>
mainVars  == <<main, mainQ>>
sbVars    == <<sb, out, counter, loop>>
timerVars == <<timer, callback>>
ghostVars == <<told, read, lost, ipRoles, offers>>
boundVars == <<events, others>>
vars == <<nwpVars, smart, mainVars, sbVars, sbQ, timerVars, ghostVars, boundVars>>

Contexts == {"spawn", "main", "sbapi"}
LinkEvents == {"down", "up"}            \* WLAN_DISCONNECTED and IP_ACQUIRED
Messages == LinkEvents \cup {"wlan"}    \* and WLAN_CONNECTED
Ticks == {"slot", "active"}

TypeOK ==
    /\ role \in {"sta", "ap"} /\ link \in {"none", "wlan", "ip"} /\ ip \in BOOLEAN /\ smart \in BOOLEAN
    /\ lock \in Contexts \cup {"free"} /\ hand \in [Contexts -> Messages \cup {"none"}]
    /\ main \in {"boot", "policy", "create", "mode", "recv", "call"}
    /\ mainQ \in Seq(LinkEvents \cup {"other"}) /\ Len(mainQ) <= Size
    /\ sb \in {"off", "recv", "policy", "smart", "tell", "panic"} /\ out \in LinkEvents \cup {"none"}
    /\ sbQ \in Seq(Messages \cup Ticks) /\ Len(sbQ) <= Size
    /\ counter \in 0..MaxSlots /\ timer \in BOOLEAN /\ callback \in Ticks /\ loop \in BOOLEAN
    /\ told \in Seq(LinkEvents) /\ read \in Seq(LinkEvents)
    /\ lost \subseteq {"early", "self", "tick"} /\ ipRoles \subseteq {"sta", "ap"} /\ offers \in Nat
    /\ events \in 0..MaxEvents /\ others \in 0..MaxOthers

Init ==
    /\ role \in Roles /\ link = "none" /\ ip = FALSE /\ smart \in BOOLEAN
    /\ lock = "free" /\ hand = [c \in Contexts |-> "none"]
    /\ main = "boot" /\ mainQ = <<>> /\ sb = "off" /\ out = "none" /\ sbQ = <<>>
    /\ counter = 0 /\ timer = FALSE /\ callback = "slot" /\ loop = FALSE
    /\ told = <<>> /\ read = <<>> /\ lost = {} /\ ipRoles = {} /\ offers = 0
    /\ events = 0 /\ others = 0

-----------------------------------------------------------------------------
\* sbapi_init: the driver and its spawn thread are started, then a command sets
\* the policy, then the thread is created, which sets its timer.
Start ==
    /\ main = "boot" /\ main' = "policy"
    /\ UNCHANGED <<nwpVars, smart, mainQ, sbVars, sbQ, timerVars, ghostVars, boundVars>>

CreateThread ==
    /\ main = "create" /\ main' = IF role = "ap" THEN "mode" ELSE "recv"
    /\ sb' = "recv" /\ timer' = TRUE
    /\ UNCHANGED <<nwpVars, smart, mainQ, out, counter, loop, sbQ, callback, ghostVars, boundVars>>

\* A thread calls the network processor: it waits for the lock, and it holds it
\* until the answer has come.  While sbapi, which is more urgent, is in the loop
\* of PANIC main does not run.
InCall(c) == \/ c = "main" /\ main \in {"policy", "mode", "call"}
             \/ c = "sbapi" /\ sb \in {"policy", "smart"}

Call(c) ==
    /\ InCall(c) /\ sb # "panic" /\ lock = "free" /\ lock' = c
    /\ UNCHANGED <<role, link, ip, hand, smart, mainVars, sbVars, sbQ, timerVars, ghostVars, boundVars>>

\* main's call returns.  sbapi_set_mode restarts the network processor as a
\* station: nothing touches nwp.status.
MainReturns ==
    /\ lock = "main" /\ hand["main"] = "none" /\ lock' = "free"
    /\ main' = IF main = "policy" THEN "create" ELSE "recv"
    /\ IF main = "mode" THEN role' = "sta" /\ link' = "none" ELSE UNCHANGED <<role, link>>
    /\ UNCHANGED <<ip, hand, smart, mainQ, sbVars, sbQ, timerVars, ghostVars, boundVars>>

-----------------------------------------------------------------------------
\* The handlers of the network's events: SimpleLinkWlanEventHandler and
\* SimpleLinkNetAppEventHandler.  An access point has its address at once.
Happens(e) ==
    CASE e = "wlan" -> role = "sta" /\ link = "none" /\ link' = "wlan"
      [] e = "up"   -> link = (IF role = "ap" THEN "none" ELSE "wlan") /\ link' = "ip"
      [] e = "down" -> role = "sta" /\ link # "none" /\ link' = "none"

\* Mutant of HandleEvent: the spawn thread reads without the lock.
HandleEventNoLock(c, e) ==
    /\ main # "boot" /\ events < MaxEvents /\ events' = events + 1
    /\ c = "spawn" \/ lock = c
    /\ hand[c] = "none" /\ Happens(e)
    /\ lock' = c
    /\ ip' = CASE e = "up" -> TRUE [] e = "down" -> FALSE [] e = "wlan" -> ip
    /\ hand' = [hand EXCEPT ![c] = e]
    /\ read' = IF e \in LinkEvents THEN Append(read, e) ELSE read
    /\ ipRoles' = IF e = "up" THEN ipRoles \cup {role} ELSE ipRoles
    /\ UNCHANGED <<role, smart, mainVars, sbVars, sbQ, timerVars, told, lost, offers, others>>

\* Mutant of HandleEvent: a lost link leaves the IP bit set.
HandleEventKeepsIp(c, e) ==
    /\ main # "boot" /\ events < MaxEvents /\ events' = events + 1
    /\ IF c = "spawn" THEN lock = "free" ELSE lock = c
    /\ hand[c] = "none" /\ Happens(e)
    /\ lock' = c
    /\ ip' = CASE e = "up" -> TRUE [] OTHER -> ip
    /\ hand' = [hand EXCEPT ![c] = e]
    /\ read' = IF e \in LinkEvents THEN Append(read, e) ELSE read
    /\ ipRoles' = IF e = "up" THEN ipRoles \cup {role} ELSE ipRoles
    /\ UNCHANGED <<role, smart, mainVars, sbVars, sbQ, timerVars, told, lost, offers, others>>

\* The spawn thread, or a thread in a call of its own, reads an event.
HandleEvent(c, e) ==
    /\ main # "boot" /\ events < MaxEvents /\ events' = events + 1
    /\ IF c = "spawn" THEN lock = "free" ELSE lock = c
    /\ hand[c] = "none" /\ Happens(e)
    /\ lock' = c
    /\ ip' = CASE e = "up" -> TRUE [] e = "down" -> FALSE [] e = "wlan" -> ip
    /\ hand' = [hand EXCEPT ![c] = e]
    /\ read' = IF e \in LinkEvents THEN Append(read, e) ELSE read
    /\ ipRoles' = IF e = "up" THEN ipRoles \cup {role} ELSE ipRoles
    /\ UNCHANGED <<role, smart, mainVars, sbVars, sbQ, timerVars, told, lost, offers, others>>

\* msg_send(&msg, sbapi.main_pid): before the thread exists the message is gone,
\* and so it is when sbapi sends to its own full queue.
Post(c) ==
    LET early == sb = "off"
        self  == c = "sbapi" /\ Len(sbQ) = Size
    IN  /\ hand[c] # "none"
        /\ early \/ self \/ Len(sbQ) < Size
        /\ sbQ' = IF early \/ self THEN sbQ ELSE Append(sbQ, hand[c])
        /\ lost' = lost \cup (IF early THEN {"early"} ELSE IF self THEN {"self"} ELSE {})
        /\ read' = IF (early \/ self) /\ hand[c] \in LinkEvents THEN Front(read) ELSE read
        /\ hand' = [hand EXCEPT ![c] = "none"]
        /\ lock' = IF c = "spawn" THEN "free" ELSE lock
        /\ UNCHANGED <<role, link, ip, smart, mainVars, sbVars, timerVars, told, ipRoles, offers, boundVars>>

\* retry_connection and smartconfig_still_active run in the timer's interrupt.
Tick ==
    /\ timer /\ timer' = FALSE
    /\ IF Len(sbQ) < Size THEN sbQ' = Append(sbQ, callback) /\ UNCHANGED lost
                          ELSE lost' = lost \cup {"tick"} /\ UNCHANGED sbQ
    /\ UNCHANGED <<nwpVars, smart, mainVars, sbVars, callback, told, read, ipRoles, offers, boundVars>>

-----------------------------------------------------------------------------
\* _sbapi_loop: sbapi takes a message of kind m.
Receive(m) == sb = "recv" /\ sbQ # <<>> /\ Head(sbQ) = m /\ sbQ' = Tail(sbQ)

Active ==
    /\ Receive("active") /\ timer' = ~ip
    /\ UNCHANGED <<nwpVars, smart, mainVars, sbVars, callback, ghostVars, boundVars>>

\* Mutant of Slot: the last slot does not set the timer again.
SlotNoRearm ==
    LET last == counter = MaxSlots
    IN  /\ Receive("slot")
        /\ counter' = IF last THEN 0 ELSE IF ip THEN counter ELSE counter + 1
        /\ sb' = IF last /\ smart THEN "policy" ELSE "recv"
        /\ timer' = ~last /\ ~ip
        /\ UNCHANGED <<nwpVars, smart, mainVars, out, loop, callback, ghostVars, boundVars>>

\* Mutant of Slot: the option is tested the wrong way round.
SlotOffersUnasked ==
    LET last == counter = MaxSlots
    IN  /\ Receive("slot")
        /\ counter' = IF last THEN 0 ELSE IF ip THEN counter ELSE counter + 1
        /\ sb' = IF last /\ ~smart THEN "policy" ELSE "recv"
        /\ timer' = IF last THEN smart ELSE ~ip
        /\ UNCHANGED <<nwpVars, smart, mainVars, out, loop, callback, ghostVars, boundVars>>

\* AUTO_CONNECTION_TIME_SLOT.  The timer is set again after SmartConfig was
\* started, and after the last slot even when there is an address.
Slot ==
    LET last == counter = MaxSlots
    IN  /\ Receive("slot")
        /\ counter' = IF last THEN 0 ELSE IF ip THEN counter ELSE counter + 1
        /\ sb' = IF last /\ smart THEN "policy" ELSE "recv"
        /\ timer' = IF last THEN ~smart ELSE ~ip
        /\ UNCHANGED <<nwpVars, smart, mainVars, out, loop, callback, ghostVars, boundVars>>

\* smartconfig_connect: sl_WlanPolicySet, then sl_WlanSmartConfigStart.
PolicySet ==
    /\ lock = "sbapi" /\ hand["sbapi"] = "none" /\ lock' = "free"
    /\ sb = "policy" /\ sb' = "smart"
    /\ UNCHANGED <<role, link, ip, hand, smart, mainVars, out, counter, loop, sbQ, timerVars,
                   ghostVars, boundVars>>

SmartStarted ==
    /\ lock = "sbapi" /\ hand["sbapi"] = "none" /\ lock' = "free"
    /\ sb = "smart" /\ sb' = "recv" /\ callback' = "active" /\ timer' = TRUE /\ offers' = offers + 1
    /\ UNCHANGED <<role, link, ip, hand, smart, mainVars, out, counter, loop, sbQ,
                   told, read, lost, ipRoles, boundVars>>

\* One of the two fails: PANIC(NAMESPACE, SMARTCONFIG_ERR) never returns.
SmartFails ==
    /\ lock = "sbapi" /\ hand["sbapi"] = "none" /\ lock' = "free"
    /\ sb' = "panic"
    /\ UNCHANGED <<role, link, ip, hand, smart, mainVars, out, counter, loop, sbQ, timerVars,
                   ghostVars, boundVars>>

WlanConnected ==
    /\ Receive("wlan")
    /\ UNCHANGED <<nwpVars, smart, mainVars, sbVars, timerVars, ghostVars, boundVars>>

\* Mutant of LinkChange: a lost link is not passed on.
LinkChangeUpOnly ==
    \E e \in LinkEvents :
        /\ Receive(e) /\ sb' = (IF e = "up" THEN "tell" ELSE "recv") /\ out' = e /\ loop' = (loop \/ e = "up")
        /\ UNCHANGED <<nwpVars, smart, mainVars, counter, timerVars, ghostVars, boundVars>>

\* WLAN_DISCONNECTED and IP_ACQUIRED go on to main; the latter starts the loop.
LinkChange ==
    \E e \in LinkEvents :
        /\ Receive(e) /\ sb' = "tell" /\ out' = e /\ loop' = (loop \/ e = "up")
        /\ UNCHANGED <<nwpVars, smart, mainVars, counter, timerVars, ghostVars, boundVars>>

Tell ==
    /\ sb = "tell" /\ Len(mainQ) < Size
    /\ mainQ' = Append(mainQ, out) /\ told' = Append(told, out)
    /\ sb' = "recv" /\ out' = "none"
    /\ UNCHANGED <<nwpVars, smart, main, counter, loop, sbQ, timerVars,
                   read, lost, ipRoles, offers, boundVars>>

-----------------------------------------------------------------------------
\* main of hello-mqtt: it connects when the IP is up, after a retry and when a
\* socket was closed; a link that went down it only logs.
MainReceive ==
    /\ main = "recv" /\ sb # "panic" /\ mainQ # <<>> /\ mainQ' = Tail(mainQ)
    /\ main' = IF Head(mainQ) = "down" THEN "recv" ELSE "call"
    /\ UNCHANGED <<nwpVars, smart, sbVars, sbQ, timerVars, ghostVars, boundVars>>

\* The retry timer, the button and the loop send to main as well.
Other ==
    /\ main \in {"recv", "call"} /\ others < MaxOthers /\ others' = others + 1
    /\ Len(mainQ) < Size /\ mainQ' = Append(mainQ, "other")
    /\ UNCHANGED <<nwpVars, smart, main, sbVars, sbQ, timerVars, ghostVars, events>>

SbapiStep == Active \/ Slot \/ PolicySet \/ SmartStarted \/ SmartFails \/ WlanConnected \/ LinkChange \/ Tell
MainStep == Start \/ CreateThread \/ MainReturns \/ MainReceive

Next ==
    \/ SbapiStep \/ MainStep \/ Tick \/ Other
    \/ \E c \in Contexts : Call(c) \/ Post(c) \/ \E e \in Messages : HandleEvent(c, e)

Spec == Init /\ [][Next]_vars

\* RIOT runs a thread that can run once the more urgent ones wait, an armed timer
\* fires and the network processor answers; the network owes no event.
Fairness ==
    /\ WF_vars(SbapiStep) /\ WF_vars(MainStep) /\ WF_vars(Tick)
    /\ \A c \in Contexts : WF_vars(Call(c)) /\ WF_vars(Post(c))

FairSpec == Spec /\ Fairness

-----------------------------------------------------------------------------
\* How many of the first i entries of a queue are of one of the kinds.
CountIn(q, kinds, i) == Cardinality({j \in 1..i : q[j] \in kinds})

\* Link changes on their way to main: in the hands of a handler, and all of them.
InHand == {c \in Contexts : hand[c] \in LinkEvents}
OnTheWay == (IF sb = "tell" THEN 1 ELSE 0) + CountIn(sbQ, LinkEvents, Len(sbQ)) + Cardinality(InHand)

\* The cycles that no thread can leave: an event's handler, with the driver's lock,
\* waits for room in sbapi's queue, and sbapi waits for that lock to start
\* SmartConfig, or for room in the queue of main, which waits for the lock or is
\* the thread the handler runs in.
Stuck ==
    /\ lock \in {"spawn", "main"} /\ hand[lock] # "none" /\ Len(sbQ) = Size
    /\ sb \in {"policy", "smart"} \/ (sb = "tell" /\ Len(mainQ) = Size /\ InCall("main"))

\* Every link change that was read once sbapi exists reaches main, once and in
\* order, whoever reads it: the handler in any context (sbapi_cc3200.c:139-395),
\* sbapi's own queue and its message to main (823-842) lose none, except that
\* sbapi, reading in its own call, may find its own queue full.
ToldInOrder ==
    LET next == Len(told) + (IF sb = "tell" THEN 1 ELSE 0)
    IN  /\ Len(read) = Len(told) + OnTheWay
        /\ \A k \in DOMAIN told : read[k] = told[k]
        /\ sb = "tell" => read[next] = out
        /\ \A i \in DOMAIN sbQ : sbQ[i] \in LinkEvents => read[next + CountIn(sbQ, LinkEvents, i)] = sbQ[i]
        /\ \A c \in InHand : Last(read) = hand[c]

\* Once nothing is on its way, what main was told last agrees with the status bit
\* that sbapi_is_connected reads (sbapi_cc3200.c:753), whatever the role is, unless
\* an event came before the thread or found sbapi's own queue full.
BitAndMessageAgree ==
    OnTheWay = 0 /\ lost \cap {"early", "self"} = {} => (ip <=> told # <<>> /\ Last(told) = "up")

\* Until an address is there the probing goes on: the timer runs, its tick is
\* queued or sbapi is starting SmartConfig, never two of them (a second tick would
\* count slots twice as fast).  Only a full queue (sbapi_cc3200.c:640-656) ends it
\* and a call of smartconfig_connect that fails (808-810).
Probes == (IF timer THEN 1 ELSE 0) + CountIn(sbQ, Ticks, Len(sbQ))
              + (IF sb \in {"policy", "smart"} THEN 1 ELSE 0)
ProbingGoesOn ==
    /\ Probes <= 1
    /\ (sb \notin {"off", "panic"} /\ ipRoles = {} /\ "tick" \notin lost) => Probes = 1

\* The main thread hears of every link change that is not lost, or the board has
\* come to a cycle of Stuck (the blocking sends of the handlers, sbapi_cc3200.c:174, 205
\* and 351, and of the loop, 826 and 842) or to the PANIC of 809.
MainHears ==
    \A n \in 1..MaxEvents :
        (Len(read) >= n) ~> (Len(told) >= n \/ Len(read) < n \/ Stuck \/ sb = "panic")

\* Without an address SmartConfig is started in the end, or starting it fails: its
\* policy cannot be set (473) or it cannot be started (480), which ends in PANIC.
SmartConfigOffered ==
    (smart /\ sb # "off") ~> (offers > 0 \/ ipRoles # {} \/ "tick" \in lost \/ Stuck \/ sb = "panic")

\* The comment at sbapi_cc3200.c:33-37: after MAX_CONN_COUNTER_VAL periods the
\* device starts SmartConfig.  Said of a station that never had an address.
StationGetsSmartConfig ==
    (smart /\ sb # "off") ~>
        (offers > 0 \/ "sta" \in ipRoles \/ "tick" \in lost \/ Stuck \/ sb = "panic")

=============================================================================
