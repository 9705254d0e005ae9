------------------------------ MODULE SlDriver ------------------------------
(***************************************************************************)
(* The driver of the network processor (simplelink/source/driver.c) over   *)
(* the OS layer of the board (oslib/osi_riot.c): the threads that call it, *)
(* its interrupt and its spawn thread.                                     *)
(*                                                                         *)
(* A message of the network processor is read by the thread that waits for *)
(* the response to its command, or by the spawn thread, under the global   *)
(* lock.  A call whose result comes later waits on an object of a pool; a  *)
(* call with data waits until the network processor has a buffer for it.   *)
(*                                                                         *)
(* A critical section of the protection lock is one step, and so is the    *)
(* write of a message.  The network processor is external.                 *)
(***************************************************************************)
EXTENDS Integers, Sequences, SequencesExt, FiniteSets

CONSTANTS
    Threads,   \* the threads that call the driver
    Calls,     \* the calls: [kind |-> k, sock |-> s]
    NoSock,    \* SL_MAX_SOCKETS: the call is not about a socket
    Pool,      \* MAX_CONCURRENT_ACTIONS
    SpawnSize, \* QUEUE_SIZE_SLSPAWN
    Buffers,   \* transmit buffers of the network processor
    MaxCalls   \* bound: calls and events of the network

Kinds == {"cmd", "connect", "select", "recv", "send"}
\* The calls whose result comes later, in a message of their own.
Late == {"connect", "select", "recv"}
FlowMin == 1   \* FLOW_CONT_MIN

ASSUME SlDriverAssumption ==
    /\ \A c \in Calls : DOMAIN c = {"kind", "sock"} /\ c.kind \in Kinds
    /\ Pool \in Nat \ {0} /\ SpawnSize \in Nat \ {0} /\ Buffers \in Nat \ 0..2
    /\ MaxCalls \in Nat
    /\ {"free", "spawn"} \cap Threads = {}

\* Each thread and one interrupt have room in the queue of the spawn thread: main,
\* sbapi, the event loop and the UART call the driver, and the queue has 8 entries.
ASSUME SpawnAssumption == IsFiniteSet(Threads) /\ Cardinality(Threads) < SpawnSize

NoCall == [kind |-> "none", sock |-> NoSock]
Objects == 1..Pool

VARIABLES
    lock,     \* GlobalLockObj: who holds it, or "free"
    txLock,   \* TxLockObj
    pc,       \* pc[t]: where thread t is
    call,     \* call[t]: the call of t
    own,      \* own[t]: the pool object of t, or 0
    status,   \* status[t]: the response to t's command was no error
    free, active, pending, \* the lists of pool objects, the head first
    bitmap,   \* ActiveActionsBitmap: the sockets and actions in progress
    objCall,  \* objCall[o]: ActionID and AdditionalData of object o
    signalled, \* the pool objects whose SyncObj is signalled
    waited,   \* IsCmdRespWaited
    cmdSync,  \* CmdSyncObj is signalled
    txSync,   \* TxSyncObj is signalled
    txCnt,    \* TxPoolCnt
    unread,   \* RxIrqCnt - RxDoneCnt
    masked,   \* the interrupt is masked
    sp,       \* where the spawn thread is
    spawnQ,   \* entries in its message queue
    last,     \* the message read last: its class and opcode
    found,    \* ActionIndex: the active object it is for, or 0
    asked,    \* network processor: the command it has to answer
    due,      \* network processor: the calls it has to complete
    wire,     \* network processor: its messages, oldest first
    raised,   \* network processor: for how many of them it has interrupted
    buffers,  \* network processor: free transmit buffers
    fault,    \* history: what went wrong
    calls     \* history: calls and events so far

lockVars == <<lock, txLock>>
thrVars  == <<pc, call, own, status>>
poolVars == <<free, active, pending, bitmap, objCall, signalled>>
rxVars   == <<waited, cmdSync, unread, masked, sp, spawnQ, last, found>>
txVars   == <<txSync, txCnt>>
nwpVars  == <<asked, due, wire, raised, buffers>>
vars == <<lockVars, thrVars, poolVars, rxVars, txVars, nwpVars, fault, calls>>

Messages == [k : {"resp", "done", "event", "dummy"}, c : Calls \cup {NoCall},
             ok : BOOLEAN]
NoMessage == [k |-> "dummy", c |-> NoCall, ok |-> TRUE]

TypeOK ==
    /\ lock \in Threads \cup {"spawn", "free"} /\ txLock \in Threads \cup {"free"}
    /\ pc \in [Threads -> {"idle", "pool", "pend", "again", "lock", "loop", "sleep", "done",
                           "check", "tx", "txwait", "data", "wait", "release"}]
    /\ call \in [Threads -> Calls \cup {NoCall}] /\ own \in [Threads -> 0..Pool]
    /\ status \in [Threads -> BOOLEAN]
    /\ free \in Seq(Objects) /\ active \in Seq(Objects) /\ pending \in Seq(Objects)
    /\ objCall \in [Objects -> Calls \cup {NoCall}] /\ signalled \subseteq Objects
    /\ waited \in BOOLEAN /\ cmdSync \in BOOLEAN /\ txSync \in BOOLEAN /\ masked \in BOOLEAN
    /\ txCnt \in 0..Buffers /\ unread \in 0..2
    /\ sp \in {"idle", "lock", "read", "done"} /\ spawnQ \in 0..SpawnSize
    /\ last \in Messages /\ found \in 0..Pool
    /\ asked \in Calls \cup {NoCall} /\ due \subseteq Calls
    /\ wire \in Seq(Messages) /\ raised \in 0..Len(wire) /\ buffers \in 0..Buffers
    /\ fault \subseteq {"stray response", "stray completion", "lost spawn", "assert", "overrun"}
    /\ calls \in 0..MaxCalls

\* _SlDrvDriverCBInit, and a first answer has told the number of buffers.
Init ==
    /\ lock = "free" /\ txLock = "free"
    /\ pc = [t \in Threads |-> "idle"] /\ call = [t \in Threads |-> NoCall]
    /\ own = [t \in Threads |-> 0] /\ status = [t \in Threads |-> TRUE]
    /\ free = [i \in Objects |-> i] /\ active = <<>> /\ pending = <<>> /\ bitmap = {}
    /\ objCall = [o \in Objects |-> NoCall] /\ signalled = {}
    /\ waited = FALSE /\ cmdSync = FALSE /\ unread = 0 /\ masked = FALSE
    /\ sp = "idle" /\ spawnQ = 0 /\ last = NoMessage /\ found = 0
    /\ txSync = TRUE /\ txCnt = Buffers
    /\ asked = NoCall /\ due = {} /\ wire = <<>> /\ raised = 0 /\ buffers = Buffers
    /\ fault = {} /\ calls = 0

-----------------------------------------------------------------------------
Goto(t, step) == pc' = [pc EXCEPT ![t] = step]
Go(t, step)   == Goto(t, step) /\ UNCHANGED call
Return(t)     == Goto(t, "idle") /\ call' = [call EXCEPT ![t] = NoCall]

\* The bit of a call in ActiveActionsBitmap.
Key(c) == IF c.sock = NoSock THEN c.kind ELSE c.sock

\* The spawn thread is the most urgent one: it has taken its entry, and the lock
\* if that is free, before another thread goes on.
SpawnFirst == (sp = "idle" /\ spawnQ > 0) \/ (sp = "lock" /\ lock = "free")

Begin(t, c) ==
    /\ pc[t] = "idle" /\ calls < MaxCalls /\ calls' = calls + 1
    /\ call' = [call EXCEPT ![t] = c]
    /\ Goto(t, CASE c.kind = "cmd" -> "lock" [] c.kind = "send" -> "tx" [] OTHER -> "pool")
    /\ UNCHANGED <<lockVars, own, status, poolVars, rxVars, txVars, nwpVars, fault>>

\* _SlDrvWaitForPoolObj.
Activate(t, o) ==
    /\ bitmap' = bitmap \cup {Key(call[t])} /\ active' = <<o>> \o active
    /\ Goto(t, IF call[t].kind = "recv" THEN "tx" ELSE "lock")
    /\ UNCHANGED pending

Suspend(t, o) ==
    /\ pending' = <<o>> \o pending /\ Goto(t, "pend")
    /\ UNCHANGED <<bitmap, active>>

TakeObj(t) ==
    /\ pc[t] = "pool" /\ free # <<>> /\ free' = Tail(free)
    /\ LET o == Head(free)
       IN  /\ own' = [own EXCEPT ![t] = o] /\ objCall' = [objCall EXCEPT ![o] = call[t]]
           /\ IF Key(call[t]) \in bitmap THEN Suspend(t, o) ELSE Activate(t, o)
    /\ UNCHANGED <<lockVars, call, status, signalled, rxVars, txVars, nwpVars, fault, calls>>

PoolEmpty(t) ==
    /\ pc[t] = "pool" /\ free = <<>> /\ Return(t)
    /\ UNCHANGED <<lockVars, own, status, poolVars, rxVars, txVars, nwpVars, fault, calls>>

Woken(t) ==
    /\ pc[t] = "pend" /\ own[t] \in signalled /\ signalled' = signalled \ {own[t]}
    /\ Goto(t, "again")
    /\ UNCHANGED <<lockVars, call, own, status, free, active, pending, bitmap, objCall,
                   rxVars, txVars, nwpVars, fault, calls>>

\* Mutant: the check is not repeated after the wait.
TryOnce(t) ==
    /\ pc[t] = "again" /\ Activate(t, own[t])
    /\ UNCHANGED <<lockVars, call, own, status, free, objCall, signalled, rxVars, txVars,
                   nwpVars, fault, calls>>

TryAgain(t) ==
    /\ pc[t] = "again"
    /\ IF Key(call[t]) \in bitmap THEN Suspend(t, own[t]) ELSE Activate(t, own[t])
    /\ UNCHANGED <<lockVars, call, own, status, free, objCall, signalled, rxVars, txVars,
                   nwpVars, fault, calls>>

\* _SlRemoveFromList: a list of one object is emptied, whatever the object is.
RemoveFromList(list, o) == IF Len(list) = 1 THEN <<>> ELSE RemoveFirst(list, o)

\* The places in the pending list with the action and the socket of an object.
AlikeNone(o) == {}   \* mutant: nobody is woken
Alike(o) == {i \in 1..Len(pending) : objCall[pending[i]] = objCall[o]}

\* _SlDrvReleasePoolObj wakes the pending object found first with the same action
\* and the same socket, then it frees its own.
ReleaseObj(t) ==
    LET o == own[t]
        alike == Alike(o)
    IN  /\ pc[t] = "release" /\ Return(t) /\ own' = [own EXCEPT ![t] = 0]
        /\ IF alike = {} THEN UNCHANGED <<pending, signalled>>
           ELSE \E i \in alike :
                    /\ \A j \in alike : i <= j
                    /\ pending' = RemoveFromList(pending, pending[i])
                    /\ signalled' = signalled \cup {pending[i]}
        /\ bitmap' = bitmap \ {Key(objCall[o])} /\ objCall' = [objCall EXCEPT ![o] = NoCall]
        /\ active' = RemoveFromList(active, o) /\ free' = <<o>> \o free
        /\ UNCHANGED <<lockVars, status, rxVars, txVars, nwpVars, fault, calls>>

-----------------------------------------------------------------------------
\* _SlDrvCmdOp: the command is written under the lock.
SendCommand(t) ==
    /\ pc[t] = "lock" /\ lock = "free" /\ lock' = t
    /\ waited' = TRUE /\ asked' = call[t] /\ Goto(t, "loop")
    /\ UNCHANGED <<txLock, call, own, status, poolVars, cmdSync, unread, masked, sp, spawnQ,
                   last, found, txVars, due, wire, raised, buffers, fault, calls>>

\* _SlDrvMsgReadCmdCtx: nothing is pending, so wait for the interrupt to signal.
Sleep(t) ==
    /\ pc[t] = "loop" /\ waited /\ unread = 0 /\ Goto(t, "sleep")
    /\ UNCHANGED <<lockVars, call, own, status, poolVars, rxVars, txVars, nwpVars, fault, calls>>

Wake(t) ==
    /\ pc[t] = "sleep" /\ cmdSync /\ cmdSync' = FALSE /\ Goto(t, "loop")
    /\ UNCHANGED <<lockVars, call, own, status, poolVars, waited, unread, masked, sp, spawnQ,
                   last, found, txVars, nwpVars, fault, calls>>

\* _SlFindAndSetActiveObj: the active objects with the action and the socket of m.
ActiveFor(m) == {o \in Range(active) : m.k = "done" /\ objCall[o] = m.c}

\* _SlDrvMsgRead by whoever holds the lock: the flow control in the header, the
\* object the message is for, the signal of a receive; the interrupt is unmasked.
Read ==
    LET m == Head(wire)
        hits == ActiveFor(m)
    IN  /\ unread > 0 /\ wire # <<>> /\ wire' = Tail(wire) /\ raised' = raised - 1
        /\ masked' = FALSE /\ last' = m
        /\ txCnt' = buffers /\ txSync' = (txSync \/ buffers > FlowMin)
        /\ found' = IF hits = {} THEN 0 ELSE CHOOSE o \in hits : TRUE
        /\ signalled' = IF m.c.kind = "recv" THEN signalled \cup hits ELSE signalled
        /\ fault' = IF m.k = "done" /\ hits = {} THEN fault \cup {"stray completion"} ELSE fault
        /\ UNCHANGED <<lockVars, call, own, status, free, active, pending, bitmap, objCall,
                       waited, cmdSync, unread, spawnQ, asked, due, buffers, calls>>

ReadInCommand(t) == pc[t] = "loop" /\ waited /\ Read /\ Goto(t, "done") /\ UNCHANGED sp
ReadInSpawn == sp = "read" /\ Read /\ sp' = "done" /\ UNCHANGED pc

\* The rest after the read: RxDoneCnt++, then the response ends the command, and the
\* handler of an asynchronous response signals its object.
Signalled == IF last.k = "done" /\ last.c.kind # "recv" /\ found # 0
             THEN signalled \cup {found} ELSE signalled
Forget == last' = NoMessage /\ found' = 0

DoneInCommand(t) ==
    /\ pc[t] = "done" /\ Goto(t, "loop") /\ unread' = unread - 1
    /\ waited' = (last.k # "resp") /\ cmdSync' = (cmdSync /\ last.k # "resp")
    /\ status' = IF last.k = "resp" THEN [status EXCEPT ![t] = last.ok] ELSE status
    /\ fault' = IF last.k = "resp" /\ last.c # call[t] THEN fault \cup {"stray response"} ELSE fault
    /\ signalled' = Signalled /\ Forget
    /\ UNCHANGED <<lockVars, call, own, free, active, pending, bitmap, objCall, masked, sp, spawnQ,
                   txVars, nwpVars, calls>>

EndCommand(t) ==
    /\ pc[t] = "loop" /\ ~waited /\ lock' = "free" /\ Goto(t, "check")
    /\ UNCHANGED <<txLock, call, own, status, poolVars, rxVars, txVars, nwpVars, fault, calls>>

LeftOverNot == FALSE   \* mutant: no check after the unlock
LeftOver == unread > 0

\* After the unlock: messages left over are for the spawn thread.
CheckUnread(t) ==
    /\ pc[t] = "check" /\ (LeftOver => spawnQ < SpawnSize)
    /\ spawnQ' = IF LeftOver THEN spawnQ + 1 ELSE spawnQ
    /\ IF call[t].kind = "cmd" THEN Return(t) ELSE Go(t, IF status[t] THEN "wait" ELSE "release")
    /\ status' = [status EXCEPT ![t] = TRUE]
    /\ UNCHANGED <<lockVars, own, poolVars, waited, cmdSync, unread, masked, sp,
                   last, found, txVars, nwpVars, fault, calls>>

Completed(t) ==
    /\ pc[t] = "wait" /\ own[t] \in signalled /\ signalled' = signalled \ {own[t]}
    /\ Goto(t, "release")
    /\ UNCHANGED <<lockVars, call, own, status, free, active, pending, bitmap, objCall,
                   rxVars, txVars, nwpVars, fault, calls>>

-----------------------------------------------------------------------------
\* _SlDrvDataReadOp and _SlDrvDataWriteOp: below this many buffers a call waits.
Reserve(t) == IF call[t].kind = "send" THEN FlowMin + 1 ELSE FlowMin

ShortByOne(t) == txCnt < Reserve(t)   \* mutant: one buffer too few is enough
Short(t) == txCnt <= Reserve(t)

LockTx(t) ==
    /\ pc[t] = "tx" /\ txLock = "free" /\ txLock' = t /\ txSync' = FALSE
    /\ Goto(t, IF Short(t) THEN "txwait" ELSE "data")
    /\ UNCHANGED <<lock, call, own, status, poolVars, rxVars, txCnt, nwpVars, fault, calls>>

\* SocketTXFailure: the last send has failed.
SendRefused(t) ==
    /\ pc[t] = "tx" /\ call[t].kind = "send" /\ txLock = "free" /\ txSync' = FALSE /\ Return(t)
    /\ UNCHANGED <<lockVars, own, status, poolVars, rxVars, txCnt, nwpVars, fault, calls>>

WaitTx(t) ==
    /\ pc[t] = "txwait" /\ txSync /\ txSync' = FALSE
    /\ IF call[t].kind = "send" /\ Short(t)
       THEN txLock' = "free" /\ Goto(t, "tx") ELSE UNCHANGED txLock /\ Goto(t, "data")
    /\ UNCHANGED <<lock, call, own, status, poolVars, rxVars, txCnt, nwpVars, fault, calls>>

\* VERIFY_PROTOCOL returns with both locks held.
SendData(t) ==
    /\ pc[t] = "data" /\ lock = "free"
    /\ IF txCnt > Reserve(t)
       THEN /\ txCnt' = txCnt - 1 /\ txLock' = "free" /\ UNCHANGED lock
            /\ buffers' = IF buffers = 0 THEN 0 ELSE buffers - 1
            /\ fault' = IF buffers = 0 THEN fault \cup {"overrun"} ELSE fault
            /\ due' = IF call[t].kind = "recv" THEN due \cup {call[t]} ELSE due
            /\ IF call[t].kind = "recv" THEN Go(t, "wait") ELSE Return(t)
       ELSE /\ lock' = t /\ fault' = fault \cup {"assert"} /\ Return(t)
            /\ UNCHANGED <<txCnt, txLock, buffers, due>>
    /\ UNCHANGED <<own, status, poolVars, rxVars, txSync, asked, wire, raised, calls>>

-----------------------------------------------------------------------------
Mask == masked' = TRUE

\* _SlDrvRxIrqHandler: signal the thread that waits for a response, or spawn.
Interrupt ==
    /\ ~masked /\ raised < Len(wire) /\ raised' = raised + 1
    /\ Mask /\ unread' = unread + 1
    /\ IF waited THEN cmdSync' = TRUE /\ UNCHANGED <<spawnQ, fault>>
       ELSE IF spawnQ < SpawnSize THEN spawnQ' = spawnQ + 1 /\ UNCHANGED <<cmdSync, fault>>
       ELSE fault' = fault \cup {"lost spawn"} /\ UNCHANGED <<cmdSync, spawnQ>>
    /\ UNCHANGED <<lockVars, thrVars, poolVars, waited, sp, last, found, txVars,
                   asked, due, wire, buffers, calls>>

\* vSimpleLinkSpawnTask runs _SlDrvMsgReadSpawnCtx.
SpawnTake ==
    /\ sp = "idle" /\ spawnQ > 0 /\ spawnQ' = spawnQ - 1 /\ sp' = "lock"
    /\ UNCHANGED <<lockVars, thrVars, poolVars, waited, cmdSync, unread, masked, last, found,
                   txVars, nwpVars, fault, calls>>

\* Mutant: the message may have been read in the meantime.
SpawnLockBlind ==
    /\ sp = "lock" /\ lock = "free" /\ sp' = "read" /\ lock' = "spawn"
    /\ UNCHANGED <<txLock, thrVars, poolVars, waited, cmdSync, unread, masked, spawnQ, last, found,
                   txVars, nwpVars, fault, calls>>

SpawnLock ==
    /\ sp = "lock" /\ lock = "free"
    /\ IF unread = 0 THEN sp' = "idle" /\ UNCHANGED lock ELSE sp' = "read" /\ lock' = "spawn"
    /\ UNCHANGED <<txLock, thrVars, poolVars, waited, cmdSync, unread, masked, spawnQ, last, found,
                   txVars, nwpVars, fault, calls>>

SpawnDone ==
    /\ sp = "done" /\ unread' = unread - 1
    /\ IF last.k = "resp" THEN fault' = fault \cup {"stray response"} /\ UNCHANGED lock
                          ELSE lock' = "free" /\ UNCHANGED fault
    /\ sp' = "idle" /\ signalled' = Signalled /\ Forget
    /\ UNCHANGED <<txLock, thrVars, free, active, pending, bitmap, objCall, waited, cmdSync, masked,
                   spawnQ, txVars, nwpVars, calls>>

-----------------------------------------------------------------------------
\* The network processor.
Says(k, c, ok) == wire' = Append(wire, [k |-> k, c |-> c, ok |-> ok])
NwpOnly == UNCHANGED <<lockVars, thrVars, poolVars, rxVars, txVars, raised, fault>>

Respond(ok) ==
    /\ asked # NoCall /\ asked' = NoCall /\ Says("resp", asked, ok)
    /\ due' = IF ok /\ asked.kind # "cmd" THEN due \cup {asked} ELSE due
    /\ NwpOnly /\ UNCHANGED <<buffers, calls>>

Complete(c) ==
    /\ c \in due /\ due' = due \ {c} /\ Says("done", c, TRUE)
    /\ NwpOnly /\ UNCHANGED <<asked, buffers, calls>>

\* A buffer is free again, and a message says so.
FreeBuffer ==
    /\ buffers < Buffers /\ buffers' = buffers + 1
    /\ wire' = Append(wire, [k |-> "dummy", c |-> NoCall, ok |-> TRUE])
    /\ NwpOnly /\ UNCHANGED <<asked, due, calls>>

Event ==
    /\ calls < MaxCalls /\ calls' = calls + 1 /\ Says("event", NoCall, TRUE)
    /\ NwpOnly /\ UNCHANGED <<asked, due, buffers>>

Steps(t) ==
    \/ TakeObj(t) \/ PoolEmpty(t) \/ Woken(t) \/ TryAgain(t) \/ ReleaseObj(t)
    \/ SendCommand(t) \/ Sleep(t) \/ Wake(t) \/ ReadInCommand(t) \/ DoneInCommand(t)
    \/ EndCommand(t) \/ CheckUnread(t) \/ Completed(t)
    \/ LockTx(t) \/ SendRefused(t) \/ WaitTx(t) \/ SendData(t)
Spawn == SpawnTake \/ SpawnLock \/ ReadInSpawn \/ SpawnDone
Answer == (\E ok \in BOOLEAN : Respond(ok)) \/ \E c \in Calls : Complete(c)

\* What goes on without a new call or event.
Progress ==
    \/ ~SpawnFirst /\ \E t \in Threads : Steps(t)
    \/ Spawn \/ Interrupt \/ Answer \/ FreeBuffer

Next ==
    \/ Progress \/ Event
    \/ ~SpawnFirst /\ \E t \in Threads, c \in Calls : Begin(t, c)

Spec == Init /\ [][Next]_vars

-----------------------------------------------------------------------------
(* Each message finds the one it is for: no response is read by a thread   *)
(* that did not ask, no result arrives before its object is active, no     *)
(* message is left for a spawn entry that did not fit the queue, and the   *)
(* assertions on the transmit buffers hold between the check and the write *)
(* (driver.c _SlDrvMsgRead, _SlDrvRxIrqHandler, _SlDrvDataWriteOp).        *)
NoFault == fault = {}

(* The lists of _SlDrvWaitForPoolObj and _SlDrvReleasePoolObj share the    *)
(* objects out: each is free, active, pending or on its way from pending   *)
(* to active; the bitmap holds the keys of the active ones, one each; and  *)
(* an object in use belongs to the one call it was taken for.              *)
PoolSound ==
    LET onTheWay == {own[t] : t \in {u \in Threads : \/ pc[u] = "again"
                                                     \/ pc[u] = "pend" /\ own[u] \in signalled}}
        used == Range(active) \cup Range(pending) \cup onTheWay
    IN  /\ Len(free) + Len(active) + Len(pending) + Cardinality(onTheWay) = Pool
        /\ Range(free) \cup used = Objects
        /\ bitmap = {Key(objCall[o]) : o \in Range(active)}
        /\ Cardinality(bitmap) = Len(active)
        /\ \A o \in used : \E t \in Threads : own[t] = o /\ objCall[o] = call[t]

(* A message that has interrupted is read in the end: whenever one is      *)
(* unread, somebody who does not wait for another interrupt will look      *)
(* (driver.c:1344-1390, the check after the unlock).                       *)
UnreadIsRead ==
    unread > 0 => \/ spawnQ > 0 \/ sp # "idle"
                  \/ \E t \in Threads : \/ pc[t] \in {"loop", "done", "check"}
                                        \/ pc[t] = "sleep" /\ cmdSync

\* Calls that wait for each other are the same call: on one socket no other kind
\* of call with a late result is made.  _SlDrvReleasePoolObj wakes only that.
OneKindPerSocket ==
    \A c, d \in Calls : c.kind \in Late /\ d.kind \in Late /\ Key(c) = Key(d) => c = d

(* The pool does not forget a waiting call: a call on hold in the pending list has  *)
(* an active call of the same action and socket in front of it, or one     *)
(* that was just woken (_SlDrvReleasePoolObj wakes one of several).        *)
PendingBehindActive ==
    \A o \in Range(pending) : \E t \in Threads :
        own[t] # o /\ call[t] = objCall[o] /\ (own[t] \in Range(active) \/ own[t] \notin Range(pending) \cup {0})

(* A call is never stuck: while one is in progress some thread, the        *)
(* interrupt or the answer of the network processor can go on, without a   *)
(* new call or event.  No wake-up is lost, no two threads wait for each    *)
(* other, nobody waits for a buffer that nobody announces.                 *)
NeverStuck == (\E t \in Threads : pc[t] # "idle") => ENABLED Progress
=============================================================================
