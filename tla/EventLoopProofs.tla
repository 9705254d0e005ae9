-------------------------- MODULE EventLoopProofs --------------------------
(* What the event loop and the main thread owe to each other, for any      *)
(* number of slots and sockets: the loop never sleeps while a channel      *)
(* waits for it, one MQTT session at a time, no socket lost, no socket     *)
(* closed under sl_Select, and a lost connection always retried.           *)
EXTENDS EventLoop, FiniteSetTheorems, TLAPS

USE EventLoopAssumption DEF Slot, Scanning, At, Alive

LoopState == [pc : LoopSteps, i : 1..Slots + 1, readfs : SUBSET Socks]

LEMMA LoopMoves == ASSUME NEW r \in LoopState, NEW p \in LoopSteps
                   PROVE  [r EXCEPT !.pc = p] \in LoopState
<1>1. r = [pc |-> r.pc, i |-> r.i, readfs |-> r.readfs]
  BY DEF LoopState
<1>2. [r EXCEPT !.pc = p] = [pc |-> p, i |-> r.i, readfs |-> r.readfs]
  BY <1>1
<1>. QED
  BY <1>2 DEF LoopState

LEMMA TypeInit == Init => TypeOK /\ ScanInv
<1> SUFFICES ASSUME Init PROVE TypeOK /\ ScanInv
  OBVIOUS
<1>1. loop \in [pc : LoopSteps, i : 1..Slots + 1, readfs : SUBSET Socks]
  <2>1. 1 \in 1..Slots + 1
    OBVIOUS
  <2>. QED
    BY <2>1 DEF Init, LoopSteps
<1>2. /\ fd \in [Slot -> Socks \cup {0}] /\ pending \in [Slot -> BOOLEAN]
      /\ peer \in [Socks -> {"free", "quiet", "data", "eof", "error"}]
  BY DEF Init
<1>3. inbox \in Seq({"IP_ACQUIRED", "SOCK_CLOSED", "RETRY"})
  BY DEF Init
<1>4. TypeOK
  <2>1. /\ transport \in {"mqtt", "tcp"} /\ mutex \in BOOLEAN
        /\ main \in {"idle", "disconnecting", "connecting", "subscribing"}
        /\ timer \in {"off", "on", "cycle", "hung"}
        /\ asked \subseteq Socks /\ dropped \subseteq Socks /\ forgotten \subseteq Socks
        /\ stale \in BOOLEAN
    BY DEF Init
  <2>2. handler \in 0..Slots /\ ips \in 0..MaxIps /\ closes \in 0..MaxCloses /\ errors \in 0..MaxErrors
    BY DEF Init
  <2>. QED
    BY <1>1, <1>2, <1>3, <2>1, <2>2 DEF TypeOK
<1>5. ScanInv
  BY DEF Init, ScanInv, NoLostWakeup
<1>. QED
  BY <1>4, <1>5

LEMMA LoopStep == TypeOK /\ ScanInv /\ [Next]_vars => loop' \in LoopState
<1> SUFFICES ASSUME TypeOK, ScanInv, [Next]_vars PROVE loop' \in LoopState
  OBVIOUS
<1>1. loop \in LoopState /\ loop.i \in 1..Slots + 1 /\ loop.readfs \subseteq Socks
  BY DEF TypeOK, LoopState
<1>2. CASE loop' = loop
  BY <1>1, <1>2
<1>3. CASE loop' = Scanning
  <2>1. 1 \in 1..Slots + 1
    OBVIOUS
  <2>. QED
    BY <1>3, <2>1 DEF LoopState, LoopSteps
<1>4. ASSUME NEW p \in LoopSteps, loop' = [loop EXCEPT !.pc = p] PROVE loop' \in LoopState
  BY <1>1, <1>4, LoopMoves
<1>5. ASSUME loop.i <= Slots, NextSlot PROVE loop' \in LoopState
  <2>1. loop.i + 1 \in 1..Slots + 1 /\ "slot" \in LoopSteps
    BY <1>1, <1>5 DEF LoopSteps
  <2>. QED
    BY <1>1, <1>5, <2>1 DEF NextSlot, LoopState
<1>6. CASE Scan
  <2>1. CASE loop.i <= Slots
    <3>1. loop' = [pc |-> "scan", i |-> loop.i + 1,
                     readfs |-> loop.readfs \cup ({fd[loop.i]} \ {0})]
      BY <1>6, <2>1 DEF Scan
    <3>2. fd[loop.i] \in Socks \cup {0} /\ loop.i + 1 \in 1..Slots + 1
      BY <1>1, <2>1 DEF TypeOK
    <3>3. loop.readfs \cup ({fd[loop.i]} \ {0}) \in SUBSET Socks
      BY <1>1, <3>2
    <3>. QED
      BY <1>1, <3>1, <3>2, <3>3 DEF LoopState, LoopSteps
  <2>2. CASE ~(loop.i <= Slots)
    BY <1>4, <1>6, <2>2 DEF Scan, LoopSteps
  <2>. QED
    BY <2>1, <2>2
<1>7. CASE Lock
  BY <1>3, <1>4, <1>7 DEF Lock, LoopSteps
<1>8. CASE Select
  <2> DEFINE ready == {s \in loop.readfs : peer[s] \in {"data", "eof", "error"}}
  <2>1. loop' = Scanning \/ loop' = [pc |-> "slot", i |-> 1, readfs |-> ready]
    BY <1>8 DEF Select
  <2>2. ready \in SUBSET Socks
    BY <1>1
  <2>. QED
    BY <1>3, <2>1, <2>2 DEF LoopState, LoopSteps
<1>9. CASE CheckSlot
  <2>1. loop.i <= Slots
    BY <1>9 DEF CheckSlot, ScanInv
  <2>. QED
    BY <1>4, <1>5, <1>9, <2>1 DEF CheckSlot, LoopSteps
<1>10. CASE ReceiveData \/ ReceiveError \/ Notify
  <2>1. loop.i <= Slots
    BY <1>10 DEF ReceiveData, ReceiveError, Notify, ScanInv
  <2>. QED
    BY <1>4, <1>5, <1>10, <2>1 DEF ReceiveData, ReceiveError, Notify, LoopSteps
<1>11. CASE RoundEnds \/ ClosePending \/ Closed \/ ReceiveEof \/ Ended
  BY <1>3, <1>4, <1>11 DEF RoundEnds, ClosePending, Closed, ReceiveEof, Ended, LoopSteps
<1>12. CASE Main
  BY <1>2, <1>3, <1>12 DEF Main, HandleMessage, CloseSoon, ConnectFails, ConnectSucceeds, Register,
                          UnlockMutex, Subscribed
<1>13. CASE Environment
  BY <1>2, <1>3, <1>13 DEF Environment, IpAcquired, PeerActs, TimerFires
<1>14. CASE UNCHANGED vars
  BY <1>2, <1>14 DEF vars
<1>. QED
  BY <1>6, <1>7, <1>8, <1>9, <1>10, <1>11, <1>12, <1>13, <1>14 DEF Next, Loop

\* All variables but loop.
LEMMA TypeStep == TypeOK /\ ScanInv /\ [Next]_vars => TypeOK'
<1> SUFFICES ASSUME TypeOK, ScanInv, [Next]_vars PROVE TypeOK'
  OBVIOUS
<1>. loop' \in [pc : LoopSteps, i : 1..Slots + 1, readfs : SUBSET Socks]
  BY LoopStep DEF LoopState
<1>1. CASE IpAcquired
  BY <1>1 DEF IpAcquired, TypeOK, sockVars
<1>2. ASSUME NEW s \in Socks, PeerActs(s) PROVE TypeOK'
  BY <1>2 DEF PeerActs, TypeOK, mainVars
<1>3. CASE TimerFires
  BY <1>3 DEF TimerFires, TypeOK, sockVars, envVars
<1>4. CASE HandleMessage
  BY <1>4 DEF HandleMessage, TypeOK, envVars
<1>5. CASE CloseSoon
  BY <1>5 DEF CloseSoon, TypeOK, envVars
<1>6. CASE ConnectFails
  BY <1>6 DEF ConnectFails, ScheduleRetry, TypeOK, sockVars, envVars
<1>7. ASSUME NEW s \in Socks, ConnectSucceeds(s) PROVE TypeOK'
  <2>1. /\ peer' \in [Socks -> {"free", "quiet", "data", "eof", "error"}]
        /\ main' \in {"idle", "disconnecting", "connecting", "subscribing"}
        /\ pending' = pending /\ asked' = asked /\ inbox' = inbox /\ stale' = stale
        /\ forgotten' = forgotten
        /\ UNCHANGED envVars
    BY <1>7 DEF ConnectSucceeds, TypeOK
  <2>2. Register(s)
    BY <1>7 DEF ConnectSucceeds
  <2>3. mutex' \in BOOLEAN
    BY <2>2 DEF Register, UnlockMutex, TypeOK
  <2>4. CASE \A i \in Slot : fd[i] # 0
    BY <2>2, <2>4, <2>1, <2>3 DEF Register, FirstFree, ScheduleRetry, TypeOK, envVars
  <2>5. ASSUME NEW i \in Slot, fd' = [fd EXCEPT ![i] = s],
               handler' = IF transport = "mqtt" THEN i ELSE handler,
               UNCHANGED <<dropped, timer>>
        PROVE  TypeOK'
    BY <2>1, <2>3, <2>5 DEF TypeOK, envVars
  <2>. QED
    BY <2>2, <2>4, <2>5 DEF Register
<1>8. CASE Subscribed
  BY <1>8 DEF Subscribed, ScheduleRetry, TypeOK, sockVars, envVars
<1>9. CASE Scan \/ Select \/ RoundEnds \/ CheckSlot
  BY <1>9 DEF Scan, Select, RoundEnds, CheckSlot, TypeOK, sockVars, mainVars, envVars
<1>10. CASE Lock
  BY <1>10 DEF Lock, TypeOK, sockVars, mainVars, envVars
<1>13. CASE ClosePending
  BY <1>13 DEF ClosePending, TypeOK, mainVars, envVars
<1>14. CASE Closed
  BY <1>14 DEF Closed, TypeOK, mainVars, envVars
<1>16. CASE ReceiveData
  BY <1>16 DEF ReceiveData, TypeOK, mainVars, envVars
<1>17. CASE ReceiveEof
  BY <1>17 DEF ReceiveEof, TypeOK, mainVars, envVars
<1>18. CASE ReceiveError
  <2>1. fd[loop.i] \in Socks
    BY <1>18 DEF ReceiveError, ScanInv, TypeOK
  <2>. QED
    BY <1>18, <2>1 DEF ReceiveError, TypeOK, mainVars, envVars
<1>19. CASE Ended
  BY <1>19 DEF Ended, TypeOK, mainVars, envVars
<1>20. CASE Notify
  BY <1>20 DEF Notify, TypeOK, sockVars, envVars
<1>21. CASE UNCHANGED vars
  BY <1>21 DEF TypeOK, vars, sockVars, mainVars, envVars
<1>. QED
  BY <1>1, <1>2, <1>3, <1>4, <1>5, <1>6, <1>7, <1>8, <1>9, <1>10, <1>13, <1>14,
     <1>16, <1>17, <1>18, <1>19, <1>20, <1>21 DEF Next, Loop, Main, Environment

\* A channel is registered by a step that also unlocks the mutex, and no
\* other step puts a socket into the table.
LEMMA ScanStep == TypeOK /\ ScanInv /\ [Next]_vars => ScanInv'
<1> SUFFICES ASSUME TypeOK, ScanInv, [Next]_vars PROVE ScanInv'
  OBVIOUS
<1>1. loop = [pc |-> loop.pc, i |-> loop.i, readfs |-> loop.readfs] /\ loop.i \in 1..Slots + 1
  BY DEF TypeOK
<1>2. CASE UNCHANGED <<fd, mutex, loop>>
  BY <1>2 DEF ScanInv, NoLostWakeup
<1>3. CASE loop' = Scanning
  BY <1>3 DEF ScanInv, NoLostWakeup
<1>4. ASSUME NEW s \in Socks, Register(s) PROVE ScanInv'
  <2>1. CASE UNCHANGED <<fd, mutex, loop>>
    BY <1>2, <2>1
  <2>2. ASSUME NEW i \in Slot, FirstFree(i), fd' = [fd EXCEPT ![i] = s], UnlockMutex PROVE ScanInv'
    <3>1. CASE loop.pc = "blocked"
      BY <1>3, <2>2, <3>1 DEF UnlockMutex
    <3>2. CASE loop.pc # "blocked"
      <4>1. ~mutex' /\ loop' = loop
        BY <2>2, <3>2 DEF UnlockMutex
      <4>2. loop.pc = "recv" => loop.i # i
        BY <2>2 DEF FirstFree, ScanInv, TypeOK
      <4>. QED
        BY <1>1, <2>2, <3>2, <4>1, <4>2 DEF ScanInv, NoLostWakeup, TypeOK
    <3>. QED
      BY <3>1, <3>2
  <2>. QED
    BY <1>4, <2>1, <2>2 DEF Register
<1>5. CASE Scan
  <2>1. CASE loop.i <= Slots
    <3>1. /\ loop' = [pc |-> "scan", i |-> loop.i + 1,
                      readfs |-> loop.readfs \cup ({fd[loop.i]} \ {0})]
          /\ UNCHANGED <<fd, mutex>> /\ loop.pc = "scan"
      BY <1>5, <2>1 DEF Scan
    <3>2. ASSUME mutex, NEW j \in Slot, j < loop.i + 1
          PROVE  fd[j] \in loop.readfs \cup ({fd[loop.i]} \ {0}) \cup {0}
      <4>1. j < loop.i \/ j = loop.i
        BY <1>1, <3>2
      <4>. QED
        BY <3>1, <3>2, <4>1 DEF ScanInv
    <3>. QED
      BY <3>1, <3>2 DEF ScanInv, NoLostWakeup
  <2>2. CASE ~(loop.i <= Slots)
    <3>1. loop.pc = "scan" /\ UNCHANGED <<fd, mutex>>
      BY <1>5 DEF Scan
    <3>2. loop' = [pc |-> IF loop.readfs = {} THEN "lock" ELSE "select", i |-> loop.i,
                   readfs |-> loop.readfs]
      BY <1>1, <1>5, <2>2 DEF Scan
    <3>3. ASSUME mutex, loop.readfs = {}, NEW j \in Slot PROVE fd[j] = 0
      BY <1>1, <2>2, <3>1, <3>3 DEF ScanInv
    <3>. QED
      BY <3>1, <3>2, <3>3 DEF ScanInv, NoLostWakeup
  <2>. QED
    BY <2>1, <2>2
<1>6. CASE Lock
  <2>1. CASE mutex
    <3>1. loop' = [pc |-> "blocked", i |-> loop.i, readfs |-> loop.readfs]
      BY <1>1, <1>6, <2>1 DEF Lock
    <3>. QED
      BY <1>6, <2>1, <3>1 DEF Lock, ScanInv, NoLostWakeup
  <2>2. CASE ~mutex
    BY <1>3, <1>6, <2>2 DEF Lock
  <2>. QED
    BY <2>1, <2>2
<1>7. ASSUME NextSlot PROVE ScanInv'
  BY <1>7 DEF NextSlot, ScanInv, NoLostWakeup
<1>8. ASSUME loop.i <= Slots, NEW p \in {"closed", "check", "ended", "notify"},
             loop' = [loop EXCEPT !.pc = p]
      PROVE  ScanInv'
  <2>1. loop' = [pc |-> p, i |-> loop.i, readfs |-> loop.readfs]
    BY <1>1, <1>8
  <2>. QED
    BY <1>1, <1>8, <2>1 DEF ScanInv, NoLostWakeup
<1>9. CASE Select
  BY <1>3, <1>9 DEF Select, ScanInv, NoLostWakeup
<1>10. CASE CheckSlot
  <2>1. CASE fd[loop.i] \in loop.readfs
    <3>1. loop' = [pc |-> "recv", i |-> loop.i, readfs |-> loop.readfs] /\ fd' = fd
      BY <1>1, <1>10, <2>1 DEF CheckSlot
    <3>2. loop.i <= Slots
      BY <1>10 DEF CheckSlot, ScanInv
    <3>. QED
      BY <2>1, <3>1, <3>2 DEF ScanInv, NoLostWakeup
  <2>. QED
    BY <1>7, <1>10, <2>1 DEF CheckSlot
<1>11. CASE ClosePending \/ Closed \/ ReceiveEof \/ Ended
  BY <1>8, <1>11 DEF ClosePending, Closed, ReceiveEof, Ended, ScanInv
<1>12. CASE RoundEnds \/ ReceiveData \/ Notify
  BY <1>3, <1>7, <1>12 DEF RoundEnds, ReceiveData, Notify
<1>13. CASE ReceiveError
  BY <1>7, <1>8, <1>13 DEF ReceiveError, ScanInv
<1>14. CASE Main
  BY <1>2, <1>4, <1>14 DEF Main, HandleMessage, CloseSoon, ConnectFails, ConnectSucceeds, Subscribed
<1>15. CASE Environment
  BY <1>2, <1>3, <1>15 DEF Environment, IpAcquired, PeerActs, TimerFires
<1>16. CASE UNCHANGED vars
  BY <1>2, <1>16 DEF vars
<1>. QED
  BY <1>5, <1>6, <1>9, <1>10, <1>11, <1>12, <1>13, <1>14, <1>15, <1>16 DEF Next, Loop

LEMMA LoopInvariants == Spec => [](TypeOK /\ ScanInv)
<1>1. TypeOK /\ ScanInv /\ [Next]_vars => (TypeOK /\ ScanInv)'
  BY TypeStep, ScanStep
<1>. QED
  BY TypeInit, <1>1, PTL DEF Spec

(* Every variable of the board keeps its type: the MQTT handler is a slot  *)
(* of the table and what the loop works on is one (bocia_register_handlers, *)
(* bocia_loop_run).                                                        *)
THEOREM TypeCorrect == Spec => []TypeOK
BY LoopInvariants, PTL

(* The loop never sleeps on its mutex while a channel is registered, in    *)
(* whatever order main registers channels and the loop decides to sleep.   *)
THEOREM NeverSleepsOnWork == Spec => []NoLostWakeup
<1>1. ScanInv => NoLostWakeup
  BY DEF ScanInv
<1>. QED
  BY LoopInvariants, <1>1, PTL

-----------------------------------------------------------------------------
\* A slot the loop receives from or closes holds a socket; when the handler
\* has ended a connection its socket is closed, was given up, or is that of
\* another slot too, since the numbers of closed sockets are used again.
SlotInv ==
    /\ loop.pc \in {"recv", "ended"} => fd[loop.i] # 0
    /\ loop.pc = "closed" => pending[loop.i]
    /\ loop.pc = "ended" => \A s \in Socks : fd[loop.i] = s /\ peer[s] # "free" =>
           s \in dropped \/ \E j \in Slot \ {loop.i} : fd[j] = s

LEMMA SlotStep == TypeOK /\ ScanInv /\ SlotInv /\ [Next]_vars => SlotInv'
<1> SUFFICES ASSUME TypeOK, ScanInv, SlotInv, [Next]_vars PROVE SlotInv'
  OBVIOUS
<1>1. loop = [pc |-> loop.pc, i |-> loop.i, readfs |-> loop.readfs] /\ loop.i \in 1..Slots + 1
  BY DEF TypeOK
<1>2. CASE UNCHANGED <<fd, pending, loop, peer, dropped>>
  BY <1>2 DEF SlotInv
<1>3. CASE loop' = Scanning
  BY <1>3 DEF SlotInv
<1>4. ASSUME NextSlot PROVE SlotInv'
  BY <1>4 DEF NextSlot, SlotInv
<1>5. ASSUME NEW p \in LoopSteps \ {"recv", "closed", "ended"}, loop' = [loop EXCEPT !.pc = p]
      PROVE  SlotInv'
  <2>1. loop'.pc = p
    BY <1>1, <1>5
  <2>. QED
    BY <1>5, <2>1 DEF SlotInv
<1>6. ASSUME NEW s \in Socks, ConnectSucceeds(s) PROVE SlotInv'
  <2>1. /\ peer[s] = "free" /\ peer' = [peer EXCEPT ![s] = "quiet"] /\ pending' = pending
        /\ Register(s)
    BY <1>6 DEF ConnectSucceeds
  <2>2. ASSUME NEW i \in Slot, FirstFree(i), fd' = [fd EXCEPT ![i] = s], UnlockMutex,
               dropped' = dropped
        PROVE  SlotInv'
    <3>1. CASE loop.pc = "blocked"
      BY <1>3, <2>2, <3>1 DEF UnlockMutex
    <3>2. CASE loop.pc # "blocked"
      <4>1. loop' = loop
        BY <2>2, <3>2 DEF UnlockMutex
      <4>2. fd[i] = 0 /\ fd'[i] = s /\ s # 0 /\ \A j \in Slot : j # i => fd'[j] = fd[j]
        BY <2>2 DEF FirstFree, TypeOK
      <4>3. loop.pc \in {"recv", "ended"} => loop.i \in Slot /\ loop.i # i
        BY <1>1, <4>2 DEF SlotInv, ScanInv
      <4>4. \A t \in Socks : t # s => peer'[t] = peer[t]
        BY <2>1
      <4>5. ASSUME loop.pc = "ended", NEW t \in Socks, fd'[loop.i] = t, peer'[t] # "free"
            PROVE  t \in dropped' \/ \E j \in Slot \ {loop.i} : fd'[j] = t
        <5>1. fd[loop.i] = t
          BY <4>2, <4>3, <4>5
        <5>2. CASE t = s
          BY <4>2, <4>3, <4>5, <5>2
        <5>3. CASE t # s
          <6>1. t \in dropped \/ \E j \in Slot \ {loop.i} : fd[j] = t
            BY <4>4, <4>5, <5>1, <5>3 DEF SlotInv
          <6>. QED
            BY <2>2, <4>2, <6>1
        <5>. QED
          BY <5>2, <5>3
      <4>. QED
        BY <2>1, <4>1, <4>2, <4>3, <4>5 DEF SlotInv
    <3>. QED
      BY <3>1, <3>2
  <2>3. ASSUME dropped' = dropped \cup {s}, UNCHANGED <<fd, loop>> PROVE SlotInv'
    <3>1. \A t \in Socks : t # s => peer'[t] = peer[t]
      BY <2>1
    <3>. QED
      BY <2>1, <2>3, <3>1 DEF SlotInv
  <2>. QED
    BY <2>1, <2>2, <2>3 DEF Register
<1>7. CASE CloseSoon
  <2>1. loop.pc = "closed" => pending'[loop.i]
    BY <1>7 DEF CloseSoon, SlotInv, ScanInv, TypeOK
  <2>. QED
    BY <1>7, <2>1 DEF CloseSoon, SlotInv
<1>8. ASSUME NEW s \in Socks, PeerActs(s) PROVE SlotInv'
  <2>1. /\ peer[s] # "free" /\ UNCHANGED <<fd, pending, loop, dropped>>
        /\ \A t \in Socks : t # s => peer'[t] = peer[t]
    BY <1>8 DEF PeerActs, TypeOK
  <2>. QED
    BY <2>1 DEF SlotInv
<1>9. CASE ClosePending
  <2>1. loop'.pc = "closed" /\ loop'.i = loop.i
    BY <1>1, <1>9 DEF ClosePending
  <2>. QED
    BY <1>9, <2>1 DEF ClosePending, SlotInv
<1>10. CASE CheckSlot
  <2>1. CASE fd[loop.i] \in loop.readfs
    <3>1. loop'.pc = "recv" /\ loop'.i = loop.i /\ fd' = fd /\ fd[loop.i] # 0
      BY <1>1, <1>10, <2>1 DEF CheckSlot, TypeOK
    <3>. QED
      BY <3>1 DEF SlotInv
  <2>. QED
    BY <1>4, <1>10, <2>1 DEF CheckSlot
<1>11. CASE ReceiveEof
  <2>1. /\ loop'.pc = "ended" /\ loop'.i = loop.i /\ fd' = fd /\ fd[loop.i] # 0
        /\ fd[loop.i] \in Socks /\ peer' = [peer EXCEPT ![fd[loop.i]] = "free"]
    BY <1>1, <1>11 DEF ReceiveEof, ScanInv, SlotInv, TypeOK
  <2>2. peer'[fd[loop.i]] = "free"
    BY <2>1 DEF TypeOK
  <2>. QED
    BY <2>1, <2>2 DEF SlotInv
<1>12. CASE ReceiveError
  <2>1. CASE transport = "mqtt"
    <3>1. /\ loop'.pc = "ended" /\ loop'.i = loop.i /\ fd' = fd /\ fd[loop.i] # 0
          /\ dropped' = dropped \cup {fd[loop.i]}
      BY <1>1, <1>12, <2>1 DEF ReceiveError, SlotInv
    <3>. QED
      BY <3>1 DEF SlotInv
  <2>. QED
    BY <1>4, <1>12, <2>1 DEF ReceiveError
<1>13. CASE Scan \/ Lock \/ Select \/ RoundEnds
  <2>1. CASE Scan
    BY <1>5, <2>1 DEF Scan, SlotInv, LoopSteps
  <2>2. CASE Select
    BY <1>3, <2>2 DEF Select, SlotInv
  <2>. QED
    BY <1>3, <1>5, <1>13, <2>1, <2>2 DEF Lock, RoundEnds, LoopSteps
<1>14. CASE Closed \/ ReceiveData \/ Ended \/ Notify
  BY <1>4, <1>5, <1>14 DEF Closed, ReceiveData, Ended, Notify, LoopSteps
<1>15. CASE HandleMessage \/ ConnectFails \/ Subscribed \/ TimerFires \/ UNCHANGED vars
  BY <1>2, <1>15 DEF HandleMessage, ConnectFails, Subscribed, TimerFires, vars, sockVars
<1>16. CASE IpAcquired
  BY <1>2, <1>3, <1>16 DEF IpAcquired, sockVars
<1>. QED
  BY <1>6, <1>7, <1>8, <1>9, <1>10, <1>11, <1>12, <1>13, <1>14, <1>15, <1>16
     DEF Next, Loop, Main, Environment

\* A free slot has a close request only if one has come too late for it.
PendingInv == ~stale => \A i \in Slot : fd[i] = 0 => ~pending[i]

LEMMA PendingStep == TypeOK /\ ScanInv /\ PendingInv /\ [Next]_vars => PendingInv'
<1> SUFFICES ASSUME TypeOK, ScanInv, PendingInv, [Next]_vars PROVE PendingInv'
  OBVIOUS
<1>1. CASE UNCHANGED <<fd, pending, stale>>
  BY <1>1 DEF PendingInv
<1>2. ASSUME NEW s \in Socks, ConnectSucceeds(s) PROVE PendingInv'
  BY <1>1, <1>2 DEF ConnectSucceeds, Register, PendingInv, TypeOK
<1>3. CASE CloseSoon
  BY <1>3 DEF CloseSoon, PendingInv, TypeOK
<1>4. CASE Closed
  BY <1>4 DEF Closed, PendingInv, TypeOK
<1>5. CASE Ended
  BY <1>5 DEF Ended, PendingInv, TypeOK
<1>6. CASE Loop /\ ~Closed /\ ~Ended
  BY <1>1, <1>6 DEF Loop, Scan, Lock, Select, RoundEnds, ClosePending, CheckSlot, ReceiveData,
                    ReceiveEof, ReceiveError, Notify, sockVars
<1>7. CASE Environment \/ HandleMessage \/ ConnectFails \/ Subscribed \/ UNCHANGED vars
  BY <1>1, <1>7 DEF Environment, IpAcquired, PeerActs, TimerFires, HandleMessage, ConnectFails,
                    Subscribed, sockVars, vars
<1>. QED
  BY <1>2, <1>3, <1>4, <1>5, <1>6, <1>7 DEF Next, Main

\* While the loop clears a slot after a close that was not stale, the slot is
\* not free, and its socket is closed unless it is in use by another slot too.
ClosedInv ==
    loop.pc = "closed" /\ ~stale =>
        /\ fd[loop.i] # 0
        /\ \A s \in Socks : fd[loop.i] = s /\ peer[s] # "free" =>
               s \in dropped \/ \E j \in Slot \ {loop.i} : fd[j] = s

LEMMA ClosedStep ==
    TypeOK /\ ScanInv /\ PendingInv /\ ClosedInv /\ [Next]_vars => ClosedInv'
<1> SUFFICES ASSUME TypeOK, ScanInv, PendingInv, ClosedInv, [Next]_vars,
                    loop'.pc = "closed", ~stale'
             PROVE  /\ fd'[loop'.i] # 0
                    /\ \A s \in Socks : fd'[loop'.i] = s /\ peer'[s] # "free" =>
                           s \in dropped' \/ \E j \in Slot \ {loop'.i} : fd'[j] = s
  BY DEF ClosedInv
<1>1. loop = [pc |-> loop.pc, i |-> loop.i, readfs |-> loop.readfs] /\ loop.i \in 1..Slots + 1
  BY DEF TypeOK
<1>2. CASE UNCHANGED <<fd, loop, peer, dropped, stale>>
  BY <1>2 DEF ClosedInv
<1>3. ASSUME NEW s \in Socks, ConnectSucceeds(s)
      PROVE  /\ fd'[loop'.i] # 0
             /\ \A t \in Socks : fd'[loop'.i] = t /\ peer'[t] # "free" =>
                    t \in dropped' \/ \E j \in Slot \ {loop'.i} : fd'[j] = t
  <2>1. /\ stale' = stale /\ Register(s) /\ \A t \in Socks : t # s => peer'[t] = peer[t]
    BY <1>3 DEF ConnectSucceeds, TypeOK
  <2>2. loop' = loop
    BY <2>1 DEF Register, UnlockMutex, Scanning
  <2>3. /\ loop.pc = "closed" /\ ~stale /\ fd[loop.i] # 0 /\ loop.i \in Slot
        /\ \A t \in Socks : fd[loop.i] = t /\ peer[t] # "free" =>
               t \in dropped \/ \E j \in Slot \ {loop.i} : fd[j] = t
    BY <1>1, <2>1, <2>2 DEF ClosedInv, ScanInv
  <2>4. ASSUME NEW i \in Slot, FirstFree(i), fd' = [fd EXCEPT ![i] = s], dropped' = dropped
        PROVE  /\ fd'[loop.i] # 0
               /\ \A t \in Socks : fd'[loop.i] = t /\ peer'[t] # "free" =>
                      t \in dropped' \/ \E j \in Slot \ {loop.i} : fd'[j] = t
    <3>1. fd[i] = 0 /\ i # loop.i /\ fd'[i] = s /\ \A j \in Slot : j # i => fd'[j] = fd[j]
      BY <2>3, <2>4 DEF FirstFree, TypeOK
    <3>2. ASSUME NEW t \in Socks, fd'[loop.i] = t, peer'[t] # "free"
          PROVE  t \in dropped' \/ \E j \in Slot \ {loop.i} : fd'[j] = t
      <4>1. CASE t = s
        BY <3>1, <4>1
      <4>2. CASE t # s
        <5>1. t \in dropped \/ \E j \in Slot \ {loop.i} : fd[j] = t
          BY <2>1, <2>3, <3>1, <3>2, <4>2
        <5>2. \A j \in Slot : fd[j] = t => fd'[j] = t
          BY <3>1, EventLoopAssumption
        <5>. QED
          BY <2>4, <5>1, <5>2
      <4>. QED
        BY <4>1, <4>2
    <3>. QED
      BY <2>3, <3>1, <3>2
  <2>5. CASE dropped' = dropped \cup {s} /\ fd' = fd
    BY <2>1, <2>2, <2>3, <2>5
  <2>. QED
    BY <2>1, <2>2, <2>4, <2>5 DEF Register
<1>4. CASE CloseSoon
  BY <1>2, <1>4 DEF CloseSoon, ClosedInv
<1>5. ASSUME NEW s \in Socks, PeerActs(s)
      PROVE  /\ fd'[loop'.i] # 0
             /\ \A t \in Socks : fd'[loop'.i] = t /\ peer'[t] # "free" =>
                    t \in dropped' \/ \E j \in Slot \ {loop'.i} : fd'[j] = t
  <2>1. /\ peer[s] # "free" /\ UNCHANGED <<fd, loop, dropped, stale>>
        /\ \A t \in Socks : t # s => peer'[t] = peer[t]
    BY <1>5 DEF PeerActs, TypeOK
  <2>. QED
    BY <2>1 DEF ClosedInv
<1>6. CASE ClosePending
  <2>1. /\ loop.i \in Slot /\ pending[loop.i] /\ loop'.i = loop.i /\ stale' = stale /\ fd' = fd
        /\ peer' = [s \in Socks |-> IF s = fd[loop.i] THEN "free" ELSE peer[s]]
    BY <1>1, <1>6 DEF ClosePending
  <2>2. fd[loop.i] # 0
    BY <2>1 DEF PendingInv
  <2>. QED
    BY <2>1, <2>2
<1>7. CASE Loop /\ ~ClosePending
  <2>1. CASE Scan \/ Lock \/ Select \/ RoundEnds
    BY <1>1, <2>1 DEF Scan, Lock, Select, RoundEnds, Scanning
  <2>2. CASE Closed \/ CheckSlot \/ ReceiveData
    BY <1>1, <2>2 DEF Closed, CheckSlot, ReceiveData, NextSlot
  <2>3. CASE ReceiveEof \/ ReceiveError \/ Ended \/ Notify
    BY <1>1, <2>3 DEF ReceiveEof, ReceiveError, Ended, Notify, NextSlot
  <2>. QED
    BY <1>7, <2>1, <2>2, <2>3 DEF Loop
<1>8. CASE HandleMessage \/ ConnectFails \/ Subscribed \/ TimerFires \/ UNCHANGED vars
  BY <1>2, <1>8 DEF HandleMessage, ConnectFails, Subscribed, TimerFires, vars, sockVars
<1>9. CASE IpAcquired
  <2>1. loop' = loop
    BY <1>9 DEF IpAcquired, Scanning
  <2>. QED
    BY <1>2, <1>9, <2>1 DEF IpAcquired, sockVars
<1>. QED
  BY <1>3, <1>4, <1>5, <1>6, <1>7, <1>8, <1>9 DEF Next, Main, Environment

LEMMA AccountedStep ==
    TypeOK /\ ScanInv /\ SlotInv /\ ClosedInv /\ SocketsAccounted /\ [Next]_vars => SocketsAccounted'
<1> SUFFICES ASSUME TypeOK, ScanInv, SlotInv, ClosedInv, SocketsAccounted, [Next]_vars
             PROVE  SocketsAccounted'
  OBVIOUS
<1>0. forgotten \subseteq forgotten' /\ (stale => stale')
  <2>1. CASE Closed
    BY <2>1 DEF Closed
  <2>2. CASE CloseSoon \/ Ended
    BY <2>2 DEF CloseSoon, Ended
  <2>3. CASE Loop /\ ~Closed /\ ~Ended
    BY <2>3 DEF Loop, Scan, Lock, Select, RoundEnds, ClosePending, CheckSlot, ReceiveData,
                ReceiveEof, ReceiveError, Notify, sockVars
  <2>4. ASSUME NEW s \in Socks, ConnectSucceeds(s) \/ PeerActs(s)
        PROVE  forgotten \subseteq forgotten' /\ (stale => stale')
    BY <2>4 DEF ConnectSucceeds, PeerActs
  <2>5. CASE HandleMessage \/ ConnectFails \/ Subscribed \/ IpAcquired \/ TimerFires \/ UNCHANGED vars
    BY <2>5 DEF HandleMessage, ConnectFails, Subscribed, IpAcquired, TimerFires, vars, sockVars
  <2>. QED
    BY <2>1, <2>2, <2>3, <2>4, <2>5 DEF Next, Main, Environment
<1>1. CASE UNCHANGED <<fd, peer, dropped>>
  BY <1>0, <1>1 DEF SocketsAccounted
<1>2. ASSUME NEW s \in Socks, ConnectSucceeds(s) PROVE SocketsAccounted'
  <2>1. /\ peer' = [peer EXCEPT ![s] = "quiet"] /\ Register(s)
        /\ \A t \in Socks : t # s => peer'[t] = peer[t]
    BY <1>2 DEF ConnectSucceeds, TypeOK
  <2>2. ASSUME NEW i \in Slot, FirstFree(i), fd' = [fd EXCEPT ![i] = s], dropped' = dropped
        PROVE  SocketsAccounted'
    <3>1. fd'[i] = s /\ \A j \in Slot : fd[j] # 0 => fd'[j] = fd[j]
      BY <2>2 DEF FirstFree, TypeOK
    <3>. QED
      BY <1>0, <2>1, <2>2, <3>1 DEF SocketsAccounted
  <2>3. ASSUME dropped' = dropped \cup {s}, fd' = fd PROVE SocketsAccounted'
    BY <1>0, <2>1, <2>3 DEF SocketsAccounted
  <2>. QED
    BY <2>1, <2>2, <2>3 DEF Register
<1>3. ASSUME NEW s \in Socks, PeerActs(s) PROVE SocketsAccounted'
  <2>1. /\ peer[s] # "free" /\ UNCHANGED <<fd, dropped>>
        /\ \A t \in Socks : t # s => peer'[t] = peer[t]
    BY <1>3 DEF PeerActs, TypeOK
  <2>. QED
    BY <1>0, <2>1 DEF SocketsAccounted
<1>4. CASE ClosePending
  <2>1. UNCHANGED <<fd, dropped>> /\ \A t \in Socks : peer'[t] # "free" => peer[t] # "free"
    BY <1>4 DEF ClosePending
  <2>. QED
    BY <1>0, <2>1 DEF SocketsAccounted
<1>5. CASE Closed
  <2>1. loop.i \in Slot /\ peer' = peer /\ fd' = [fd EXCEPT ![loop.i] = 0]
        /\ loop.pc = "closed" /\ dropped' = dropped /\ stale' = stale
        /\ forgotten' = forgotten \cup {s \in Socks \ dropped :
                            /\ s = fd[loop.i] /\ peer[s] # "free"
                            /\ \A j \in Slot \ {loop.i} : fd[j] # s}
    BY <1>5 DEF Closed, ScanInv, TypeOK
  <2>2. \A j \in Slot \ {loop.i} : fd'[j] = fd[j]
    BY <2>1 DEF TypeOK
  <2>3. ASSUME NEW s \in Socks, peer[s] # "free"
        PROVE  s \in dropped' \/ (stale' /\ s \in forgotten') \/ \E i \in Slot : fd'[i] = s
    <3>1. CASE fd[loop.i] = s /\ s \notin dropped /\ \A j \in Slot \ {loop.i} : fd[j] # s
      BY <2>1, <2>3, <3>1 DEF ClosedInv
    <3>2. CASE s \in dropped \/ (stale /\ s \in forgotten) \/ \E j \in Slot \ {loop.i} : fd[j] = s
      BY <1>0, <2>1, <2>2, <3>2
    <3>. QED
      BY <2>3, <3>1, <3>2 DEF SocketsAccounted
  <2>. QED
    BY <2>1, <2>3 DEF SocketsAccounted
<1>6. CASE ReceiveData
  <2>1. /\ fd[loop.i] \in Socks /\ peer[fd[loop.i]] = "data"
        /\ \A t \in Socks : t # fd[loop.i] => peer'[t] = peer[t]
        /\ UNCHANGED <<fd, dropped>>
    BY <1>6 DEF ReceiveData, ScanInv, TypeOK
  <2>. QED
    BY <1>0, <2>1 DEF SocketsAccounted
<1>7. CASE ReceiveEof
  <2>1. /\ fd[loop.i] \in Socks /\ peer'[fd[loop.i]] = "free"
        /\ \A t \in Socks : t # fd[loop.i] => peer'[t] = peer[t]
        /\ UNCHANGED <<fd, dropped>>
    BY <1>7 DEF ReceiveEof, ScanInv, TypeOK
  <2>. QED
    BY <1>0, <2>1 DEF SocketsAccounted
<1>8. CASE ReceiveError
  <2>1. dropped \subseteq dropped' /\ UNCHANGED <<fd, peer>>
    BY <1>8 DEF ReceiveError
  <2>. QED
    BY <1>0, <2>1 DEF SocketsAccounted
<1>9. CASE Ended
  <2>1. /\ loop.pc = "ended" /\ loop.i \in Slot /\ UNCHANGED <<peer, dropped>>
        /\ fd' = [fd EXCEPT ![loop.i] = 0]
    BY <1>9 DEF Ended, ScanInv, TypeOK
  <2>2. \A j \in Slot \ {loop.i} : fd'[j] = fd[j]
    BY <2>1 DEF TypeOK
  <2>3. ASSUME NEW s \in Socks, peer[s] # "free"
        PROVE  s \in dropped \/ (stale /\ s \in forgotten) \/ \E j \in Slot \ {loop.i} : fd[j] = s
    <3>1. s \in dropped \/ (stale /\ s \in forgotten) \/ \E i \in Slot : fd[i] = s
      BY <2>3 DEF SocketsAccounted
    <3>. QED
      BY <2>1, <2>3, <3>1 DEF SlotInv
  <2>. QED
    BY <1>0, <2>1, <2>2, <2>3 DEF SocketsAccounted
<1>10. CASE HandleMessage \/ CloseSoon \/ ConnectFails \/ Subscribed
  BY <1>1, <1>10 DEF HandleMessage, CloseSoon, ConnectFails, Subscribed, sockVars
<1>11. CASE Scan \/ Lock \/ Select \/ RoundEnds \/ CheckSlot \/ Notify
  BY <1>1, <1>11 DEF Scan, Lock, Select, RoundEnds, CheckSlot, Notify, sockVars
<1>12. CASE IpAcquired \/ TimerFires \/ UNCHANGED vars
  BY <1>1, <1>12 DEF IpAcquired, TimerFires, vars, sockVars
<1>. QED
  BY <1>2, <1>3, <1>4, <1>5, <1>6, <1>7, <1>8, <1>9, <1>10, <1>11, <1>12
     DEF Next, Loop, Main, Environment

-----------------------------------------------------------------------------
\* An MQTT channel in use is the handler's, and there is none while main
\* connects: the old one is asked to be closed, or was closed, before.
SessionInv ==
    transport = "mqtt" =>
        \A i \in Slot : fd[i] # 0 /\ ~pending[i] => i = handler /\ main # "connecting"

\* No slot but the one registered comes into use, and a slot in use stops
\* being so only when its close is requested or its connection has ended.
LEMMA InUseStep ==
    ASSUME TypeOK, ScanInv, [Next]_vars, ~(\E s \in Socks : ConnectSucceeds(s)), NEW i \in Slot,
           fd'[i] # 0 /\ ~pending'[i]
    PROVE  fd[i] # 0 /\ ~pending[i]
<1>1. CASE UNCHANGED <<fd, pending>>
  BY <1>1
<1>2. CASE CloseSoon
  BY <1>2 DEF CloseSoon, TypeOK
<1>3. CASE Closed \/ Ended
  <2>1. loop.i \in Slot /\ fd' = [fd EXCEPT ![loop.i] = 0]
    BY <1>3 DEF Closed, Ended, ScanInv, TypeOK
  <2>2. i # loop.i
    BY <2>1 DEF TypeOK
  <2>. QED
    BY <1>3, <2>1, <2>2 DEF Closed, Ended, TypeOK
<1>4. CASE Loop /\ ~Closed /\ ~Ended
  BY <1>1, <1>4 DEF Loop, Scan, Lock, Select, RoundEnds, ClosePending, CheckSlot, ReceiveData,
                    ReceiveEof, ReceiveError, Notify
<1>5. CASE Environment \/ HandleMessage \/ ConnectFails \/ Subscribed \/ UNCHANGED vars
  BY <1>1, <1>5 DEF Environment, IpAcquired, PeerActs, TimerFires, HandleMessage, ConnectFails,
                    Subscribed, vars
<1>. QED
  BY <1>2, <1>3, <1>4, <1>5 DEF Next, Main

LEMMA SessionStep == TypeOK /\ ScanInv /\ SessionInv /\ [Next]_vars => SessionInv'
<1> SUFFICES ASSUME TypeOK, ScanInv, SessionInv, [Next]_vars, transport' = "mqtt",
                    NEW i \in Slot, fd'[i] # 0, ~pending'[i]
             PROVE  i = handler' /\ main' # "connecting"
  BY DEF SessionInv
<1>1. transport' = transport
  BY DEF Next, Loop, Main, Environment, Scan, Lock, Select, RoundEnds, ClosePending, Closed,
         CheckSlot, ReceiveData, ReceiveEof, ReceiveError, Ended, Notify, HandleMessage, CloseSoon,
         ConnectFails, ConnectSucceeds, Subscribed, IpAcquired, PeerActs, TimerFires, envVars, vars
<1>2. CASE \E s \in Socks : ConnectSucceeds(s)
  <2>1. PICK s \in Socks : ConnectSucceeds(s)
    BY <1>2
  <2>2. /\ main = "connecting" /\ pending' = pending /\ main' # "connecting" /\ Register(s)
    BY <2>1 DEF ConnectSucceeds
  <2>3. fd[i] = 0
    BY <1>1, <2>2 DEF SessionInv
  <2>. QED
    BY <1>1, <2>2, <2>3 DEF Register, TypeOK
<1>3. CASE ~ \E s \in Socks : ConnectSucceeds(s)
  <2>1. fd[i] # 0 /\ ~pending[i]
    BY <1>3, InUseStep
  <2>2. i = handler /\ main # "connecting" /\ transport = "mqtt"
    BY <1>1, <2>1 DEF SessionInv
  <2>3. CASE UNCHANGED <<handler, main>>
    BY <2>2, <2>3
  <2>4. CASE HandleMessage \/ CloseSoon \/ ConnectFails \/ Subscribed
    <3>1. ~CloseSoon
      BY <2>2 DEF CloseSoon, TypeOK
    <3>. QED
      BY <2>1, <2>2, <2>4, <3>1 DEF HandleMessage, ConnectFails, Subscribed, TypeOK
  <2>5. CASE Loop
    BY <2>3, <2>5 DEF Loop, Scan, Lock, Select, RoundEnds, ClosePending, Closed, CheckSlot,
                      ReceiveData, ReceiveEof, ReceiveError, Ended, Notify, mainVars
  <2>6. CASE Environment \/ UNCHANGED vars
    BY <2>3, <2>6 DEF Environment, IpAcquired, PeerActs, TimerFires, mainVars, vars
  <2>. QED
    BY <1>3, <2>4, <2>5, <2>6 DEF Next, Main
<1>. QED
  BY <1>2, <1>3

-----------------------------------------------------------------------------
\* What leads to the next connection when main is not at work on it.
Trying ==
    \/ inbox # <<>> \/ timer \in {"on", "cycle"} \/ loop.pc = "ended"
    \/ loop.pc = "notify" /\ fd[loop.i] = 0
    \/ \E i \in Slot : fd[i] # 0 /\ ~pending[i]

\* A failed connection schedules the timer at once, or, when it is the table
\* that was full, in app_init.
TryingInv ==
    ~stale /\ ips > 0 /\ (main = "idle" \/ (main = "subscribing" /\ handler # 0)) => Trying

LEMMA RetryIsOn == TypeOK /\ Alive /\ ScheduleRetry => timer' \in {"on", "cycle"}
BY DEF ScheduleRetry

LEMMA TryingStep ==
    TypeOK /\ ScanInv /\ SlotInv /\ PendingInv /\ TryingInv /\ [Next]_vars => TryingInv'
<1> SUFFICES ASSUME TypeOK, ScanInv, SlotInv, PendingInv, TryingInv, [Next]_vars, ~stale', ips' > 0,
                    main' = "idle" \/ (main' = "subscribing" /\ handler' # 0)
             PROVE  Trying'
  BY DEF TryingInv
<1>1. loop = [pc |-> loop.pc, i |-> loop.i, readfs |-> loop.readfs] /\ loop.i \in 1..Slots + 1
  BY DEF TypeOK
<1>2. CASE IpAcquired \/ TimerFires
  <2>1. inbox' # <<>>
    BY <1>2 DEF IpAcquired, TimerFires, TypeOK
  <2>. QED
    BY <2>1 DEF Trying
<1>3. ASSUME NEW s \in Socks, ConnectSucceeds(s) PROVE Trying'
  <2>1. Register(s) /\ pending' = pending /\ stale' = stale /\ main = "connecting" /\ Alive
    BY <1>3 DEF ConnectSucceeds
  <2>2. ASSUME NEW i \in Slot, FirstFree(i), fd' = [fd EXCEPT ![i] = s] PROVE Trying'
    <3>1. fd'[i] # 0 /\ ~pending'[i]
      BY <2>1, <2>2 DEF FirstFree, PendingInv, TypeOK
    <3>. QED
      BY <3>1 DEF Trying
  <2>3. CASE \A i \in Slot : fd[i] # 0
    <3>1. handler' = 0 /\ (transport = "tcp" => ScheduleRetry)
      BY <2>1, <2>3 DEF Register, FirstFree
    <3>2. transport = "tcp"
      BY <1>3, <3>1 DEF ConnectSucceeds, TypeOK
    <3>. QED
      BY <2>1, <3>1, <3>2, RetryIsOn DEF Trying
  <2>. QED
    BY <2>1, <2>2, <2>3 DEF Register
<1>4. CASE HandleMessage \/ CloseSoon
  BY <1>4 DEF HandleMessage, CloseSoon
<1>5. CASE ConnectFails
  BY <1>5, RetryIsOn DEF ConnectFails, Trying
<1>6. CASE Subscribed /\ handler = 0
  BY <1>6, RetryIsOn DEF Subscribed, Trying
\* All other steps find something on its way and leave it there.
<1>7. CASE ~stale /\ ips > 0 /\ (main = "idle" \/ (main = "subscribing" /\ handler # 0)) /\ Trying
  <2>1. CASE UNCHANGED <<inbox, timer, fd, pending, loop>>
    BY <1>7, <2>1 DEF Trying
  <2>2. CASE /\ UNCHANGED <<inbox, timer, fd, pending>>
             /\ loop.pc \notin {"ended", "notify"} \/ loop'.pc = "ended"
    BY <1>7, <2>2 DEF Trying
  <2>3. CASE Closed
    <3>1. /\ loop.pc = "closed" /\ loop.i \in Slot /\ pending[loop.i]
          /\ fd' = [fd EXCEPT ![loop.i] = 0] /\ pending' = [pending EXCEPT ![loop.i] = FALSE]
          /\ UNCHANGED <<inbox, timer>>
      BY <2>3 DEF Closed, SlotInv, ScanInv, TypeOK, mainVars
    <3>2. CASE \E i \in Slot : fd[i] # 0 /\ ~pending[i]
      <4>1. PICK i \in Slot : fd[i] # 0 /\ ~pending[i]
        BY <3>2
      <4>2. fd'[i] # 0 /\ ~pending'[i]
        BY <3>1, <4>1 DEF TypeOK
      <4>. QED
        BY <4>2 DEF Trying
    <3>. QED
      BY <1>7, <3>1, <3>2 DEF Trying
  <2>4. CASE Ended
    <3>1. loop'.pc = "notify" /\ loop'.i = loop.i /\ loop.i \in Slot /\ fd'[loop.i] = 0
      BY <1>1, <2>4 DEF Ended, ScanInv, TypeOK
    <3>. QED
      BY <3>1 DEF Trying
  <2>5. CASE Notify
    <3>1. CASE fd[loop.i] = 0
      <4>1. inbox' = Append(inbox, "SOCK_CLOSED") /\ inbox \in Seq({"IP_ACQUIRED", "SOCK_CLOSED", "RETRY"})
        BY <2>5, <3>1 DEF Notify, TypeOK
      <4>2. inbox' # <<>>
        BY <4>1
      <4>. QED
        BY <4>2 DEF Trying
    <3>2. CASE fd[loop.i] # 0
      BY <1>7, <2>5, <3>2 DEF Notify, Trying
    <3>. QED
      BY <3>1, <3>2
  <2>6. CASE Loop /\ ~Closed /\ ~Ended /\ ~Notify
    BY <2>2, <2>6 DEF Loop, Scan, Lock, Select, RoundEnds, ClosePending, CheckSlot, ReceiveData,
                      ReceiveEof, ReceiveError, mainVars
  <2>7. CASE Subscribed \/ UNCHANGED vars
    BY <1>6, <2>1, <2>7 DEF Subscribed, vars, mainVars
  <2>8. ASSUME NEW s \in Socks, PeerActs(s) PROVE Trying'
    BY <2>1, <2>8 DEF PeerActs, mainVars
  <2>. QED
    BY <1>2, <1>3, <1>4, <1>5, <2>3, <2>4, <2>5, <2>6, <2>7, <2>8 DEF Next, Main, Environment
<1>8. CASE ~(~stale /\ ips > 0 /\ (main = "idle" \/ (main = "subscribing" /\ handler # 0)))
  <2>1. CASE UNCHANGED <<stale, ips, main, handler>>
    BY <1>8, <2>1
  <2>2. CASE Loop
    <3>1. CASE Ended
      BY <1>8, <3>1 DEF Ended, mainVars, envVars, TypeOK
    <3>2. CASE Closed \/ ReceiveData \/ ReceiveEof \/ ReceiveError
      BY <2>1, <3>2 DEF Closed, ReceiveData, ReceiveEof, ReceiveError, mainVars, envVars
    <3>3. CASE Scan \/ Lock \/ Select \/ RoundEnds \/ ClosePending \/ CheckSlot \/ Notify
      BY <2>1, <3>3 DEF Scan, Lock, Select, RoundEnds, ClosePending, CheckSlot, Notify, sockVars,
                        mainVars, envVars
    <3>. QED
      BY <2>2, <3>1, <3>2, <3>3 DEF Loop
  <2>3. CASE Subscribed
    BY <1>6, <1>8, <2>3 DEF Subscribed, sockVars, envVars
  <2>4. ASSUME NEW s \in Socks, PeerActs(s) PROVE Trying'
    BY <2>1, <2>4 DEF PeerActs, mainVars
  <2>5. CASE UNCHANGED vars
    BY <2>1, <2>5 DEF vars, sockVars, mainVars, envVars
  <2>. QED
    BY <1>2, <1>3, <1>4, <1>5, <2>2, <2>3, <2>4, <2>5 DEF Next, Main, Environment
<1>. QED
  BY <1>7, <1>8 DEF TryingInv

-----------------------------------------------------------------------------
\* The inductive invariant of the board's channels.
BoardInv ==
    TypeOK /\ ScanInv /\ SlotInv /\ PendingInv /\ ClosedInv /\ SocketsAccounted /\ SessionInv /\ TryingInv

LEMMA BoardInvariants == Spec => []BoardInv
<1>1. Init => SlotInv /\ SocketsAccounted /\ SessionInv /\ PendingInv /\ ClosedInv
  BY DEF Init, SlotInv, SocketsAccounted, SessionInv, PendingInv, ClosedInv
<1>2. Init => TryingInv
  BY DEF Init, TryingInv
<1>3. BoardInv /\ [Next]_vars => BoardInv'
  <2>1. BoardInv /\ [Next]_vars => TypeOK' /\ ScanInv' /\ SlotInv' /\ ClosedInv' /\ SocketsAccounted'
    BY TypeStep, ScanStep, SlotStep, ClosedStep, AccountedStep DEF BoardInv
  <2>2. BoardInv /\ [Next]_vars => SessionInv' /\ PendingInv' /\ TryingInv'
    BY SessionStep, PendingStep, TryingStep DEF BoardInv
  <2>. QED
    BY <2>1, <2>2 DEF BoardInv
<1>4. Init => BoardInv
  BY TypeInit, <1>1, <1>2 DEF BoardInv
<1>. QED
  BY <1>3, <1>4, PTL DEF Spec

(* At most one MQTT channel is in use, whatever messages, retries and      *)
(* failures main finds when it connects again (bocia_mqtt_init).           *)
THEOREM OneSessionAtATime == Spec => []OneSession
<1>1. BoardInv => OneSession
  <2> SUFFICES ASSUME TypeOK, SessionInv, transport = "mqtt"
               PROVE  Cardinality({i \in Slot : fd[i] # 0 /\ ~pending[i]}) <= 1
    BY DEF BoardInv, OneSession
  <2>1. {i \in Slot : fd[i] # 0 /\ ~pending[i]} \subseteq {handler}
    BY DEF SessionInv
  <2>2. IsFiniteSet({handler}) /\ Cardinality({handler}) = 1
    BY FS_Singleton
  <2>3. /\ Cardinality({i \in Slot : fd[i] # 0 /\ ~pending[i]}) <= Cardinality({handler})
    BY <2>1, <2>2, FS_Subset
  <2>. QED
    BY <2>2, <2>3
<1>. QED
  BY BoardInvariants, <1>1, PTL

(* No open socket is lost: it is in a slot of the table or was given up on *)
(* a receive error or for want of a slot, unless the loop has cleared its  *)
(* slot after the close of a stale request (sock_receive,                  *)
(* bocia_tcp_receive, bocia_loop_run).                                     *)
THEOREM NoSocketLost == Spec => []SocketsAccounted
<1>1. BoardInv => SocketsAccounted
  BY DEF BoardInv
<1>. QED
  BY BoardInvariants, <1>1, PTL

(* A board without a connection has something on its way that leads to one *)
(* (hello-mqtt/main.c), unless a close request came too late or the retry  *)
(* timer was set again while it was running.                               *)
THEOREM AlwaysTries == Spec => []KeepsTryingUnlessStale
<1>1. BoardInv => KeepsTryingUnlessStale
  BY DEF BoardInv, TypeOK, TryingInv, Trying, KeepsTryingUnlessStale, KeepsTrying, Alive
<1>. QED
  BY BoardInvariants, <1>1, PTL

(* No step of main or of the loop closes a socket of readfs while the loop *)
(* is in sl_Select: bocia_close_soon only marks the slot.                  *)
THEOREM NeverClosedUnderSelect == Spec => ClosedOutsideSelect
<1> DEFINE Outside == \A s \in Socks : peer[s] # "free" /\ peer'[s] = "free" =>
                          ~(loop.pc = "select" /\ s \in loop.readfs)
<1>1. BoardInv /\ [Next]_vars => [Outside]_vars
  <2> SUFFICES ASSUME BoardInv, [Next]_vars, NEW t \in Socks, peer[t] # "free", peer'[t] = "free"
               PROVE  loop.pc # "select"
    OBVIOUS
  <2>. TypeOK
    BY DEF BoardInv
  <2>1. peer' # peer
    OBVIOUS
  <2>2. ASSUME NEW s \in Socks, PeerActs(s) \/ ConnectSucceeds(s) PROVE FALSE
    BY <2>2 DEF PeerActs, ConnectSucceeds, TypeOK
  <2>3. CASE Loop
    BY <2>1, <2>3 DEF Loop, Scan, Lock, Select, RoundEnds, ClosePending, Closed, CheckSlot,
                      ReceiveData, ReceiveEof, ReceiveError, Ended, Notify, sockVars
  <2>4. CASE HandleMessage \/ CloseSoon \/ ConnectFails \/ Subscribed \/ IpAcquired \/ TimerFires
             \/ UNCHANGED vars
    BY <2>1, <2>4 DEF HandleMessage, CloseSoon, ConnectFails, Subscribed, IpAcquired, TimerFires,
                      vars, sockVars
  <2>. QED
    BY <2>2, <2>3, <2>4 DEF Next, Main, Environment
<1>. QED
  BY BoardInvariants, <1>1, PTL DEF Spec, ClosedOutsideSelect
=============================================================================
