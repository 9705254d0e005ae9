------------------------- MODULE ConfigStoreProofs -------------------------
(* The configuration of a board, for any threads, addresses and versions   *)
(* and whatever the threads' priorities: objects are freed once and not    *)
(* used afterwards, nothing is leaked, and what is got is what was stored, *)
(* each as far as the operations that overlap allow it.                    *)
EXTENDS ConfigStore, TLAPS

USE ConfigStoreAssumption DEF At, GoTo

PcState == Blocked \cup Writing \cup Holding \cup {"idle", "get", "unpack"}
Reading == Holding \cup {"get", "rinfo", "ropen", "read", "rclose", "unpack"}

\* Where bocia_set_cfg is while config is dangling.
Freed == {"pack", "winfo", "wopen", "write", "wclose", "clear"}

\* One thread moves at a time.
LEMMA Moves == ASSUME TypeOK, NEW t \in Threads, NEW step \in PcState, GoTo(t, step)
               PROVE  /\ pc' \in [Threads -> PcState] /\ pc'[t] = step
                      /\ \A u \in Threads : u # t => pc'[u] = pc[u]
BY DEF TypeOK, PcState

LEMMA GetsPointer ==
    ASSUME TypeOK, NEW t \in Threads, NEW p \in Addresses \cup {None}, Obtains(t, p)
    PROVE  /\ cfg' \in [Threads -> Addresses \cup {None}] /\ cfg'[t] = p
           /\ pc' \in [Threads -> PcState] /\ pc'[t] \in {"send", "topic", "use"}
           /\ \A u \in Threads : u # t => pc'[u] = pc[u] /\ cfg'[u] = cfg[u]
<1>1. PICK step \in {"send", "topic", "use"} : GoTo(t, step)
  BY DEF Obtains
<1>2. step \in PcState
  BY DEF PcState, Holding
<1>3. cfg' = [cfg EXCEPT ![t] = p]
  BY DEF Obtains
<1>. QED
  BY <1>1, <1>2, <1>3, Moves DEF TypeOK

LEMMA CountedUp == ASSUME NEW m \in Nat, NEW n \in 0..m, n < m PROVE n + 1 \in 0..m
OBVIOUS

LEMMA Returned == ASSUME TypeOK, NEW ok \in BOOLEAN, Returns(ok) PROVE failures' \in 0..MaxFailures
<1>1. failures \in 0..MaxFailures /\ MaxFailures \in Nat
  BY DEF TypeOK
<1>. QED
  BY <1>1, CountedUp DEF Returns

\* An operation begins: the history records those it overlaps with.
LEMMA Begun ==
    ASSUME TypeOK, NEW t \in Threads, NEW writes \in BOOLEAN, Begins(t, writes)
    PROVE  /\ pc[t] = "idle" /\ calls' \in 0..MaxCalls
           /\ trouble \subseteq trouble' /\ trouble' \subseteq {"ww", "rw", "rr", "read"}
           /\ \A u \in Threads : pc[u] # "idle" =>
                  (IF writes /\ pc[u] \in Writing THEN "ww"
                   ELSE IF writes \/ pc[u] \in Writing THEN "rw" ELSE "rr") \in trouble'
<1> DEFINE kind(u) == IF writes /\ pc[u] \in Writing THEN "ww"
                      ELSE IF writes \/ pc[u] \in Writing THEN "rw" ELSE "rr"
<1>1. trouble' = trouble \cup {kind(u) : u \in {x \in Threads : pc[x] # "idle"}}
  BY DEF Begins
<1>2. \A u : kind(u) \in {"ww", "rw", "rr"}
  OBVIOUS
<1>3. trouble \subseteq {"ww", "rw", "rr", "read"}
  BY DEF TypeOK
<1>4. \A u \in Threads : pc[u] # "idle" => kind(u) \in trouble'
  BY <1>1
<1>5. pc[t] = "idle" /\ calls' \in 0..MaxCalls
  <2>1. calls \in 0..MaxCalls /\ MaxCalls \in Nat
    BY DEF TypeOK
  <2>. QED
    BY <2>1, CountedUp DEF Begins
<1>6. trouble \subseteq trouble' /\ trouble' \subseteq {"ww", "rw", "rr", "read"}
  BY <1>1, <1>2, <1>3
<1> HIDE DEF kind
<1>. QED
  BY <1>4, <1>5, <1>6 DEF kind

\* How the thread t moves, and when it begins, whom it meets.
Meets(t) ==
    \A u \in Threads \ {t} :
        /\ pc'[t] \in Writing /\ pc[u] \in Writing => "ww" \in trouble'
        /\ pc'[t] \in Writing /\ pc[u] \in Reading => "rw" \in trouble'
        /\ pc'[t] \in Reading /\ pc[u] \in Writing => "rw" \in trouble'
        /\ pc'[t] \in Reading /\ pc[u] \in Reading => "rr" \in trouble'

LEMMA PcStep ==
    ASSUME TypeOK, NEW t \in Threads, Set(t) \/ Delete(t) \/ Read(t)
    PROVE  /\ pc' \in [Threads -> PcState] /\ \A u \in Threads : u # t => pc'[u] = pc[u]
           /\ trouble \subseteq trouble'
           /\ \/ pc[t] = "idle" /\ pc'[t] \in {"free", "defaults", "get"} /\ Meets(t)
              \/ pc[t] \in Writing /\ pc'[t] \in Writing \cup {"idle"}
              \/ pc[t] \in Reading /\ pc'[t] \in Reading \cup {"idle"}
<1> DEFINE Good == /\ pc' \in [Threads -> PcState] /\ \A u \in Threads : u # t => pc'[u] = pc[u]
                   /\ trouble \subseteq trouble'
                   /\ \/ pc[t] = "idle" /\ pc'[t] \in {"free", "defaults", "get"} /\ Meets(t)
                      \/ pc[t] \in Writing /\ pc'[t] \in Writing \cup {"idle"}
                      \/ pc[t] \in Reading /\ pc'[t] \in Reading \cup {"idle"}
<1>1. ASSUME NEW step \in Writing \cup {"idle"}, pc[t] \in Writing, GoTo(t, step),
             trouble \subseteq trouble'
      PROVE  Good
  <2>1. step \in PcState
    BY DEF PcState
  <2>. QED
    BY <1>1, <2>1, Moves
<1>2. ASSUME NEW step \in Reading \cup {"idle"}, pc[t] \in Reading, GoTo(t, step),
             trouble \subseteq trouble'
      PROVE  Good
  <2>1. step \in PcState
    BY DEF PcState, Reading, Blocked, Holding
  <2>. QED
    BY <1>2, <2>1, Moves
<1>3. ASSUME NEW p \in Addresses \cup {None}, pc[t] \in Reading, Obtains(t, p),
             trouble \subseteq trouble'
      PROVE  Good
  <2>1. /\ pc' \in [Threads -> PcState] /\ pc'[t] \in {"send", "topic", "use"}
        /\ \A u \in Threads : u # t => pc'[u] = pc[u]
    BY <1>3, GetsPointer
  <2>2. pc'[t] \in Reading \cup {"idle"}
    BY <2>1 DEF Reading, Holding
  <2>. QED
    BY <1>3, <2>1, <2>2
<1>4. ASSUME NEW writes \in BOOLEAN, NEW step \in {"free", "defaults", "get"}, GoTo(t, step),
             Begins(t, writes), writes <=> step # "get"
      PROVE  Good
  <2>1. step \in PcState
    BY DEF PcState, Writing
  <2>2. /\ pc' \in [Threads -> PcState] /\ pc'[t] = step
        /\ \A u \in Threads : u # t => pc'[u] = pc[u]
    BY <1>4, <2>1, Moves
  <2>3. pc[t] = "idle" /\ trouble \subseteq trouble'
    BY <1>4, Begun
  <2>4. ASSUME NEW u \in Threads, pc[u] # "idle"
        PROVE  (IF writes /\ pc[u] \in Writing THEN "ww"
                ELSE IF writes \/ pc[u] \in Writing THEN "rw" ELSE "rr") \in trouble'
    BY <1>4, <2>4, Begun
  <2>5. Meets(t)
    BY <1>4, <2>2, <2>4 DEF Meets, Reading, Holding, Writing
  <2>. QED
    BY <2>2, <2>3, <2>5
<1>5. CASE \E v \in Versions : BeginSet(t, v)
  BY <1>4, <1>5 DEF BeginSet
<1>6. CASE BeginReset(t)
  BY <1>4, <1>6 DEF BeginReset
<1>7. CASE BeginGet(t)
  BY <1>4, <1>7 DEF BeginGet
<1>8. CASE FreeOld(t) \/ Pack(t) \/ Clear(t)
  BY <1>1, <1>8 DEF FreeOld, Pack, Clear, Writing, ghostVars
<1>19. CASE WriteClose(t)
  BY <1>1, <1>19 DEF WriteClose, Writing
<1>9. CASE WriteInfo(t)
  BY <1>1, <1>9 DEF WriteInfo, Writing, ghostVars
<1>10. CASE WriteOpen(t)
  BY <1>1, <1>10 DEF WriteOpen, Writing, ghostVars
<1>11. CASE FileWrite(t) \/ Defaults(t) \/ DeleteFile(t)
  BY <1>1, <1>11 DEF FileWrite, Defaults, DeleteFile, Writing, ghostVars
<1>12. CASE Get(t)
  BY <1>2, <1>3, <1>12 DEF Get, Reading, ghostVars, TypeOK
<1>13. CASE ReadInfo(t)
  BY <1>2, <1>3, <1>13 DEF ReadInfo, Reading, ghostVars
<1>14. CASE ReadOpen(t)
  BY <1>2, <1>3, <1>14 DEF ReadOpen, Reading, ghostVars
<1>15. CASE FileRead(t)
  <2>1. trouble \subseteq trouble'
    BY <1>15 DEF FileRead
  <2>. QED
    BY <1>2, <1>15, <2>1 DEF FileRead, Reading
<1>16. CASE ReadClose(t) \/ Disconnect(t) \/ Reuse(t) \/ SendConfig(t)
  BY <1>2, <1>16 DEF ReadClose, Disconnect, Reuse, SendConfig, Reading, Holding, ghostVars
<1>17. CASE Use(t) \/ Connect(t) \/ Dns(t)
  BY <1>2, <1>17 DEF Use, Connect, Dns, Reading, Holding
<1>20. CASE Topic(t)
  <2>1. PICK step \in {"idle", "disconnect", "reuse", "dns"} : GoTo(t, step)
    BY <1>20 DEF Topic
  <2>. QED
    BY <1>2, <1>20, <2>1 DEF Topic, Reading, Holding
<1>21. CASE Socket(t)
  BY <1>2, <1>21 DEF Socket, Reading, Holding
<1>18. CASE Unpack(t)
  BY <1>3, <1>18 DEF Unpack, Reading, ghostVars
<1>. QED
  BY <1>5, <1>6, <1>7, <1>8, <1>9, <1>10, <1>11, <1>12, <1>13, <1>14, <1>15, <1>16, <1>17, <1>18,
     <1>19, <1>20, <1>21
     DEF Set, Delete, Read

LEMMA PcKinds == PcState = Writing \cup Reading \cup {"idle"} /\ Writing \cap Reading = {}
                 /\ "idle" \notin Writing \cup Reading /\ Freed \subseteq Writing
BY DEF PcState, Blocked, Holding, Writing, Reading, Freed

\* The thread that handles CONFIG keeps its message until the file is closed.
ArgInv == \A t \in Threads : pc[t] \in Freed \cup {"free"} => arg[t] \in Versions

\* A thread that reads does not touch the file or what it is to hold.
LEMMA Reads ==
    ASSUME TypeOK, NEW t \in Threads, Read(t)
    PROVE  /\ pc[t] \in Reading \cup {"idle"} /\ pc'[t] \in Reading \cup {"idle"}
           /\ pc[t] \in Reading \/ pc'[t] \in Reading
           /\ UNCHANGED <<file, out, promised, kept>> /\ \A u \in Threads : u # t => arg'[u] = arg[u]
<1>1. pc[t] \in Reading \cup {"idle"} /\ (pc[t] = "idle" => pc'[t] = "get")
  <2>1. CASE BeginGet(t)
    BY <2>1, Moves DEF BeginGet, Begins, PcState
  <2>2. CASE ~BeginGet(t)
    BY <2>2 DEF Read, Get, ReadInfo, ReadOpen, FileRead, ReadClose, Unpack,
                Use, Topic, Disconnect, Reuse, Socket, Connect, Dns, SendConfig, Reading, Holding
  <2>. QED
    BY <2>1, <2>2
<1>2. pc'[t] \in Reading \cup {"idle"} /\ (pc[t] \in Reading \/ pc'[t] \in Reading)
  BY <1>1, PcStep, PcKinds DEF Reading
<1>3. UNCHANGED <<file, out, promised, kept>> /\ \A u \in Threads : u # t => arg'[u] = arg[u]
  <2>1. CASE BeginGet(t) \/ Get(t) \/ ReadInfo(t) \/ ReadOpen(t) \/ FileRead(t) \/ ReadClose(t) \/ Unpack(t)
    BY <2>1 DEF BeginGet, Get, ReadInfo, ReadOpen, FileRead, ReadClose, Unpack, storeVars, ghostVars, TypeOK
  <2>2. CASE Use(t) \/ Topic(t) \/ Disconnect(t) \/ Reuse(t) \/ Socket(t) \/ Connect(t) \/ Dns(t)
             \/ SendConfig(t)
    BY <2>2 DEF Use, Topic, Disconnect, Reuse, Socket, Connect, Dns, SendConfig, storeVars, ghostVars
  <2>. QED
    BY <2>1, <2>2 DEF Read
<1>. QED
  BY <1>1, <1>2, <1>3

LEMMA ArgStep ==
    ASSUME TypeOK, ArgInv, NEW t \in Threads, Set(t) \/ Delete(t) \/ Read(t)
    PROVE  ArgInv'
<1> DEFINE Setting == Freed \cup {"free"}
<1>1. \A u \in Threads : u # t => pc'[u] = pc[u]
  BY PcStep
<1>2. ASSUME UNCHANGED arg, pc'[t] \in Setting => pc[t] \in Setting PROVE ArgInv'
  BY <1>1, <1>2 DEF ArgInv
<1>3. ASSUME NEW v \in Versions, BeginSet(t, v) PROVE ArgInv'
  <2>1. arg'[t] = v /\ \A u \in Threads : u # t => arg'[u] = arg[u]
    BY <1>3 DEF BeginSet, TypeOK
  <2>. QED
    BY <1>1, <2>1 DEF ArgInv
<1>4. CASE Set(t) /\ ~\E v \in Versions : BeginSet(t, v)
  <2>1. UNCHANGED arg /\ pc[t] \in Setting
    BY <1>4 DEF Set, FreeOld, Pack, WriteInfo, WriteOpen, FileWrite, WriteClose, Clear, Freed
  <2>. QED
    BY <1>2, <2>1
<1>5. CASE Delete(t)
  <2>1. pc'[t] \in {"defaults", "delete", "idle"} /\ UNCHANGED arg
    BY <1>5, Moves DEF Delete, BeginReset, Defaults, DeleteFile, PcState, Writing
  <2>. QED
    BY <1>2, <2>1 DEF Freed
<1>6. CASE Read(t)
  <2>1. pc'[t] \in Reading \cup {"idle"} /\ \A u \in Threads : u # t => arg'[u] = arg[u]
    BY <1>6, Reads
  <2>2. pc'[t] \notin Setting
    BY <2>1 DEF Reading, Holding, Freed
  <2>. QED
    BY <1>1, <2>1, <2>2 DEF ArgInv
<1>. QED
  BY <1>3, <1>4, <1>5, <1>6 DEF Set

LEMMA TypeInit == Init => TypeOK
BY DEF Init, TypeOK, Blocked, Writing

LEMMA TypeStep == TypeOK /\ ArgInv /\ [Next]_vars => TypeOK'
<1> SUFFICES ASSUME TypeOK, ArgInv, [Next]_vars PROVE TypeOK'
  OBVIOUS
<1>1. ASSUME NEW t \in Threads, Set(t) \/ Delete(t) \/ Read(t)
      PROVE  pc' \in [Threads -> Blocked \cup Writing \cup Holding \cup
                                     {"idle", "get", "unpack"}]
  BY <1>1, PcStep DEF PcState
<1>2. ASSUME NEW t \in Threads, NEW w \in BOOLEAN, Begins(t, w)
      PROVE  calls' \in 0..MaxCalls /\ trouble' \subseteq {"ww", "rw", "rr", "read"}
  BY <1>2, Begun
<1>3. CASE Reset
  <2>1. /\ config' \in Addresses \cup {None} /\ heap' \in [Addresses -> Versions \cup {None, Torn}]
        /\ buff' \in Versions \cup {None, Torn}
        /\ pc' \in [Threads -> Blocked \cup Writing \cup Holding \cup
                                 {"idle", "get", "unpack"}]
    BY <1>3 DEF Reset
  <2>2. /\ arg' \in [Threads -> Versions \cup {None, Torn}]
        /\ out' \in [Threads -> Versions \cup {None, Torn}]
        /\ cfg' \in [Threads -> Addresses \cup {None}] /\ again' \in [Threads -> BOOLEAN]
    BY <1>3 DEF Reset
  <2>3. resets' \in 0..MaxResets
    BY <1>3, CountedUp DEF Reset, TypeOK
  <2>. QED
    BY <1>3, <2>1, <2>2, <2>3 DEF Reset, TypeOK
<1>4. ASSUME NEW t \in Threads, Set(t) PROVE TypeOK'
  <2>1. ASSUME NEW v \in Versions, BeginSet(t, v) PROVE TypeOK'
    BY <1>1, <1>2, <1>4, <2>1 DEF BeginSet, TypeOK, storeVars
  <2>2. CASE FreeOld(t)
    <3>1. bad' \subseteq {"double free", "use after free"}
      BY <2>2 DEF FreeOld, TypeOK
    <3>2. heap' \in [Addresses -> Versions \cup {None, Torn}]
      BY <2>2 DEF FreeOld, TypeOK
    <3>. QED
      BY <1>1, <1>4, <2>2, <3>1, <3>2 DEF FreeOld, TypeOK, boundVars
  <2>3. CASE Pack(t)
    BY <1>1, <1>4, <2>3 DEF Pack, TypeOK, ghostVars, boundVars
  <2>8. CASE WriteClose(t)
    <3>1. PICK ok \in BOOLEAN, committed \in BOOLEAN :
             /\ Returns(ok) /\ file' = IF committed THEN out[t] ELSE Torn
             /\ promised' = IF committed /\ out[t] = arg[t] THEN arg[t] ELSE promised
      BY <2>8 DEF WriteClose
    <3>2. failures' \in 0..MaxFailures
      BY <3>1, Returned
    <3>3. pc[t] = "wclose"
      BY <2>8 DEF WriteClose
    <3>4. arg[t] \in Versions
      BY <3>3 DEF ArgInv, Freed
    <3>5. file' \in Versions \cup {None, Torn} /\ promised' \in Versions \cup {None}
      BY <3>1, <3>4 DEF TypeOK
    <3>. QED
      BY <1>1, <1>4, <2>8, <3>2, <3>5 DEF WriteClose, TypeOK
  <2>7. CASE Clear(t)
    BY <1>1, <1>4, <2>7 DEF Clear, TypeOK, boundVars
  <2>4. CASE WriteInfo(t)
    BY <1>1, <1>4, <2>4, Returned DEF WriteInfo, TypeOK, ghostVars, storeVars
  <2>5. CASE WriteOpen(t)
    BY <1>1, <1>4, <2>5, Returned DEF WriteOpen, TypeOK
  <2>6. CASE FileWrite(t)
    <3>1. PICK ok \in BOOLEAN : Returns(ok) /\ out' = [out EXCEPT ![t] = IF ok THEN buff ELSE Torn]
      BY <2>6 DEF FileWrite
    <3>2. failures' \in 0..MaxFailures
      BY <3>1, Returned
    <3>3. out' \in [Threads -> Versions \cup {None, Torn}]
      BY <3>1 DEF TypeOK
    <3>. QED
      BY <1>1, <1>4, <2>6, <3>2, <3>3 DEF FileWrite, TypeOK, ghostVars, storeVars
  <2>. QED
    BY <1>4, <2>1, <2>2, <2>3, <2>4, <2>5, <2>6, <2>7, <2>8 DEF Set
<1>5. ASSUME NEW t \in Threads, Delete(t) PROVE TypeOK'
  <2>1. CASE BeginReset(t)
    BY <1>1, <1>2, <1>5, <2>1 DEF BeginReset, TypeOK, storeVars
  <2>2. CASE Defaults(t)
    BY <1>1, <1>5, <2>2 DEF Defaults, TypeOK, storeVars, ghostVars, boundVars
  <2>3. CASE DeleteFile(t)
    BY <1>1, <1>5, <2>3, Returned DEF DeleteFile, TypeOK
  <2>. QED
    BY <1>5, <2>1, <2>2, <2>3 DEF Delete
<1>6. ASSUME NEW t \in Threads, Read(t) PROVE TypeOK'
  <2>0. ASSUME NEW p \in Addresses \cup {None}, Obtains(t, p)
        PROVE  cfg' \in [Threads -> Addresses \cup {None}]
    BY <2>0, GetsPointer
  <2>1. CASE BeginGet(t)
    BY <1>1, <1>2, <1>6, <2>1 DEF BeginGet, TypeOK, storeVars
  <2>2. CASE Get(t)
    BY <1>1, <1>6, <2>0, <2>2 DEF Get, TypeOK, storeVars, ghostVars, boundVars
  <2>3. CASE ReadInfo(t)
    <3>1. /\ cfg' \in [Threads -> Addresses \cup {None}] /\ config' \in Addresses \cup {None}
          /\ failures' \in 0..MaxFailures
      BY <2>0, <2>3, Returned DEF ReadInfo, TypeOK
    <3>. QED
      BY <1>1, <1>6, <2>3, <3>1 DEF ReadInfo, TypeOK, ghostVars
  <2>4. CASE ReadOpen(t)
    <3>1. /\ cfg' \in [Threads -> Addresses \cup {None}] /\ config' \in Addresses \cup {None}
          /\ failures' \in 0..MaxFailures
      BY <2>0, <2>4, Returned DEF ReadOpen, TypeOK
    <3>. QED
      BY <1>1, <1>6, <2>4, <3>1 DEF ReadOpen, TypeOK, ghostVars
  <2>5. CASE FileRead(t)
    BY <1>1, <1>6, <2>5, Returned DEF FileRead, TypeOK
  <2>6. CASE Unpack(t)
    <3>1. PICK v \in Decoded(t) : IF v = None THEN config' = None /\ heap' = heap /\ Obtains(t, None)
             ELSE \E a \in Addresses : heap[a] = None /\ heap' = [heap EXCEPT ![a] = v]
                                       /\ config' = a /\ Obtains(t, a)
      BY <2>6 DEF Unpack
    <3>2. v \in Versions \cup {None, Torn}
      BY DEF Decoded, TypeOK
    <3>3. /\ cfg' \in [Threads -> Addresses \cup {None}] /\ config' \in Addresses \cup {None}
          /\ heap' \in [Addresses -> Versions \cup {None, Torn}]
      <4>1. CASE v = None
        BY <2>0, <3>1, <4>1 DEF TypeOK
      <4>2. CASE v # None
        <5>1. PICK a \in Addresses : /\ heap[a] = None /\ heap' = [heap EXCEPT ![a] = v]
                                     /\ config' = a /\ Obtains(t, a)
          BY <3>1, <4>2
        <5>. QED
          BY <2>0, <3>2, <5>1 DEF TypeOK
      <4>. QED
        BY <4>1, <4>2
    <3>. QED
      BY <1>1, <1>6, <2>6, <3>3 DEF Unpack, TypeOK, ghostVars, boundVars
  <2>7. CASE Use(t) \/ Reuse(t) \/ SendConfig(t)
    <3>1. bad' \subseteq {"double free", "use after free"} /\ again' \in [Threads -> BOOLEAN]
      BY <2>7 DEF Use, Reuse, SendConfig, Touch, TypeOK
    <3>. QED
      BY <1>1, <1>6, <2>7, <3>1, ZenonT(60) DEF Use, Reuse, SendConfig, TypeOK, storeVars, boundVars
  <2>9. CASE Topic(t) \/ Socket(t) \/ Connect(t) \/ Dns(t)
    <3>1. bad' \subseteq {"double free", "use after free"}
      BY <2>9 DEF Topic, Socket, Connect, Dns, Touch, TypeOK
    <3>. QED
      BY <1>1, <1>6, <2>9, <3>1, ZenonT(60) DEF Topic, Socket, Connect, Dns, TypeOK, storeVars, boundVars
  <2>8. CASE ReadClose(t) \/ Disconnect(t)
    BY <1>1, <1>6, <2>8, ZenonT(60) DEF ReadClose, Disconnect, TypeOK, storeVars, ghostVars, boundVars
  <2>. QED
    BY <1>6, <2>1, <2>2, <2>3, <2>4, <2>5, <2>6, <2>7, <2>8, <2>9 DEF Read
<1>7. CASE UNCHANGED vars
  BY <1>7 DEF TypeOK, vars, storeVars, threadVars, ghostVars, boundVars
<1>. QED
  BY <1>3, <1>4, <1>5, <1>6, <1>7 DEF Next

-----------------------------------------------------------------------------
\* Two operations that are both under way have been recorded.
OverlapInv ==
    \A t, u \in Threads : t # u =>
        /\ pc[t] \in Writing /\ pc[u] \in Writing => "ww" \in trouble
        /\ pc[t] \in Writing /\ pc[u] \in Reading => "rw" \in trouble
        /\ pc[t] \in Reading /\ pc[u] \in Reading => "rr" \in trouble

LEMMA OverlapStep ==
    ASSUME TypeOK, OverlapInv, NEW t \in Threads, Set(t) \/ Delete(t) \/ Read(t)
    PROVE  OverlapInv'
<1>1. /\ pc' \in [Threads -> PcState] /\ \A u \in Threads : u # t => pc'[u] = pc[u]
      /\ trouble \subseteq trouble'
      /\ \/ pc[t] = "idle" /\ pc'[t] \in {"free", "defaults", "get"} /\ Meets(t)
         \/ pc[t] \in Writing /\ pc'[t] \in Writing \cup {"idle"}
         \/ pc[t] \in Reading /\ pc'[t] \in Reading \cup {"idle"}
  BY PcStep
<1>2. CASE pc[t] = "idle" /\ Meets(t)
  BY <1>1, <1>2 DEF OverlapInv, Meets
<1>3. CASE pc[t] \in Writing /\ pc'[t] \in Writing \cup {"idle"}
  BY <1>1, <1>3, PcKinds DEF OverlapInv
<1>4. CASE pc[t] \in Reading /\ pc'[t] \in Reading \cup {"idle"}
  BY <1>1, <1>4, PcKinds DEF OverlapInv
<1>. QED
  BY <1>1, <1>2, <1>3, <1>4

\* What is not recorded does not happen: the threads beside t are idle, or
\* at least do not write.
LEMMA Others ==
    ASSUME TypeOK, OverlapInv, NEW t \in Threads, Set(t) \/ Delete(t) \/ Read(t),
           NEW u \in Threads, u # t
    PROVE  /\ pc'[u] = pc[u]
           /\ trouble' \subseteq {"read"} => pc[u] = "idle"
           /\ trouble' \cap {"rw", "ww"} = {} /\ (pc[t] \in Writing \/ pc'[t] \in Writing)
                  => pc[u] = "idle"
           /\ trouble' \cap {"rw", "ww"} = {} /\ (pc[t] \in Reading \/ pc'[t] \in Reading)
                  => pc[u] \notin Writing
           /\ "ww" \notin trouble' /\ (pc[t] \in Writing \/ pc'[t] \in Writing)
                  => pc[u] \notin Writing
<1>1. /\ pc'[u] = pc[u] /\ trouble \subseteq trouble' /\ OverlapInv'
      /\ pc[t] \in PcState /\ pc'[t] \in PcState /\ pc[u] \in PcState
      /\ pc[t] # "idle" \/ pc'[t] # "idle"
  <2>1. /\ pc' \in [Threads -> PcState] /\ \A x \in Threads : x # t => pc'[x] = pc[x]
        /\ trouble \subseteq trouble' /\ (pc[t] # "idle" \/ pc'[t] # "idle")
    BY PcStep, PcKinds
  <2>2. pc[t] \in PcState /\ pc[u] \in PcState
    BY DEF TypeOK, PcState
  <2>. QED
    BY <2>1, <2>2, OverlapStep
<1>2. /\ pc[t] \in Writing /\ pc[u] \in Writing => "ww" \in trouble
      /\ pc[t] \in Writing /\ pc[u] \in Reading => "rw" \in trouble
      /\ pc[t] \in Reading /\ pc[u] \in Writing => "rw" \in trouble
      /\ pc[t] \in Reading /\ pc[u] \in Reading => "rr" \in trouble
  BY DEF OverlapInv
<1>3. /\ pc'[t] \in Writing /\ pc'[u] \in Writing => "ww" \in trouble'
      /\ pc'[t] \in Writing /\ pc'[u] \in Reading => "rw" \in trouble'
      /\ pc'[t] \in Reading /\ pc'[u] \in Writing => "rw" \in trouble'
      /\ pc'[t] \in Reading /\ pc'[u] \in Reading => "rr" \in trouble'
  BY <1>1 DEF OverlapInv
<1>. QED
  BY <1>1, <1>2, <1>3, PcKinds

-----------------------------------------------------------------------------
\* config dangles only while the file is written, unless two threads write.
DanglingInv ==
    "ww" \notin trouble /\ config # None /\ heap[config] = None => \E t \in Threads : pc[t] \in Freed

LEMMA DanglingStep ==
    ASSUME TypeOK, OverlapInv, DanglingInv, NEW t \in Threads, Set(t) \/ Delete(t) \/ Read(t)
    PROVE  DanglingInv'
<1>1. /\ pc' \in [Threads -> PcState] /\ \A u \in Threads : u # t => pc'[u] = pc[u]
      /\ trouble \subseteq trouble'
  BY PcStep
<1>2. CASE config' = None
  BY <1>2 DEF DanglingInv
<1>3. CASE UNCHANGED <<config, heap>> /\ (pc[t] \in Freed => pc'[t] \in Freed)
  BY <1>1, <1>3 DEF DanglingInv
<1>4. CASE pc'[t] \in Freed
  BY <1>4 DEF DanglingInv
<1>5. CASE Set(t)
  <2>1. CASE \E v \in Versions : BeginSet(t, v)
    BY <1>3, <2>1 DEF BeginSet, Begins, storeVars, Freed
  <2>2. ASSUME NEW step \in Freed, GoTo(t, step) PROVE pc'[t] \in Freed
    BY <2>2, Moves, PcKinds
  <2>3. CASE FreeOld(t) \/ Pack(t) \/ WriteInfo(t) \/ WriteOpen(t) \/ FileWrite(t) \/ WriteClose(t)
    BY <1>4, <2>2, <2>3 DEF FreeOld, Pack, WriteInfo, WriteOpen, FileWrite, WriteClose, Freed
  <2>4. CASE Clear(t)
    BY <1>2, <2>4 DEF Clear
  <2>. QED
    BY <1>5, <2>1, <2>3, <2>4 DEF Set
<1>6. CASE Delete(t)
  BY <1>3, <1>6 DEF Delete, BeginReset, Begins, Defaults, DeleteFile, storeVars, Freed
<1>7. CASE Read(t)
  <2>1. CASE BeginGet(t) \/ Get(t) \/ FileRead(t) \/ ReadClose(t) \/ Use(t) \/ Disconnect(t)
             \/ Reuse(t) \/ SendConfig(t)
    BY <1>3, <2>1 DEF BeginGet, Begins, Get, FileRead, ReadClose, Use, Disconnect, Reuse,
                      SendConfig, storeVars, Freed
  <2>4. CASE Topic(t) \/ Socket(t) \/ Connect(t) \/ Dns(t)
    BY <1>3, <2>4 DEF Topic, Socket, Connect, Dns, storeVars, Freed
  <2>2. CASE ReadInfo(t) \/ ReadOpen(t)
    BY <1>2, <1>3, <2>2 DEF ReadInfo, ReadOpen, Freed
  <2>3. CASE Unpack(t)
    <3>1. CASE \E a \in Addresses : config' = a /\ heap'[a] # None
      BY <3>1 DEF DanglingInv
    <3>. QED
      BY <1>2, <2>3, <3>1, ZenonT(60) DEF Unpack, TypeOK
  <2>. QED
    BY <1>7, <2>1, <2>2, <2>3, <2>4 DEF Read
<1>. QED
  BY <1>5, <1>6, <1>7

\* A pointer that a thread works with is that of an object, unless one writes
\* meanwhile.
PointerInv ==
    trouble \cap {"rw", "ww"} = {} =>
        \A t \in Threads : pc[t] \in Holding \ {"send"} /\ cfg[t] # None => heap[cfg[t]] # None

LEMMA PointerStep ==
    ASSUME TypeOK, OverlapInv, DanglingInv, PointerInv, NEW t \in Threads,
           Set(t) \/ Delete(t) \/ Read(t)
    PROVE  PointerInv'
<1>1. /\ pc' \in [Threads -> PcState] /\ \A u \in Threads : u # t => pc'[u] = pc[u]
      /\ trouble \subseteq trouble'
  BY PcStep
<1> SUFFICES ASSUME trouble' \cap {"rw", "ww"} = {}, NEW u \in Threads,
                    pc'[u] \in Holding \ {"send"}, cfg'[u] # None
             PROVE  heap'[cfg'[u]] # None
  BY DEF PointerInv
<1>2. /\ trouble \cap {"rw", "ww"} = {} /\ cfg[u] \in Addresses \cup {None}
      /\ pc[u] \in Holding \ {"send"} /\ cfg[u] # None => heap[cfg[u]] # None
  BY <1>1 DEF PointerInv, TypeOK
<1>3. CASE Set(t)
  <2>1. pc[t] \in Writing \/ pc'[t] \in Writing
    <3>1. CASE \E v \in Versions : BeginSet(t, v)
      BY <3>1, Moves DEF BeginSet, Writing, PcState
    <3>2. CASE FreeOld(t) \/ Pack(t) \/ WriteInfo(t) \/ WriteOpen(t)
      BY <3>2 DEF FreeOld, Pack, WriteInfo, WriteOpen, Writing
    <3>3. CASE FileWrite(t) \/ WriteClose(t) \/ Clear(t)
      BY <3>3 DEF FileWrite, WriteClose, Clear, Writing
    <3>. QED
      BY <1>3, <3>1, <3>2, <3>3 DEF Set
  <2>2. u = t
    BY <1>2, <1>3, <2>1, Others DEF Holding
  <2>3. pc'[t] \in Writing \cup {"idle"}
    BY <1>3, <2>1, PcStep, PcKinds
  <2>. QED
    BY <2>2, <2>3 DEF Writing, Holding
<1>4. CASE UNCHANGED <<heap, cfg>> /\ (u = t => pc[u] \in Holding \ {"send"})
  BY <1>1, <1>2, <1>4
<1>5. CASE Delete(t)
  <2>1. UNCHANGED <<heap, cfg>>
    BY <1>5 DEF Delete, BeginReset, Defaults, DeleteFile, storeVars
  <2>2. pc'[t] \in {"defaults", "delete", "idle"}
    BY <1>5, Moves DEF Delete, BeginReset, Defaults, DeleteFile, PcState, Writing
  <2>. QED
    BY <1>4, <2>1, <2>2 DEF Holding
<1>6. CASE Read(t)
  <2>1. ASSUME NEW p \in Addresses \cup {None}, Obtains(t, p), p # None => heap'[p] # None,
               \A a \in Addresses : heap[a] # None => heap'[a] # None
        PROVE  heap'[cfg'[u]] # None
    <3>1. cfg'[t] = p /\ \A x \in Threads : x # t => cfg'[x] = cfg[x]
      BY <2>1, GetsPointer
    <3>. QED
      BY <1>1, <1>2, <2>1, <3>1
  <2>2. ASSUME NEW step \in {"idle", "get", "send", "rinfo", "ropen", "read", "rclose", "unpack"},
               GoTo(t, step), UNCHANGED <<heap, cfg>>
        PROVE  heap'[cfg'[u]] # None
    <3>1. pc'[t] = step
      BY <2>2, Moves DEF PcState, Blocked, Holding
    <3>. QED
      BY <1>4, <2>2, <3>1 DEF Holding
  <2>3. CASE BeginGet(t) \/ FileRead(t) \/ ReadClose(t) \/ Use(t) \/ SendConfig(t)
    BY <2>2, <2>3 DEF BeginGet, FileRead, ReadClose, Use, SendConfig, storeVars
  <2>4. CASE Topic(t) \/ Disconnect(t) \/ Reuse(t) \/ Socket(t) \/ Connect(t) \/ Dns(t)
    BY <1>4, <2>4 DEF Topic, Disconnect, Reuse, Socket, Connect, Dns, storeVars, Holding
  <2>5. CASE Get(t)
    <3>1. CASE config = None
      BY <2>2, <2>5, <3>1 DEF Get, storeVars
    <3>2. CASE config # None
      <4>1. pc[t] \in Reading
        BY <2>5 DEF Get, Reading
      <4>2. \A x \in Threads : pc[x] \notin Freed
        BY <1>6, <4>1, Others, PcKinds
      <4>3. heap[config] # None
        BY <1>2, <3>2, <4>2 DEF DanglingInv
      <4>. QED
        BY <2>1, <2>5, <3>2, <4>3 DEF Get, TypeOK, storeVars
    <3>. QED
      BY <3>1, <3>2
  <2>6. CASE ReadInfo(t) \/ ReadOpen(t)
    BY <2>1, <2>2, <2>6 DEF ReadInfo, ReadOpen
  <2>7. CASE Unpack(t)
    <3>1. PICK v \in Decoded(t) : IF v = None THEN config' = None /\ heap' = heap /\ Obtains(t, None)
             ELSE \E a \in Addresses : heap[a] = None /\ heap' = [heap EXCEPT ![a] = v]
                                       /\ config' = a /\ Obtains(t, a)
      BY <2>7 DEF Unpack
    <3>2. CASE v = None
      BY <2>1, <3>1, <3>2
    <3>3. CASE v # None
      <4>1. PICK a \in Addresses : heap' = [heap EXCEPT ![a] = v] /\ Obtains(t, a)
        BY <3>1, <3>3
      <4>2. heap'[a] # None /\ \A b \in Addresses : heap[b] # None => heap'[b] # None
        BY <3>3, <4>1 DEF TypeOK
      <4>. QED
        BY <2>1, <4>1, <4>2
    <3>. QED
      BY <3>2, <3>3
  <2>. QED
    BY <1>6, <2>3, <2>4, <2>5, <2>6, <2>7 DEF Read
<1>. QED
  BY <1>3, <1>5, <1>6

LEMMA FreedStep ==
    ASSUME TypeOK, OverlapInv, DanglingInv, PointerInv, FreedOnce, NEW t \in Threads,
           Set(t) \/ Delete(t) \/ Read(t)
    PROVE  FreedOnce'
<1>1. trouble \subseteq trouble'
  BY PcStep
<1>2. CASE bad' = bad
  BY <1>1, <1>2 DEF FreedOnce
<1>3. CASE FreeOld(t)
  <2>1. ASSUME config # None, heap[config] = None, "ww" \notin trouble' PROVE FALSE
    <3>1. PICK u \in Threads : pc[u] \in Freed
      BY <1>1, <2>1 DEF DanglingInv
    <3>2. pc[t] = "free"
      BY <1>3 DEF FreeOld
    <3>3. pc[u] \in Writing /\ pc[t] \in Writing /\ u # t
      BY <3>1, <3>2 DEF Writing, Freed
    <3>. QED
      BY <2>1, <3>3, Others
  <2>2. CASE "ww" \in trouble'
    BY <2>2 DEF FreedOnce
  <2>. QED
    BY <1>2, <1>3, <2>1, <2>2 DEF FreeOld
<1>4. ASSUME NEW p \in Addresses \cup {None}, Touch(p),
             trouble' \cap {"rw", "ww"} = {} /\ p # None => heap[p] # None
      PROVE  FreedOnce'
  BY <1>1, <1>4 DEF Touch, FreedOnce
<1>5. CASE (Use(t) \/ Topic(t) \/ Reuse(t) \/ Socket(t) \/ Connect(t) \/ Dns(t)) /\ Touch(cfg[t])
  <2>1. cfg[t] \in Addresses \cup {None} /\ pc[t] \in Holding \ {"send"} /\ Touch(cfg[t])
    BY <1>5 DEF Use, Topic, Reuse, Socket, Connect, Dns, Holding, TypeOK
  <2>2. trouble' \cap {"rw", "ww"} = {} /\ cfg[t] # None => heap[cfg[t]] # None
    BY <1>1, <2>1 DEF PointerInv
  <2>. QED
    BY <1>4, <2>1, <2>2
<1>6. CASE SendConfig(t)
  <2>1. config \in Addresses \cup {None} /\ pc[t] \in Reading /\ Touch(config)
    BY <1>6 DEF SendConfig, TypeOK, Reading, Holding
  <2>2. ASSUME trouble' \cap {"rw", "ww"} = {}, config # None, heap[config] = None PROVE FALSE
    <3>1. PICK u \in Threads : pc[u] \in Freed
      BY <1>1, <2>2 DEF DanglingInv
    <3>2. u # t /\ pc[u] \in Writing
      BY <2>1, <3>1, PcKinds
    <3>. QED
      BY <2>1, <2>2, <3>2, Others
  <2>. QED
    BY <1>4, <2>1, <2>2
<1>7. CASE Set(t) /\ ~FreeOld(t)
  BY <1>2, <1>7 DEF Set, BeginSet, Pack, WriteInfo, WriteOpen, FileWrite, WriteClose, Clear, ghostVars
<1>8. CASE Delete(t)
  BY <1>2, <1>8 DEF Delete, BeginReset, Defaults, DeleteFile, ghostVars
<1>9. CASE BeginGet(t) \/ Get(t) \/ ReadInfo(t) \/ ReadOpen(t) \/ FileRead(t) \/ ReadClose(t)
           \/ Unpack(t) \/ Disconnect(t)
  BY <1>2, <1>9 DEF BeginGet, Get, ReadInfo, ReadOpen, FileRead, ReadClose, Unpack, Disconnect, ghostVars
<1>10. CASE Use(t) \/ Topic(t) \/ Reuse(t) \/ Socket(t) \/ Connect(t) \/ Dns(t)
  BY <1>2, <1>5, <1>10 DEF Use, Topic, Reuse, Socket, Connect, Dns
<1>. QED
  BY <1>3, <1>6, <1>7, <1>8, <1>9, <1>10 DEF Read

-----------------------------------------------------------------------------
\* A thread that is alone reads the file only when nothing is cached, and has
\* freed everything when it writes it.
LeakInv ==
    trouble \subseteq {"read"} =>
        /\ \A a \in Addresses : heap[a] # None => config = a
        /\ \A t \in Threads : pc[t] \in {"rinfo", "ropen", "read", "rclose", "unpack"} => config = None
        /\ \A t \in Threads : pc[t] \in Freed => \A a \in Addresses : heap[a] = None

LEMMA LeakStep ==
    ASSUME TypeOK, OverlapInv, LeakInv, NEW t \in Threads, Set(t) \/ Delete(t) \/ Read(t)
    PROVE  LeakInv'
<1> SUFFICES ASSUME trouble' \subseteq {"read"} PROVE LeakInv'
  BY DEF LeakInv
<1> DEFINE Fetching == {"rinfo", "ropen", "read", "rclose", "unpack"}
           Good == /\ \A a \in Addresses : heap'[a] # None => config' = a
                   /\ pc'[t] \in Fetching => config' = None
                   /\ pc'[t] \in Freed => \A a \in Addresses : heap'[a] = None
<1>1. /\ \A u \in Threads : u # t => pc'[u] = "idle"
      /\ trouble \subseteq {"read"} /\ pc' \in [Threads -> PcState]
  BY Others, PcStep
<1>2. /\ \A a \in Addresses : heap[a] # None => config = a
      /\ pc[t] \in Fetching => config = None
      /\ pc[t] \in Freed => \A a \in Addresses : heap[a] = None
      /\ config \in Addresses \cup {None}
  BY <1>1 DEF LeakInv, TypeOK
<1>3. SUFFICES Good
  BY <1>1 DEF LeakInv, Freed
<1>4. CASE /\ UNCHANGED <<config, heap>>
           /\ pc'[t] \in Fetching => pc[t] \in Fetching \/ config = None
           /\ pc'[t] \in Freed => pc[t] \in Freed
  BY <1>2, <1>4
<1>5. ASSUME NEW step \in PcState, GoTo(t, step) PROVE pc'[t] = step
  BY <1>5, Moves
<1>6. CASE Set(t)
  <2>1. CASE \E v \in Versions : BeginSet(t, v)
    <3>1. pc'[t] = "free" /\ UNCHANGED <<config, heap>>
      BY <1>5, <2>1 DEF BeginSet, storeVars, PcState, Writing
    <3>. QED
      BY <1>4, <3>1 DEF Freed
  <2>2. CASE FreeOld(t)
    <3>1. pc'[t] = "pack"
      BY <1>5, <2>2 DEF FreeOld, PcState, Writing
    <3>2. \A a \in Addresses : heap'[a] = None
      BY <1>2, <2>2, ZenonT(60) DEF FreeOld, TypeOK
    <3>. QED
      BY <3>1, <3>2
  <2>3. CASE Pack(t) \/ WriteInfo(t) \/ WriteOpen(t) \/ FileWrite(t) \/ WriteClose(t)
    <3>1. pc[t] \in Freed /\ UNCHANGED <<config, heap>>
      BY <2>3 DEF Pack, WriteInfo, WriteOpen, FileWrite, WriteClose, Freed, storeVars
    <3>2. pc'[t] \notin Fetching
      BY <1>5, <2>3 DEF Pack, WriteInfo, WriteOpen, FileWrite, WriteClose, PcState, Writing
    <3>. QED
      BY <1>4, <3>1, <3>2
  <2>4. CASE Clear(t)
    <3>1. pc'[t] = "idle" /\ pc[t] \in Freed /\ heap' = heap
      BY <1>5, <2>4 DEF Clear, PcState, Freed
    <3>. QED
      BY <1>2, <3>1 DEF Freed
  <2>. QED
    BY <1>6, <2>1, <2>2, <2>3, <2>4 DEF Set
<1>7. CASE Delete(t)
  <2>1. UNCHANGED <<config, heap>>
    BY <1>7 DEF Delete, BeginReset, Defaults, DeleteFile, storeVars
  <2>2. pc'[t] \in {"defaults", "delete", "idle"}
    BY <1>5, <1>7 DEF Delete, BeginReset, Defaults, DeleteFile, PcState, Writing
  <2>. QED
    BY <1>4, <2>1, <2>2 DEF Freed
<1>8. CASE Read(t)
  <2>1. ASSUME NEW p \in Addresses \cup {None}, Obtains(t, p)
        PROVE  pc'[t] \notin Fetching \cup Freed
    <3>1. pc'[t] \in {"send", "topic", "use"}
      BY <2>1, GetsPointer
    <3>. QED
      BY <3>1 DEF Freed
  <2>2. CASE BeginGet(t) \/ Use(t) \/ Disconnect(t) \/ Reuse(t) \/ SendConfig(t)
    <3>1. pc'[t] \notin Fetching \cup Freed
      BY <1>5, <2>2 DEF BeginGet, Use, Disconnect, Reuse, SendConfig, PcState, Holding, Freed
    <3>. QED
      BY <1>4, <2>2, <3>1 DEF BeginGet, Use, Disconnect, Reuse, SendConfig, storeVars
  <2>7. CASE Topic(t) \/ Socket(t) \/ Connect(t) \/ Dns(t)
    <3>1. PICK step \in {"idle", "disconnect", "reuse", "dns", "connect"} : GoTo(t, step)
      BY <2>7 DEF Topic, Socket, Connect, Dns
    <3>2. pc'[t] \notin Fetching \cup Freed
      BY <1>5, <3>1 DEF PcState, Holding, Freed
    <3>. QED
      BY <1>4, <2>7, <3>2 DEF Topic, Socket, Connect, Dns, storeVars
  <2>3. CASE FileRead(t) \/ ReadClose(t)
    <3>1. pc[t] \in Fetching /\ pc'[t] \notin Freed
      BY <1>5, <2>3 DEF FileRead, ReadClose, PcState, Blocked, Freed
    <3>. QED
      BY <1>4, <2>3, <3>1 DEF FileRead, ReadClose, storeVars
  <2>4. CASE Get(t)
    <3>1. CASE config = None
      <4>1. pc'[t] = "rinfo"
        BY <1>5, <2>4, <3>1 DEF Get, PcState, Blocked
      <4>. QED
        BY <1>4, <2>4, <3>1, <4>1 DEF Get, storeVars, Freed
    <3>2. CASE config # None
      BY <1>2, <1>4, <2>1, <2>4, <3>2 DEF Get, storeVars
    <3>. QED
      BY <3>1, <3>2
  <2>5. CASE ReadInfo(t) \/ ReadOpen(t)
    <3>1. pc[t] \in Fetching /\ pc'[t] \notin Freed
      BY <1>5, <2>1, <2>5 DEF ReadInfo, ReadOpen, PcState, Blocked, Freed
    <3>2. UNCHANGED <<config, heap>>
      BY <1>2, <2>5, <3>1 DEF ReadInfo, ReadOpen
    <3>. QED
      BY <1>4, <3>1, <3>2
  <2>6. CASE Unpack(t)
    <3>1. PICK v \in Decoded(t) : IF v = None THEN config' = None /\ heap' = heap /\ Obtains(t, None)
             ELSE \E a \in Addresses : heap[a] = None /\ heap' = [heap EXCEPT ![a] = v]
                                       /\ config' = a /\ Obtains(t, a)
      BY <2>6 DEF Unpack
    <3>2. config = None
      BY <1>2, <2>6 DEF Unpack
    <3>3. CASE v = None
      BY <1>2, <2>1, <3>1, <3>2, <3>3
    <3>4. CASE v # None
      <4>1. PICK a \in Addresses : heap' = [heap EXCEPT ![a] = v] /\ config' = a /\ Obtains(t, a)
        BY <3>1, <3>4
      <4>2. \A b \in Addresses : b # a => heap'[b] = None
        BY <1>2, <3>2, <4>1 DEF TypeOK
      <4>. QED
        BY <2>1, <4>1, <4>2
    <3>. QED
      BY <3>3, <3>4
  <2>. QED
    BY <1>8, <2>2, <2>3, <2>4, <2>5, <2>6, <2>7 DEF Read
<1>. QED
  BY <1>6, <1>7, <1>8

-----------------------------------------------------------------------------
\* What was stored last is in the file, or it is lost and the file holds
\* nothing; who writes has packed his message into the buffer, ...
FileInv ==
    /\ file = promised \/ (promised = None /\ file = Torn)
    /\ \A t \in Threads : /\ pc[t] \in {"write", "wclose"} => promised = None
                          /\ pc[t] \in {"winfo", "wopen", "write"} => buff = arg[t]
                          /\ pc[t] = "wclose" => out[t] \in {arg[t], Torn}

\* ... those who read the file have what it holds in the buffer, ...
ReadInv ==
    \A t \in Threads : /\ pc[t] \in {"ropen", "read", "rclose", "unpack"} => arg[t] = file
                       /\ pc[t] \in {"rclose", "unpack"} => buff = file

\* ... and what is cached is what the file holds, or held when it was deleted.
Stored == {promised, kept} \ {None}

CacheInv ==
    (\A t \in Threads : pc[t] \notin Freed) =>
        /\ config # None => heap[config] \in Stored
        /\ promised = None \/ kept = None

GotInv == \A t \in Threads : pc[t] \in Holding /\ cfg[t] # None => heap[cfg[t]] \in Stored

StoreInv == trouble \subseteq {"rr"} => FileInv /\ ReadInv /\ CacheInv /\ GotInv

\* The thread that writes is alone.
LEMMA StoreSetStep ==
    ASSUME TypeOK, OverlapInv, ArgInv, StoreInv, NEW t \in Threads, Set(t) \/ Delete(t)
    PROVE  StoreInv'
<1> SUFFICES ASSUME trouble' \subseteq {"rr"} PROVE (FileInv /\ ReadInv /\ CacheInv /\ GotInv)'
  BY DEF StoreInv
<1>1. pc[t] \in Writing \/ pc'[t] \in Writing
  <2>1. CASE (\E v \in Versions : BeginSet(t, v)) \/ BeginReset(t)
    BY <2>1, Moves DEF BeginSet, BeginReset, Writing, PcState
  <2>. QED
    BY <2>1, ZenonT(30) DEF Set, Delete, FreeOld, Pack, WriteInfo, WriteOpen, FileWrite, WriteClose, Clear,
                Defaults, DeleteFile, Writing
<1>2. /\ \A u \in Threads : u # t => pc[u] = "idle" /\ pc'[u] = "idle"
      /\ pc' \in [Threads -> PcState] /\ trouble \subseteq {"rr"}
      /\ pc'[t] \in Writing \cup {"idle"} /\ pc[t] \in Writing \cup {"idle"}
  <2>1. pc'[t] \in Writing \cup {"idle"} /\ pc[t] \in Writing \cup {"idle"}
    BY <1>1, PcStep, PcKinds
  <2>2. trouble \subseteq trouble' /\ pc' \in [Threads -> PcState]
    BY PcStep
  <2>. QED
    BY <1>1, <2>1, <2>2, Others
<1>3. FileInv /\ CacheInv
  BY <1>2 DEF StoreInv
<1>4. ReadInv' /\ GotInv'
  <2>1. pc'[t] \notin Reading
    BY <1>2, PcKinds
  <2>. QED
    BY <1>2, <2>1 DEF ReadInv, GotInv, Reading, Holding
<1> DEFINE FileGood == /\ file' = promised' \/ (promised' = None /\ file' = Torn)
                       /\ pc'[t] \in {"write", "wclose"} => promised' = None
                       /\ pc'[t] \in {"winfo", "wopen", "write"} => buff' = arg'[t]
                       /\ pc'[t] = "wclose" => out'[t] \in {arg'[t], Torn}
           CacheGood == pc'[t] \notin Freed =>
                           /\ config' # None => heap'[config'] \in Stored'
                           /\ promised' = None \/ kept' = None
<1>5. SUFFICES FileGood /\ CacheGood
  <2>1. ASSUME FileGood PROVE FileInv'
    BY <1>2, <2>1 DEF FileInv
  <2>2. ASSUME CacheGood PROVE CacheInv'
    BY <2>2 DEF CacheInv
  <2>. QED
    BY <1>4, <2>1, <2>2
<1>6. /\ file = promised \/ (promised = None /\ file = Torn)
      /\ pc[t] \in {"write", "wclose"} => promised = None
      /\ pc[t] \in {"winfo", "wopen", "write"} => buff = arg[t]
      /\ pc[t] = "wclose" => out[t] \in {arg[t], Torn}
      /\ pc[t] \notin Freed => /\ config # None => heap[config] \in {promised, kept} \ {None}
                               /\ promised = None \/ kept = None
  BY <1>2, <1>3 DEF FileInv, CacheInv, Stored, Freed
<1>7. ASSUME NEW step \in Writing \cup {"idle"}, GoTo(t, step) PROVE pc'[t] = step
  BY <1>7, Moves DEF PcState
<1>8. CASE (\E v \in Versions : BeginSet(t, v)) \/ BeginReset(t) \/ Defaults(t)
  <2>1. pc'[t] \in {"free", "defaults", "delete"} /\ pc[t] \notin Freed
    BY <1>7, <1>8 DEF BeginSet, BeginReset, Defaults, Begins, Writing, Freed
  <2>2. UNCHANGED <<config, heap, buff, file, promised, kept>>
    BY <1>8 DEF BeginSet, BeginReset, Defaults, storeVars, ghostVars
  <2>. QED
    BY <1>6, <2>1, <2>2 DEF Stored
<1>9. CASE FreeOld(t) \/ Pack(t)
  <2>1. pc'[t] = "pack" \/ (pc'[t] = "winfo" /\ buff' = arg'[t])
    BY <1>7, <1>9 DEF FreeOld, Pack, Writing
  <2>2. UNCHANGED <<file, promised>>
    BY <1>9 DEF FreeOld, Pack, ghostVars
  <2>. QED
    BY <1>6, <2>1, <2>2 DEF Freed
<1>10. CASE WriteInfo(t)
  <2>1. pc'[t] \in {"wopen", "clear"} /\ pc[t] = "winfo"
    BY <1>7, <1>10 DEF WriteInfo, Writing
  <2>2. UNCHANGED <<file, promised, buff, arg>>
    BY <1>10 DEF WriteInfo, storeVars, ghostVars
  <2>. QED
    BY <1>6, <2>1, <2>2 DEF Freed
<1>11. CASE WriteOpen(t)
  <2>1. UNCHANGED <<buff, arg>> /\ pc[t] = "wopen"
    BY <1>11 DEF WriteOpen
  <2>2. CASE GoTo(t, "write") /\ file' = Torn /\ promised' = None
    BY <1>6, <1>7, <2>1, <2>2 DEF Writing, Freed
  <2>3. CASE GoTo(t, "clear") /\ UNCHANGED <<file, promised>>
    BY <1>6, <1>7, <2>3 DEF Writing, Freed
  <2>. QED
    BY <1>11, <2>2, <2>3 DEF WriteOpen
<1>12. CASE FileWrite(t)
  <2>1. pc'[t] = "wclose" /\ pc[t] = "write" /\ UNCHANGED <<file, promised, arg>>
    BY <1>7, <1>12 DEF FileWrite, Writing, storeVars, ghostVars
  <2>2. out'[t] \in {buff, Torn}
    BY <1>12 DEF FileWrite, TypeOK
  <2>. QED
    BY <1>6, <2>1, <2>2 DEF Freed
<1>13. CASE WriteClose(t)
  <2>1. pc'[t] = "clear" /\ pc[t] = "wclose"
    BY <1>7, <1>13 DEF WriteClose, Writing
  <2>2. arg[t] # Torn
    BY <2>1 DEF ArgInv, Freed
  <2>3. PICK committed \in BOOLEAN :
           /\ file' = IF committed THEN out[t] ELSE Torn
           /\ promised' = IF committed /\ out[t] = arg[t] THEN arg[t] ELSE promised
    BY <1>13 DEF WriteClose
  <2>. QED
    BY <1>6, <2>1, <2>2, <2>3 DEF Freed
<1>14. CASE Clear(t)
  <2>1. pc'[t] = "idle" /\ config' = None /\ kept' = None /\ UNCHANGED <<file, promised>>
    BY <1>7, <1>14 DEF Clear
  <2>. QED
    BY <1>6, <2>1
<1>15. CASE DeleteFile(t)
  <2>1. pc'[t] = "idle" /\ UNCHANGED <<config, heap>> /\ pc[t] \notin Freed
    BY <1>7, <1>15 DEF DeleteFile, Freed
  <2>2. CASE UNCHANGED <<file, promised, kept>>
    BY <1>6, <2>1, <2>2 DEF Stored
  <2>3. CASE file' = None /\ promised' = None
             /\ kept' = IF config = None THEN None ELSE IF promised # None THEN promised ELSE kept
    BY <1>6, <2>1, <2>3 DEF Stored
  <2>. QED
    BY <1>15, <2>2, <2>3 DEF DeleteFile
<1>. QED
  BY <1>8, <1>9, <1>10, <1>11, <1>12, <1>13, <1>14, <1>15 DEF Set, Delete

\* Beside a thread that reads nobody writes.
LEMMA StoreReadStep ==
    ASSUME TypeOK, OverlapInv, StoreInv, NEW t \in Threads, Read(t)
    PROVE  StoreInv'
<1> SUFFICES ASSUME trouble' \subseteq {"rr"} PROVE (FileInv /\ ReadInv /\ CacheInv /\ GotInv)'
  BY DEF StoreInv
<1>1. /\ pc[t] \in Reading \cup {"idle"} /\ pc'[t] \in Reading \cup {"idle"}
      /\ pc[t] \in Reading \/ pc'[t] \in Reading
  BY Reads
<1>2. /\ \A u \in Threads : u # t => pc'[u] = pc[u]
      /\ \A u \in Threads : pc[u] \notin Writing /\ pc'[u] \notin Writing
      /\ pc' \in [Threads -> PcState] /\ trouble \subseteq {"rr"}
  <2>1. trouble \subseteq trouble' /\ pc' \in [Threads -> PcState]
    BY PcStep
  <2>. QED
    BY <1>1, <2>1, Others, PcKinds
<1>3. FileInv /\ ReadInv /\ CacheInv /\ GotInv
  BY <1>2 DEF StoreInv
<1>4. UNCHANGED <<file, promised, kept>> /\ Stored' = Stored
  BY Reads DEF Stored
<1>5. FileInv'
  BY <1>2, <1>3, <1>4 DEF FileInv, Writing
<1>6. /\ config # None => heap[config] \in Stored
      /\ file \in Versions => file \in Stored
      /\ promised = None \/ kept = None
      /\ pc[t] \in {"ropen", "read", "rclose", "unpack"} => arg[t] = file
      /\ pc[t] \in {"rclose", "unpack"} => buff = file
  <2>1. \A u \in Threads : pc[u] \notin Freed
    BY <1>2, PcKinds
  <2>. QED
    BY <1>3, <2>1 DEF FileInv, ReadInv, CacheInv, Stored
<1>7. ASSUME NEW step \in PcState, GoTo(t, step) PROVE pc'[t] = step
  BY <1>7, Moves
\* How the thread reads.
<1>8. ReadInv'
  <2>1. buff' = buff \/ buff' = file
    <3>1. CASE FileRead(t)
      BY <3>1 DEF FileRead
    <3>2. CASE BeginGet(t) \/ Get(t) \/ ReadInfo(t) \/ ReadOpen(t) \/ ReadClose(t) \/ Unpack(t)
      BY <3>2 DEF BeginGet, Get, ReadInfo, ReadOpen, ReadClose, Unpack, storeVars
    <3>3. CASE Use(t) \/ Topic(t) \/ Disconnect(t) \/ Reuse(t) \/ Socket(t) \/ Connect(t) \/ Dns(t)
               \/ SendConfig(t)
      BY <3>3 DEF Use, Topic, Disconnect, Reuse, Socket, Connect, Dns, SendConfig, storeVars
    <3>. QED
      BY <3>1, <3>2, <3>3 DEF Read
  <2>2. /\ pc'[t] \in {"ropen", "read", "rclose", "unpack"} => arg'[t] = file
        /\ pc'[t] \in {"rclose", "unpack"} => buff' = file
    <3>1. CASE BeginGet(t) \/ Get(t) \/ Unpack(t)
      <4>1. pc'[t] \in {"get", "rinfo", "send", "topic", "use"}
        BY <1>7, <3>1, GetsPointer DEF BeginGet, Get, Unpack, PcState, Blocked, TypeOK
      <4>. QED
        BY <4>1
    <3>6. CASE Use(t) \/ Topic(t) \/ Disconnect(t) \/ Reuse(t) \/ Socket(t) \/ Connect(t) \/ Dns(t)
               \/ SendConfig(t)
      <4>1. PICK step \in Holding \cup {"idle", "get"} : GoTo(t, step)
        BY <3>6 DEF Use, Topic, Disconnect, Reuse, Socket, Connect, Dns, SendConfig, Holding
      <4>2. pc'[t] = step
        BY <1>7, <4>1 DEF PcState
      <4>. QED
        BY <4>1, <4>2 DEF Holding
    <3>2. CASE ReadInfo(t)
      <4>1. pc'[t] \in {"ropen", "send", "topic", "use"}
        BY <1>7, <3>2, GetsPointer DEF ReadInfo, PcState, Blocked
      <4>2. arg'[t] = file
        BY <3>2 DEF ReadInfo, TypeOK
      <4>. QED
        BY <4>1, <4>2
    <3>3. CASE ReadOpen(t)
      <4>1. pc'[t] \in {"read", "send", "topic", "use"}
        BY <1>7, <3>3, GetsPointer DEF ReadOpen, PcState, Blocked
      <4>. QED
        BY <1>6, <3>3, <4>1 DEF ReadOpen
    <3>4. CASE FileRead(t)
      BY <1>6, <3>4 DEF FileRead
    <3>5. CASE ReadClose(t)
      BY <1>6, <3>5 DEF ReadClose, storeVars
    <3>. QED
      BY <3>1, <3>2, <3>3, <3>4, <3>5, <3>6 DEF Read
  <2>3. \A u \in Threads : u # t => arg'[u] = arg[u]
    BY Reads
  <2>. QED
    BY <1>2, <1>3, <1>4, <2>1, <2>2, <2>3 DEF ReadInv
\* What it gets: nothing, what is cached, or what it has read.
<1>9. CASE UNCHANGED <<config, heap, cfg>> /\ (pc'[t] \in Holding => pc[t] \in Holding)
  <2>1. CacheInv'
    BY <1>4, <1>6, <1>9 DEF CacheInv
  <2>2. GotInv'
    BY <1>2, <1>3, <1>4, <1>9 DEF GotInv
  <2>. QED
    BY <1>5, <1>8, <2>1, <2>2
<1>10. ASSUME NEW p \in Addresses \cup {None}, Obtains(t, p), config' \in {config, p, None},
              p # None => heap'[p] \in Stored,
              \A a \in Addresses : heap[a] # None => heap'[a] = heap[a]
       PROVE  CacheInv' /\ GotInv'
  <2>1. cfg'[t] = p /\ \A u \in Threads : u # t => cfg'[u] = cfg[u]
    BY <1>10, GetsPointer
  <2>2. /\ config \in Addresses \cup {None} /\ cfg \in [Threads -> Addresses \cup {None}]
        /\ None \notin Stored
    BY DEF TypeOK, Stored
  <2>3. CacheInv'
    BY <1>4, <1>6, <1>10, <2>2 DEF CacheInv
  <2>4. ASSUME NEW u \in Threads, cfg'[u] # None, pc'[u] \in Holding PROVE heap'[cfg'[u]] \in Stored
    <3>1. CASE u = t
      BY <1>10, <2>1, <2>4, <3>1
    <3>2. CASE u # t
      <4>1. cfg[u] \in Addresses /\ cfg'[u] = cfg[u] /\ heap[cfg[u]] \in Stored
        BY <1>2, <1>3, <2>1, <2>2, <2>4, <3>2 DEF GotInv
      <4>. QED
        BY <1>10, <2>2, <4>1
    <3>. QED
      BY <3>1, <3>2
  <2>. QED
    BY <1>4, <2>3, <2>4 DEF GotInv
<1>11. CASE BeginGet(t) \/ FileRead(t) \/ ReadClose(t)
  <2>1. UNCHANGED <<config, heap, cfg>>
    BY <1>11 DEF BeginGet, FileRead, ReadClose, storeVars
  <2>2. pc'[t] \in {"get", "rclose", "unpack"}
    BY <1>7, <1>11 DEF BeginGet, FileRead, ReadClose, PcState, Blocked
  <2>. QED
    BY <1>9, <2>1, <2>2 DEF Holding
<1>15. CASE Use(t) \/ Topic(t) \/ Disconnect(t) \/ Reuse(t) \/ Socket(t) \/ Connect(t) \/ Dns(t)
            \/ SendConfig(t)
  <2>1. UNCHANGED <<config, heap, cfg>> /\ pc[t] \in Holding
    BY <1>15 DEF Use, Topic, Disconnect, Reuse, Socket, Connect, Dns, SendConfig, storeVars, Holding
  <2>. QED
    BY <1>9, <2>1
<1>12. CASE Get(t)
  <2>1. CASE config = None
    <3>1. pc'[t] = "rinfo" /\ UNCHANGED <<config, heap, cfg>>
      BY <1>7, <1>12, <2>1 DEF Get, PcState, Blocked, storeVars
    <3>. QED
      BY <1>9, <3>1 DEF Holding
  <2>2. CASE config # None
    <3>1. Obtains(t, config) /\ UNCHANGED <<config, heap>> /\ config \in Addresses \cup {None}
      BY <1>12, <2>2 DEF Get, storeVars, TypeOK
    <3>2. config # None => heap'[config] \in Stored
      BY <1>6, <3>1
    <3>. QED
      BY <1>5, <1>8, <1>10, <3>1, <3>2
  <2>. QED
    BY <2>1, <2>2
<1>13. CASE ReadInfo(t) \/ ReadOpen(t)
  <2>1. CASE config' = None /\ Obtains(t, None)
    <3>1. heap' = heap /\ None \in Addresses \cup {None}
      BY <1>13 DEF ReadInfo, ReadOpen
    <3>2. config' \in {config, None, None}
      BY <2>1
    <3>. QED
      BY <1>5, <1>8, <1>10, <2>1, <3>1, <3>2
  <2>2. CASE UNCHANGED <<config, cfg>> /\ (GoTo(t, "ropen") \/ GoTo(t, "read"))
    <3>1. pc'[t] \in {"ropen", "read"} /\ heap' = heap
      BY <1>7, <1>13, <2>2 DEF ReadInfo, ReadOpen, PcState, Blocked
    <3>. QED
      BY <1>9, <2>2, <3>1 DEF Holding
  <2>. QED
    BY <1>13, <2>1, <2>2 DEF ReadInfo, ReadOpen
<1>14. CASE Unpack(t)
  <2>1. PICK v \in Decoded(t) : IF v = None THEN config' = None /\ heap' = heap /\ Obtains(t, None)
           ELSE \E a \in Addresses : heap[a] = None /\ heap' = [heap EXCEPT ![a] = v]
                                     /\ config' = a /\ Obtains(t, a)
    BY <1>14 DEF Unpack
  <2>2. CASE v = None
    <3>1. heap' = heap /\ None \in Addresses \cup {None} /\ Obtains(t, None)
      BY <2>1, <2>2
    <3>2. config' \in {config, None, None}
      BY <2>1, <2>2
    <3>. QED
      BY <1>5, <1>8, <1>10, <3>1, <3>2
  <2>3. CASE v # None
    <3>1. PICK a \in Addresses : heap[a] = None /\ heap' = [heap EXCEPT ![a] = v]
                                 /\ config' = a /\ Obtains(t, a)
      BY <2>1, <2>3
    <3>2. v = file /\ file \in Versions
      BY <1>6, <1>14, <2>3 DEF Unpack, Decoded, TypeOK
    <3>3. heap'[a] = v /\ \A b \in Addresses : b # a => heap'[b] = heap[b]
      BY <3>1 DEF TypeOK
    <3>4. heap'[a] \in Stored
      BY <1>6, <3>2, <3>3
    <3>5. \A b \in Addresses : heap[b] # None => heap'[b] = heap[b]
      BY <3>1, <3>3
    <3>6. config' \in {config, a, None}
      BY <3>1
    <3>. QED
      BY <1>5, <1>8, <1>10, <3>1, <3>4, <3>5, <3>6
  <2>. QED
    BY <2>2, <2>3
<1>. QED
  BY <1>5, <1>8, <1>11, <1>12, <1>13, <1>14, <1>15 DEF Read

-----------------------------------------------------------------------------
\* The inductive invariant of the store.
StoreInvariant ==
    TypeOK /\ OverlapInv /\ DanglingInv /\ PointerInv /\ FreedOnce /\ LeakInv /\ ArgInv /\ StoreInv

LEMMA StoreInvariants == Spec => []StoreInvariant
<1>1. Init => StoreInvariant
  <2> SUFFICES ASSUME Init PROVE StoreInvariant
    OBVIOUS
  <2>1. \A t \in Threads : pc[t] = "idle"
    BY DEF Init
  <2>2. OverlapInv /\ DanglingInv /\ PointerInv /\ FreedOnce /\ ArgInv
    BY <2>1 DEF Init, OverlapInv, DanglingInv, PointerInv, FreedOnce, ArgInv, Writing, Reading, Holding, Freed
  <2>3. LeakInv
    BY <2>1 DEF Init, LeakInv, Freed
  <2>4. StoreInv
    BY <2>1 DEF Init, StoreInv, FileInv, ReadInv, CacheInv, GotInv, Holding
  <2>. QED
    BY <2>2, <2>3, <2>4, TypeInit DEF StoreInvariant
<1>2. StoreInvariant /\ [Next]_vars => StoreInvariant'
  <2> SUFFICES ASSUME StoreInvariant, [Next]_vars PROVE StoreInvariant'
    OBVIOUS
  <2>1. TypeOK'
    BY TypeStep DEF StoreInvariant
  <2>2. ASSUME NEW t \in Threads, Set(t) \/ Delete(t) \/ Read(t) PROVE StoreInvariant'
    <3>1. OverlapInv' /\ DanglingInv' /\ PointerInv' /\ FreedOnce' /\ LeakInv' /\ ArgInv'
      BY <2>2, OverlapStep, DanglingStep, PointerStep, FreedStep, LeakStep, ArgStep DEF StoreInvariant
    <3>2. StoreInv'
      BY <2>2, StoreSetStep, StoreReadStep DEF StoreInvariant
    <3>. QED
      BY <2>1, <3>1, <3>2 DEF StoreInvariant
  <2>3. CASE Reset
    <3>1. /\ \A t \in Threads : pc'[t] = "idle"
          /\ config' = None /\ kept' = None /\ \A a \in Addresses : heap'[a] = None
          /\ UNCHANGED <<file, promised, trouble, bad>>
      BY <2>3 DEF Reset
    <3>2. OverlapInv' /\ DanglingInv' /\ PointerInv' /\ ArgInv'
      BY <3>1 DEF OverlapInv, DanglingInv, PointerInv, ArgInv, Writing, Reading, Holding, Freed
    <3>3. LeakInv' /\ FreedOnce'
      BY <3>1 DEF StoreInvariant, LeakInv, FreedOnce, Freed
    <3>4. StoreInv'
      BY <3>1 DEF StoreInvariant, StoreInv, FileInv, ReadInv, CacheInv, GotInv, Holding
    <3>. QED
      BY <2>1, <3>2, <3>3, <3>4 DEF StoreInvariant
  <2>4. CASE UNCHANGED vars
    <3>1. OverlapInv' /\ DanglingInv' /\ PointerInv' /\ FreedOnce' /\ LeakInv' /\ ArgInv'
      BY <2>4 DEF StoreInvariant, OverlapInv, DanglingInv, PointerInv, FreedOnce, LeakInv, ArgInv,
                  vars, storeVars, threadVars, ghostVars
    <3>2. StoreInv'
      BY <2>4 DEF StoreInvariant, StoreInv, FileInv, ReadInv, CacheInv, GotInv, Stored, vars, storeVars,
                  threadVars, ghostVars
    <3>. QED
      BY <2>1, <3>1, <3>2 DEF StoreInvariant
  <2>. QED
    BY <2>2, <2>3, <2>4 DEF Next
<1>. QED
  BY <1>1, <1>2, PTL DEF Spec

(* Every variable of the store keeps its type: config is the address of an *)
(* object of the heap or zero (bocia.c, bocia_file.c).                     *)
THEOREM TypeCorrect == Spec => []TypeOK
<1>1. StoreInvariant => TypeOK
  BY DEF StoreInvariant
<1>. QED
  BY StoreInvariants, <1>1, PTL

(* No configuration object is freed twice or used after it was freed,      *)
(* unless operations that write overlap others (bocia_set_cfg,             *)
(* bocia_mqtt_init, mqtt_connect), whatever the priorities of the threads. *)
THEOREM NeverFreedTwice == Spec => []FreedOnce
<1>1. StoreInvariant => FreedOnce
  BY DEF StoreInvariant
<1>. QED
  BY StoreInvariants, <1>1, PTL

(* As long as no operations overlap the heap holds no configuration but    *)
(* the cached one (bocia_set_cfg, bocia_get_config).                       *)
THEOREM HeapNotLeaked == Spec => []NothingLeaked
<1>1. StoreInvariant => NothingLeaked
  BY DEF StoreInvariant, LeakInv, NothingLeaked
<1>. QED
  BY StoreInvariants, <1>1, PTL

(* Whoever gets the configuration gets the one that was stored last, or    *)
(* that was cached when its file was deleted, and none when a write has    *)
(* failed or was interrupted with the file open; unless one writes         *)
(* meanwhile or a read fails (bocia_get_config, bocia_read_cfg).           *)
THEOREM StoredIsGot == Spec => []GetsWhatWasStored
<1>1. StoreInvariant => GetsWhatWasStored
  BY DEF StoreInvariant, StoreInv, GotInv, Stored, GetsWhatWasStored
<1>. QED
  BY StoreInvariants, <1>1, PTL
=============================================================================
