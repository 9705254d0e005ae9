---------------------------- MODULE ConfigStore ----------------------------
(***************************************************************************)
(* The configuration of a board: the object that `config' points to, the   *)
(* buffer through which it is packed and unpacked, and its file on the     *)
(* flash of the network processor (bocia.c, bocia_file.c).                 *)
(*                                                                         *)
(* Three threads use it: uart and the event loop handle commands, main     *)
(* connects.  There is no lock.  A call of the network processor blocks;   *)
(* between two of them a thread can be preempted by a more urgent one.     *)
(***************************************************************************)
EXTENDS Integers, FiniteSets

CONSTANTS
    Threads,    \* the threads
    Urgency,    \* Urgency[t]: the RIOT priority, a smaller one is more urgent
    Handlers,   \* the threads that handle messages
    Versions,   \* configurations that are sent to the board
    Addresses,  \* where the heap can put a Config
    None,       \* no file, no object, nothing sent
    Torn,       \* bytes that are no configuration
    MaxCalls,   \* bound: messages handled and connections made
    MaxFailures, \* bound: calls of the network processor that fail
    MaxResets   \* bound: resets of the board

ASSUME ConfigStoreAssumption ==
    /\ Urgency \in [Threads -> Nat] /\ Handlers \subseteq Threads
    /\ None \notin Versions \cup Addresses /\ Torn \notin Versions /\ Torn # None
    /\ MaxCalls \in Nat /\ MaxFailures \in Nat /\ MaxResets \in Nat

VARIABLES
    config,   \* config: an address or None
    heap,     \* heap[a]: what is allocated at a, or None
    buff,     \* _buff of bocia_file.c
    file,     \* the file bocia.cfg
    pc,       \* pc[t]: where thread t is
    arg,      \* arg[t]: the version t writes, or whose length it has asked for
    out,      \* out[t]: what t has given to sl_FsWrite
    cfg,      \* cfg[t]: the pointer t has got from bocia_get_config
    again,    \* again[t]: t has got it for the second time
    promised, \* history: what was stored last, or None when that is lost or deleted
    kept,     \* history: what stays cached although its file was deleted, or None
    trouble,  \* history: "ww", "rw", "rr": operations that overlapped; "read": a failed read
    bad,      \* history: "double free", "use after free"
    calls, failures, resets

storeVars  == <<config, heap, buff, file>>
threadVars == <<pc, arg, out, cfg, again>>
ghostVars  == <<promised, kept, trouble, bad>>
boundVars  == <<calls, failures, resets>>
vars == <<storeVars, threadVars, ghostVars, boundVars>>

\* Steps that wait for an answer of the network processor.
Blocked == {"winfo", "wopen", "write", "wclose", "rinfo", "ropen", "read", "rclose",
            "defaults", "delete", "disconnect", "socket", "connect", "dns"}
Writing == {"free", "pack", "winfo", "wopen", "write", "wclose", "clear", "defaults", "delete"}
\* A thread that has got a pointer works with it.
Holding == {"use", "topic", "disconnect", "reuse", "socket", "connect", "dns", "send"}

TypeOK ==
    /\ config \in Addresses \cup {None}
    /\ heap \in [Addresses -> Versions \cup {None, Torn}]
    /\ buff \in Versions \cup {None, Torn} /\ file \in Versions \cup {None, Torn}
    /\ pc \in [Threads -> Blocked \cup Writing \cup Holding \cup {"idle", "get", "unpack"}]
    /\ arg \in [Threads -> Versions \cup {None, Torn}]
    /\ out \in [Threads -> Versions \cup {None, Torn}]
    /\ cfg \in [Threads -> Addresses \cup {None}] /\ again \in [Threads -> BOOLEAN]
    /\ promised \in Versions \cup {None} /\ kept \in Versions \cup {None}
    /\ trouble \subseteq {"ww", "rw", "rr", "read"} /\ bad \subseteq {"double free", "use after free"}
    /\ calls \in 0..MaxCalls /\ failures \in 0..MaxFailures /\ resets \in 0..MaxResets

Init ==
    /\ config = None /\ buff = None /\ heap = [a \in Addresses |-> None]
    /\ pc = [t \in Threads |-> "idle"] /\ again = [t \in Threads |-> FALSE]
    /\ arg = [t \in Threads |-> None] /\ out = arg /\ cfg = arg
    /\ file \in Versions \cup {None} /\ promised = file /\ kept = None
    /\ trouble = {} /\ bad = {}
    /\ calls = 0 /\ failures = 0 /\ resets = 0

-----------------------------------------------------------------------------
\* A thread runs when no more urgent one can.
Runs(t) == \A u \in Threads : Urgency[u] < Urgency[t] => pc[u] \in Blocked \cup {"idle"}

At(t, step) == pc[t] = step /\ Runs(t)
GoTo(t, step) == pc' = [pc EXCEPT ![t] = step]

\* A call of the network processor returns: well, or with an error.
Returns(ok) == IF ok THEN UNCHANGED failures
                     ELSE failures < MaxFailures /\ failures' = failures + 1

\* t starts an operation, with or without writing; history only.
Begins(t, writes) ==
    /\ At(t, "idle")
    /\ calls < MaxCalls /\ calls' = calls + 1
    /\ trouble' = trouble \cup {IF writes /\ pc[u] \in Writing THEN "ww"
                                ELSE IF writes \/ pc[u] \in Writing THEN "rw" ELSE "rr" :
                                    u \in {x \in Threads : pc[x] # "idle"}}

\* The object at a is used.
Touch(a) == bad' = IF a # None /\ heap[a] = None THEN bad \cup {"use after free"} ELSE bad

-----------------------------------------------------------------------------
(* CONFIG: bocia_set_cfg, bocia_write_cfg, bocia_write_proto               *)

BeginSet(t, v) ==
    /\ Begins(t, TRUE)
    /\ arg' = [arg EXCEPT ![t] = v]
    /\ GoTo(t, "free")
    /\ UNCHANGED <<storeVars, out, cfg, again, promised, kept, bad, failures, resets>>

\* Mutant: the old object is not freed.
FreeNot(t) ==
    /\ At(t, "free")
    /\ GoTo(t, "pack")
    /\ UNCHANGED <<storeVars, arg, out, cfg, again, ghostVars, boundVars>>

\* nais_free(config); config stays set until the file has been written.
FreeOld(t) ==
    /\ At(t, "free")
    /\ IF config = None THEN UNCHANGED <<heap, bad>>
       ELSE /\ heap' = [heap EXCEPT ![config] = None]
            /\ bad' = IF heap[config] = None THEN bad \cup {"double free"} ELSE bad
    /\ GoTo(t, "pack")
    /\ UNCHANGED <<config, buff, file, arg, out, cfg, again, promised, kept, trouble, boundVars>>

\* protobuf_c_message_pack into _buff; sl_FsGetInfo is sent.
Pack(t) ==
    /\ At(t, "pack")
    /\ buff' = arg[t]
    /\ GoTo(t, "winfo")
    /\ UNCHANGED <<config, heap, file, arg, out, cfg, again, ghostVars, boundVars>>

WriteInfo(t) ==
    /\ At(t, "winfo")
    /\ \E ok \in BOOLEAN : Returns(ok) /\ GoTo(t, IF ok THEN "wopen" ELSE "clear")
    /\ out' = [out EXCEPT ![t] = None]
    /\ UNCHANGED <<storeVars, arg, cfg, again, ghostVars, calls, resets>>

\* A file that is opened for writing loses what it held: until it is closed
\* it holds nothing that could be decoded.
WriteOpen(t) ==
    /\ At(t, "wopen")
    /\ \E ok \in BOOLEAN :
           /\ Returns(ok)
           /\ GoTo(t, IF ok THEN "write" ELSE "clear")
           /\ file' = IF ok THEN Torn ELSE file
           /\ promised' = IF ok THEN None ELSE promised
    /\ UNCHANGED <<config, heap, buff, arg, out, cfg, again, kept, trouble, bad, calls, resets>>

\* sl_FsWrite takes what is in _buff by then; an error is not acted on.
FileWrite(t) ==
    /\ At(t, "write")
    /\ \E ok \in BOOLEAN : Returns(ok) /\ out' = [out EXCEPT ![t] = IF ok THEN buff ELSE Torn]
    /\ GoTo(t, "wclose")
    /\ UNCHANGED <<storeVars, arg, cfg, again, ghostVars, calls, resets>>

\* The status of sl_FsClose is ignored as well: when it fails, the file may
\* or may not have been committed.
WriteClose(t) ==
    /\ At(t, "wclose")
    /\ \E ok \in BOOLEAN, committed \in BOOLEAN :
           /\ Returns(ok)
           /\ ok => committed
           /\ file' = IF committed THEN out[t] ELSE Torn
           /\ promised' = IF committed /\ out[t] = arg[t] THEN arg[t] ELSE promised
    /\ GoTo(t, "clear")
    /\ UNCHANGED <<config, heap, buff, arg, out, cfg, again, kept, trouble, bad, calls, resets>>

\* Mutant: the cached pointer is kept.
ClearNot(t) ==
    /\ At(t, "clear")
    /\ kept' = None
    /\ GoTo(t, "idle")
    /\ UNCHANGED <<storeVars, arg, out, cfg, again, promised, trouble, bad, boundVars>>

\* Mutant: the new configuration is cached at once, whether it was written or not.
ClearCaches(t) ==
    /\ At(t, "clear")
    /\ \E a \in Addresses : heap[a] = None /\ config' = a /\ heap' = [heap EXCEPT ![a] = arg[t]]
    /\ kept' = None
    /\ GoTo(t, "idle")
    /\ UNCHANGED <<buff, file, arg, out, cfg, again, promised, trouble, bad, boundVars>>

\* config = 0, and the Ack is sent, whatever bocia_write_cfg has returned.
Clear(t) ==
    /\ At(t, "clear")
    /\ config' = None
    /\ kept' = None
    /\ GoTo(t, "idle")
    /\ UNCHANGED <<heap, buff, file, arg, out, cfg, again, promised, trouble, bad, boundVars>>

-----------------------------------------------------------------------------
(* FACTORY_RESET: simplelink_to_default_state, bocia_delete_file           *)

BeginReset(t) ==
    /\ Begins(t, TRUE)
    /\ GoTo(t, "defaults")
    /\ UNCHANGED <<storeVars, arg, out, cfg, again, promised, kept, bad, failures, resets>>

\* simplelink_to_default_state as one call.  An error of most of its calls
\* stops the board (STOP_IF_ERR) and its waits for an address and for the end
\* of the connection may not end: t then stays here, which it may anyway.
Defaults(t) ==
    /\ At(t, "defaults")
    /\ GoTo(t, "delete")
    /\ UNCHANGED <<storeVars, arg, out, cfg, again, ghostVars, boundVars>>

\* The cached configuration stays.
DeleteFile(t) ==
    /\ At(t, "delete")
    /\ \E ok \in BOOLEAN :
           /\ Returns(ok)
           /\ file' = IF ok THEN None ELSE file
           /\ promised' = IF ok THEN None ELSE promised
           /\ kept' = IF ok /\ config = None THEN None
                      ELSE IF ok /\ promised # None THEN promised ELSE kept
    /\ GoTo(t, "idle")
    /\ UNCHANGED <<config, heap, buff, arg, out, cfg, again, trouble, bad, calls, resets>>

-----------------------------------------------------------------------------
(* bocia_get_config, bocia_read_cfg, and those who call them               *)

\* main connects (bocia_init), or a handler executes GET_CONFIG.
BeginGet(t) ==
    /\ Begins(t, FALSE)
    /\ GoTo(t, "get")
    /\ again' = [again EXCEPT ![t] = FALSE]
    /\ UNCHANGED <<storeVars, arg, out, cfg, promised, kept, bad, failures, resets>>

\* Where t goes with the pointer p: GET_CONFIG sends it; bocia_init looks at
\* the network, and bocia_mqtt_init and bocia_tcp_init get it again.
Obtains(t, p) ==
    /\ cfg' = [cfg EXCEPT ![t] = p]
    /\ GoTo(t, IF t \in Handlers THEN "send" ELSE IF again[t] THEN "topic" ELSE "use")

Get(t) ==
    /\ At(t, "get")
    /\ IF config # None THEN Obtains(t, config) ELSE GoTo(t, "rinfo") /\ cfg' = cfg
    /\ UNCHANGED <<storeVars, arg, out, again, ghostVars, boundVars>>

\* sl_FsGetInfo or sl_FsOpen fail: bocia_read_cfg returns 0.
ReadInfo(t) ==
    /\ At(t, "rinfo")
    /\ \E ok \in BOOLEAN :
           /\ IF file = None THEN ok = FALSE /\ UNCHANGED failures ELSE Returns(ok)
           /\ IF ok THEN GoTo(t, "ropen") /\ UNCHANGED <<config, cfg>>
                    ELSE config' = None /\ Obtains(t, None)
    /\ arg' = [arg EXCEPT ![t] = file]
    /\ UNCHANGED <<heap, buff, file, out, again, ghostVars, calls, resets>>

ReadOpen(t) ==
    /\ At(t, "ropen")
    /\ \E ok \in BOOLEAN :
           /\ Returns(ok)
           /\ IF ok THEN GoTo(t, "read") /\ UNCHANGED <<config, cfg>>
                    ELSE config' = None /\ Obtains(t, None)
    /\ UNCHANGED <<heap, buff, file, arg, out, again, ghostVars, calls, resets>>

\* The status of sl_FsRead is ignored: _buff keeps what it held.
FileRead(t) ==
    /\ At(t, "read")
    /\ \E ok \in BOOLEAN :
           /\ Returns(ok)
           /\ buff' = IF ok THEN file ELSE buff
           /\ trouble' = IF ok THEN trouble ELSE trouble \cup {"read"}
    /\ GoTo(t, "rclose")
    /\ UNCHANGED <<config, heap, file, arg, out, cfg, again, promised, kept, bad, calls, resets>>

ReadClose(t) ==
    /\ At(t, "rclose")
    /\ GoTo(t, "unpack")
    /\ UNCHANGED <<storeVars, arg, out, cfg, again, ghostVars, boundVars>>

\* What as many bytes of _buff as the file had decode to: nothing when the
\* heap is full or a required field is missing, as it is in a file that was
\* never written to its end.
Decoded(t) == IF buff \in {None, Torn} \/ \A a \in Addresses : heap[a] # None THEN {None}
              ELSE IF buff = arg[t] THEN {buff} ELSE {buff, Torn, None}

\* protobuf_c_message_unpack; config is set whatever it is by now.
Unpack(t) ==
    /\ At(t, "unpack")
    /\ \E v \in Decoded(t) : IF v = None THEN config' = None /\ heap' = heap /\ Obtains(t, None)
       ELSE \E a \in Addresses :
                /\ heap[a] = None
                /\ heap' = [heap EXCEPT ![a] = v]
                /\ config' = a /\ Obtains(t, a)
    /\ UNCHANGED <<buff, file, arg, out, again, ghostVars, boundVars>>

\* bocia_init compares cfg->network and calls the channel's init.
Use(t) ==
    /\ At(t, "use")
    /\ Touch(cfg[t])
    /\ GoTo(t, IF cfg[t] = None THEN "idle" ELSE "get")
    /\ again' = [again EXCEPT ![t] = TRUE]
    /\ UNCHANGED <<storeVars, arg, out, cfg, promised, kept, trouble, boundVars>>

\* bocia_mqtt_init builds the topic and disconnects what it was connected to;
\* bocia_tcp_init asks for the host's address.
Topic(t) ==
    /\ At(t, "topic")
    /\ Touch(cfg[t])
    /\ \E step \in IF cfg[t] = None THEN {"idle"} ELSE {"disconnect", "reuse", "dns"} : GoTo(t, step)
    /\ UNCHANGED <<storeVars, arg, out, cfg, again, promised, kept, trouble, boundVars>>

\* mqtt_disconnect blocks before the pointer is used again.
Disconnect(t) ==
    /\ At(t, "disconnect")
    /\ GoTo(t, "reuse")
    /\ UNCHANGED <<storeVars, arg, out, cfg, again, ghostVars, boundVars>>

\* port, alive_period and host are read: mqtt_connect keeps the pointer to host.
Reuse(t) ==
    /\ At(t, "reuse")
    /\ Touch(cfg[t])
    /\ GoTo(t, "socket")
    /\ UNCHANGED <<storeVars, arg, out, cfg, again, promised, kept, trouble, boundVars>>

\* sl_Socket returns; host is printed when it has failed.
Socket(t) ==
    /\ At(t, "socket")
    /\ \/ GoTo(t, "connect") /\ bad' = bad
       \/ GoTo(t, "idle") /\ Touch(cfg[t])
    /\ UNCHANGED <<storeVars, arg, out, cfg, again, promised, kept, trouble, boundVars>>

\* sl_Connect returns; when it has failed host is printed, after sl_Close.
Connect(t) ==
    /\ At(t, "connect")
    /\ bad' = bad \/ Touch(cfg[t])
    /\ GoTo(t, "idle")
    /\ UNCHANGED <<storeVars, arg, out, cfg, again, promised, kept, trouble, boundVars>>

\* sl_NetAppDnsGetHostByName reads host once it has the driver for itself.
Dns(t) ==
    /\ At(t, "dns")
    /\ Touch(cfg[t])
    /\ GoTo(t, "idle")
    /\ UNCHANGED <<storeVars, arg, out, cfg, again, promised, kept, trouble, boundVars>>

\* bocia_command marshalls what config points to now; a zero pointer, on which
\* the code has a TODO, is passed on as well and is not followed here.
SendConfig(t) ==
    /\ At(t, "send")
    /\ Touch(config)
    /\ GoTo(t, "idle")
    /\ UNCHANGED <<storeVars, arg, out, cfg, again, promised, kept, trouble, boundVars>>

\* The board is reset, by a command, the watchdog or the power.
Reset ==
    /\ resets < MaxResets /\ resets' = resets + 1
    /\ config' = None /\ buff' = None /\ heap' = [a \in Addresses |-> None]
    /\ pc' = [t \in Threads |-> "idle"] /\ again' = [t \in Threads |-> FALSE]
    /\ arg' = [t \in Threads |-> None] /\ out' = arg' /\ cfg' = arg'
    /\ kept' = None
    /\ UNCHANGED <<file, promised, trouble, bad, calls, failures>>

-----------------------------------------------------------------------------
Set(t)    == (\E v \in Versions : BeginSet(t, v)) \/ FreeOld(t) \/ Pack(t) \/ WriteInfo(t)
             \/ WriteOpen(t) \/ FileWrite(t) \/ WriteClose(t) \/ Clear(t)
Delete(t) == BeginReset(t) \/ Defaults(t) \/ DeleteFile(t)
Read(t)   == BeginGet(t) \/ Get(t) \/ ReadInfo(t) \/ ReadOpen(t) \/ FileRead(t) \/ ReadClose(t)
             \/ Unpack(t) \/ Use(t) \/ Topic(t) \/ Disconnect(t) \/ Reuse(t) \/ Socket(t) \/ Connect(t)
             \/ Dns(t) \/ SendConfig(t)

Next == Reset \/ (\E t \in Handlers : Set(t) \/ Delete(t)) \/ (\E t \in Threads : Read(t))

Spec == Init /\ [][Next]_vars

-----------------------------------------------------------------------------
(* No object is freed twice unless two threads write or reset the          *)
(* configuration at the same time, whatever main reads meanwhile, and no   *)
(* freed one is used unless a thread writes or resets the configuration    *)
(* while another works with it: bocia_set_cfg leaves config dangling while *)
(* the file is written, bocia_mqtt_init keeps its pointer across           *)
(* mqtt_disconnect, sl_Socket and sl_Connect, and bocia_tcp_init gives it  *)
(* to a call that waits for the driver.                                    *)
FreedOnce ==
    /\ "double free" \in bad => "ww" \in trouble
    /\ "use after free" \in bad => trouble \cap {"rw", "ww"} # {}

(* What a thread gets is what the last CONFIG stored, or what was cached   *)
(* when its file was deleted, whatever calls of the network processor fail *)
(* and whenever the board is reset, as long as no two operations of which  *)
(* one writes overlap and no sl_FsRead fails. A write that fails or is     *)
(* interrupted before the file is open leaves the old configuration, one   *)
(* that is cut off afterwards leaves none: neither the old one nor the new *)
(* nor a mixture is got, although the CONFIG was acknowledged.             *)
GetsWhatWasStored ==
    trouble \subseteq {"rr"} =>
        \A t \in Threads : pc[t] \in Holding /\ cfg[t] # None
                            => heap[cfg[t]] \in {promised, kept} \ {None}

(* The heap holds no configuration but the cached one: nothing is leaked   *)
(* by any sequence of commands, failures and connections that do not       *)
(* overlap (bocia_set_cfg, bocia_get_config).                              *)
NothingLeaked == trouble \subseteq {"read"} => \A a \in Addresses : heap[a] # None => config = a

(* bocia_get_config: "return board configuration setting stored on flash   *)
(* memory ... or zero if bocia.cfg file not found on flash".               *)
ZeroWithoutFile ==
    [][\A t \in Threads : pc[t] = "get" /\ pc'[t] \in Holding /\ file = None
                            => cfg'[t] = None]_vars
=============================================================================
