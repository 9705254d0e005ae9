# NAIS in TLA+

NAIS connects small WiFi boards (TI CC3200 under RIOT, `burba/`) with applications on a
host. On the host a *junction* (`pynais/`, Python, asyncio) routes packets and strings
between *lines*: TCP, websocket, MQTT and serial endpoints. On the board `bocia` receives
packets over MQTT, TCP or the UART, executes them and answers.

This directory holds TLA+ specifications of the parts where order, failure and boundary
values decide whether the system works, configurations for TLC and proofs for TLAPS.
`PROJECT.json` maps every definition to the source lines it stands for and lists the runs,
the mutants that show each property can fail, the hazards and the findings.

Contents: [1 inventory](#1-inventory), [2 plan](#2-plan), [3 modules](#3-modules),
[4 runs](#4-runs-and-bounds), [5 fairness](#5-fairness), [6 proofs](#6-proofs),
[7 findings](#7-findings), [8 limits](#8-what-is-not-modelled), [9 how to run](#9-how-to-run).

## 1 Inventory

| component | state | operations | talks to |
|---|---|---|---|
| junction router (`pynais/junction.py` `Line`, `TcpLine`, `SerialLine`, `Junction`; `packet.py`) | registry, per line: writers, `msg_queue`, dispatch tasks, ser2net process; the counter `sid` | open, retry, accept, read, deliver, dispatch, close, detach, shutdown | remote endpoints by streams; lines by queues; the event loop by scheduled coroutines |
| websocket and MQTT lines (`WSLine`, `MqttLine`) | as a line; an MQTT client | own dispatchers, which await each send, and close | websockets, hbmqtt |
| host byte reader (`MessageTape`, `msg_receive`) | one tape per record | add_char | a `StreamReader` |
| encoders and decoders (`nais.py`, `nais.c`, `bocia_uart.c`) | transmit and receive buffers | marshall, unmarshall, nais_setup_header, nais_marshall, protobuf_to_uart, nais_unmarshall | used by both sides |
| board byte reader (`serial_loop`) | state, length, pointer, static buffer | one byte at a time | `bocia_unmarshall` |
| board event loop (`eventloop.c`) | `fd_map`, the mutex, the local `readfs` | register, close soon, select, dispatch | channels by handler callbacks, main by messages |
| board channels (`bocia_mqtt.c`, `bocia_tcp.c`) | `mqtt_handler`, the shared `buf` | connect, subscribe, receive, close, disconnect | network processor, event loop |
| application (`hello-mqtt/main.c`) | message queue, retry timer | react to IP, closed socket, retry | all of the above |
| command handler and configuration (`bocia.c`, `bocia_file.c`) | cached `config`, the file, `_buff` | execute, set, get, reset | channels, flash |
| sbapi thread (`sbapi_cc3200.c`) | `nwp.status`, counter, `sig_tim` | connection slots, SmartConfig, event handlers | network processor, timers, main |
| timers (`xtimer_32`) | list of timers, match register, counter | set, sleep, remove, two interrupt handlers | hardware timer |
| network processor driver (`simplelink/source/driver.c`) | global lock, lock of the transmit buffers, object pool, counters of messages | command, asynchronous call, send and receive, interrupt | network processor, every thread |
| OS layer of the driver (`osi_riot.c`) | spawn queue, synchronisation objects | create, signal, wait, spawn | driver, RIOT |
| host client calls (`msg_send`, `proto_send`, `is_ack`) | none | send and wait for an Ack | a junction or a board |
| drivers, boards, tools, recipes, generators, vendored SDK, paho, protobuf-c | | | |

What is hard, and what makes each part correct:

- **Junction.** Everything runs in one thread, but every `await` is a switch. A dispatcher is
  started when a line gets its first client and never stopped, so tasks accumulate; any
  exception ends one. Line ids are allocated for ever and put into one byte. A lost
  connection to a remote server is retried, but only one that the remote closed: after a reset
  the reading task ends by an exception, and the writer stays. Detach closes connections, and a closed
  connection looks lost. Correct means: a response reaches the client whose packet it answers and nobody
  else, what a sender sends arrives in order, without repeats or gaps, broadcasts reach every
  connected client, a closed connection is replaced exactly once, a detached line stays closed.
- **Websocket and MQTT lines.** The dispatcher suspends inside the walk over a list that clients
  join and leave meanwhile, and any exception ends it: a send to a client that is gone, a message
  that has no JSON form. Correct means: no client is written a message twice, those who
  stay get them all, in order, and a line with clients is served until such an exception.
- **Byte streams.** Strings and packets share a stream, control bytes also occur as data, the
  encoder and decoder exist in three versions, and serial lines lose bytes. Correct means: what
  was written comes out, in order, a lost byte costs no more than the packet it hits and
  its neighbour, and a packet is answered once, to the line it came from, although
  the board echoes and logs on the same wire.
- **Board connections.** main (priority 7) preempts the loop (priority 9) anywhere and both use
  `fd_map` without a lock; the mutex is used as a semaphore; a socket must not be closed under
  `sl_Select`; sockets can be closed from three sides and their numbers are reused. Correct
  means: the loop does not sleep on work, there is one MQTT session, no socket is lost, and an
  unconnected board keeps trying until it is connected.
- **Board configuration.** One object is cached, freed and written by one thread while another
  uses it, through one buffer, and each flash operation blocks and may fail; who connects holds
  the pointer while the network processor answers. Correct means: nothing is freed twice or used
  after it was freed, what was stored is what is got, a write that is cut off leaves nothing wrong.
- **Board network thread.** Event handlers run in whatever thread holds the driver's lock
  and block on full queues. Correct means: every link change reaches main in order, and a board
  without an address goes on probing and in the end offers SmartConfig. A failure to start it is
  a PANIC, which for the board means the end.
- **Timers.** The counter wraps, threads are preempted between reading it and using it, the
  handlers call back and program the match while time goes on. Correct means: the list holds
  what is set, and a timer is shot once, neither early nor late.
- **Driver.** A message may be read by a thread that waits for something else, or by
  the spawn thread; wakeups go through counters and a queue of limited size. Correct means:
  each answer finds its call, none stays unread, nobody waits for ever.
- **Not modelled.** A wait for an Ack accepts any of the right type.

All hazards are in `PROJECT.json`, each with its line and the properties that would catch it,
or a note why none does.

## 2 Plan

Done, in this order: `Junction` and its proofs, `NaisFrame`, `MessageTape`, `UartReader`,
`EventLoop` and its proofs; `Router` with its proofs and `JunctionRouter`, `SerialLink`,
`WebLines`, `ConfigStore`, `XTimer`, `Sbapi`, `SlDriver`; then the proofs of the remaining
safety properties of `EventLoop` and `Junction`, of `ConfigStore`, `WebLines`, `SlDriver` and
`Sbapi`, that `Junction` implements `Router`, and with it the order of delivery; of `XTimer`; of
both readers of `SerialLink`.

Next, most important first:

1. Theorems about `RoundTrip` and `LossIsLocal` of `SerialLink`.
2. `ConfigStore` composed with `EventLoop`'s `CloseSoon`, and `XTimer` in the place of
   `EventLoop`'s `timer`.
3. `AckMatching`: two clients, late and duplicate Acks.
4. `SlDriver` below `Sbapi`: the lock and the contexts of `Sbapi` are an abstraction of it.

## 3 Modules

**`Junction`.** An action is what runs between two awaits that really suspend: `queue.put` on an
unbounded queue and `writer.write` do not. `Conns` are incarnations of connections; a client
that comes back is another value. The phase of a connection says where its
`line_handler` is: *accepted* (task scheduled), *open* (in the list of writers), *gone*, or
*broken*: `reader.read` raised `ConnectionResetError`, which no handler catches, so that there is no new
`open()` and the closed writer stays in the list (`Reset`).

| action | code |
|---|---|
| `JunctionInit`, `Shutdown`, `DetachTcp`, `DetachSerial`, `DetachSerialFails` | `Junction.init`, `shutdown`, `detach`, `Line.close`, `SerialLine.close` |
| `OpenServer`, `OpenSerial`, `OpenFails`, `Accept`, `ConnectRemote`, `ConnectSerial`, `DialFails`, `SerialComplains` | `TcpLine.open`, `SerialLine.open`, `open_serial_client`, `errors_from_serial` |
| `StartHandler`, `ReadMessage`, `EndHandler` | `line_handler`, `reader_handler`, `deliver_to_peers` |
| `Dispatch` | one turn of `Line.dispatch`, with the callback (`Morph`) and `Packet` |
| `Send`, `Respond`, `RemoteClose` | the remote endpoints (external) |
| `Reset` | a reset connection: the handler ends in the exception, what was not read is lost |

A message is its sender, its place, its class (string or packet), its DLINE byte and, for a
response, the connection it answers. The last field is not on the wire: it is what
`ReplyReachesRequester` compares the routing by DLINE with. `CloseWriters` drops any part of
what a reader has not read, as closing a transport does.

**`Router`** is the junction as its users see it: endpoints write, and each message is
delivered once to each line that its line is routed to, to all members of the line or to the one
it answers, in the order of its sender. There are no line ids, queues or tasks. It gives up messages
only when a callback may fail (`Reliable`), the junction is shut down (`MayLose`) or the endpoint that
wrote them is reset (`Break`), and then only that endpoint's.
**`JunctionRouter`** has the refinement mapping: what is due on a line is what is
in its queue and in the streams that are read for it, without DLINE and SLINE. That delivery
is atomic in `Router` is justified by the code: `dispatch` does not suspend while it writes.

**`WebLines`** is an `MqttLine` and a listening `WSLine` that are routed to each other. These
dispatchers do await each write, and the actions are cut there:

| action | code |
|---|---|
| `StartHandler`, `ReadMessage`, `ReadFails`, `EndHandler` | `line_handler`, `reader_handler`, `WSLine.read_msg` (an empty message ends the handler; a binary frame raises `TypeError`, and the writer stays) |
| `Take`, `Sent`, `SendBroken` | `WSLine.dispatch`: `task[i].next` is the index of the `for` loop over the live list; `Take` ends the task for a message of `Fatal`, whose `to_json` raises |
| `MqttOpen`, `TopicMessage`, `MqttTake`, `Published`, `PublishFails` | `MqttLine.open`, `mqtt_reader_handler`, `MqttLine.dispatch` |
| `CloseBegins`, `CloseNext`, `CloseEnds` | `WSLine.close` |
| `Connect`, `ClientSends`, `ClientLeaves`, `MqttLost` | web clients and broker (external) |

**`NaisFrame`** has the format, the encoders and the decoders as functions on byte
sequences, over a `Radix` that is 128 in the code. **`MessageTape`** feeds the bytes of any stream
of messages, encoded by any of the encoders, to `add_char`; **`UartReader`** feeds what
`marshall` and the junction made to `serial_loop`. In both one byte may be missing. The board's
buffer keeps what earlier packets left, as in the code.

**`SerialLink`** composes the two readers, as instances, into the two directions of one line.
What the board writes depends on what it reads: outside of packets it echoes each byte,
and for a packet it prints a log line and sends an Ack, unless the type has none
(`bocia_input_handler`). Packets of kind *net* are those that the board marshals for the network
(`nais_marshall`). The two readers share nothing but the wire, so the host reads when
the board has read everything; the other interleavings lead to the same states of both.

**`EventLoop`.** main's code between two blocking calls is one action (it preempts the loop);
the loop is cut wherever main may come in between: after every slot of the scan, between the test and
`mutex_lock`, in `sl_Select`, between `sl_Close` and the assignment to `fd`, between `fd = 0`
and the test that sends `BOCIA_SOCK_CLOSED`. `peer` is the network processor's view of a
socket, `fd` the board's; socket numbers are reused. `timer` has the outcomes of
`_xtimer_set_msg64`: a timer that is set while it is in the list becomes its own successor
(`"cycle"`), and shooting it never ends (`"hung"`, after which only the network acts). `asked`,
`dropped`, `forgotten` and `stale` are history variables: which closes were requested, which open
sockets were given up for an error or for want of a slot, which lost their slot because the loop cleared
it for another's sake, and whether a close request was left at a free slot. `asked` also
decides when a broker closes: after a DISCONNECT it may do so without using up `MaxCloses`.

| action | code |
|---|---|
| `Scan`, `Lock`, `Select`, `RoundEnds`, `ClosePending`, `Closed`, `CheckSlot`, `Notify` | `bocia_loop_run` |
| `ReceiveData`, `ReceiveEof`, `ReceiveError`, `Ended` | `mqtt_receiver_handler`, `mqtt_receive`, `sock_receive`; `bocia_tcp_receive` |
| `HandleMessage`, `CloseSoon`, `ConnectFails`, `ConnectSucceeds` (with `Register`), `Subscribed` | `main`, `app_init`, `bocia_mqtt_init`, `bocia_tcp_init`, `bocia_register_handlers` |
| `IpAcquired`, `TimerFires`, `PeerActs` | sbapi's `IP_ACQUIRED`, `_callback_msg`, the peers |

**`ConfigStore`.** Three threads with the priorities of the board: `Runs(t)` lets a thread go on
only while every more urgent one waits for an answer of the network processor. `heap` is what
`protobuf_c_message_unpack` has allocated, `file` what is on the flash; `Torn` stands for bytes that
are no configuration, of a file that was opened and not finished. Each flash call may fail,
`sl_FsClose` with or without having committed the file, and the board may be reset anywhere. `promised`
is what was stored last, or nothing once the file was cut off or deleted; `kept` what stays cached
although its file was deleted. `trouble` records which operations overlapped: the code has no lock, so
the properties say exactly under which overlaps it is sound.

| action | code |
|---|---|
| `BeginSet`, `FreeOld`, `Pack`, `WriteInfo`, `WriteOpen`, `FileWrite`, `WriteClose`, `Clear` | `bocia_set_cfg`, `bocia_write_cfg`, `bocia_write_proto` |
| `BeginReset`, `Defaults`, `DeleteFile` | FACTORY_RESET |
| `BeginGet`, `Get`, `ReadInfo`, `ReadOpen`, `FileRead`, `ReadClose`, `Unpack` | `bocia_get_config`, `bocia_read_cfg` |
| `Use`, `SendConfig` | `bocia_init`, GET_CONFIG: users of the pointer |
| `Topic`, `Disconnect`, `Reuse`, `Socket`, `Connect`, `Dns` | `bocia_mqtt_init` with `mqtt_connect`, `bocia_tcp_init`: users of the pointer that hold it while calls block |

**`Sbapi`.** `lock` is the lock of the driver and `hand[c]` the message that an event handler
in context `c` still has to send; contexts are the spawn thread and threads that read events within
a call of their own. A thread that sends to a full queue waits with the lock held, as RIOT's
`msg_send` does; an interrupt, and a thread sending to itself, drops the message. `Stuck` names
the cycles this leads to, which no thread can leave: a handler waits for room in sbapi's queue while
sbapi waits for the lock, or for main, which waits for the lock. `smartconfig_connect` is two calls,
`PolicySet` and `SmartStarted`; either may fail (`SmartFails`), and PANIC then keeps sbapi, and
everything less urgent, for ever (`sb = "panic"`).

**`XTimer`.** One counter of `Turn` values (2^32 in the code), one match register, one list. A
thread reads the counter (`Set`, `Sleep`, `SetMsg`) and inserts (`AddToList`) in two steps. `Tick`
advances the counter, also between the steps of the handlers, for at most `Latency` ticks while one
runs. `due` is the absolute time asked for, which the code does not keep. `edge` becomes true when
one of the situations is met in which the code goes wrong: the counter wraps before a match is
handled, or between reading and inserting; the target is passed before it is inserted (with an offset below
`Overhead` it is from the start), or is 0; the target of the first timer is passed between a handler's reading
of the counter and its writing of the match register, so that the match comes a turn later;
`long_target` is left over from an earlier use; a 64-bit offset reaches over two turns or more, of
which `long_target` counts one.

| action | code |
|---|---|
| `Set`, `Sleep`, `SetMsg`, `AddToList`, `Remove` | `_xtimer_set`, `_xtimer_set64`, `_xtimer_sleep`, `_xtimer_set_msg64`, `xtimer_remove` |
| `MatchBegins`, `MatchShoots`, `MatchLeaves`, `MatchLooks` | `_timer_callback`: first reading, the loop of shots, second reading, in the past or not |
| `WrapBegins`, `WrapShoots`, `WrapPasses` | `_next_period` and what follows: one turn less, timers before the reference shot |
| `Program` | both: the match register is written, some ticks after the reading |

**`SlDriver`.** The global lock, the lock of the transmit buffers, the pool of objects of the
asynchronous calls with its three lists and bitmap, the count of unread messages, the interrupt and
the spawn thread of `osi_riot.c`, which is the most urgent thread (`SpawnFirst`). `SpawnAssumption`
says that the spawn queue has room for an entry of each calling thread and one of the interrupt: the
board has four such threads (main, sbapi, the loop, the UART) and a queue of 8
(`osi_riot.c:94`). With two threads and a queue of one, TLC finds the entry that is lost.

| action | code |
|---|---|
| `Begin`, `TakeObj`, `PoolEmpty`, `Woken`, `TryAgain` | `_SlDrvWaitForPoolObj` |
| `ReleaseObj` | `_SlDrvReleasePoolObj` |
| `SendCommand`, `Sleep`, `Wake`, `ReadInCommand`, `DoneInCommand`, `EndCommand`, `CheckUnread`, `Completed` | `_SlDrvCmdOp`, `_SlDrvMsgReadCmdCtx`, `_SlDrvMsgRead` |
| `LockTx`, `SendRefused`, `WaitTx`, `SendData` | `_SlDrvDataReadOp`, `_SlDrvDataWriteOp` |
| `Interrupt`, `SpawnTake`, `SpawnLock`, `ReadInSpawn`, `SpawnDone` | `_SlDrvRxIrqHandler`, `vSimpleLinkSpawnTask`, `_SlDrvMsgReadSpawnCtx` |
| `Respond`, `Complete`, `FreeBuffer`, `Event` | network processor (external) |

The modules named `...Proofs` hold the theorems; the `MC...` modules hold constants only.
Definitions marked *Mutant* are deviations that a bug could introduce; no specification uses
them. `PROJECT.json` says which property rejects which.

## 4 Runs and bounds

| run | properties | what it shows, and why the bounds suffice |
|---|---|---|
| `JunctionRouting` | `TypeOK` `ReplyReachesRequester` `RouterSpec` | Two listening lines, three connections, three messages, a callback. Three connections are a requester, a responder and a client that takes a place that became free; three messages are a request, a response and one more to be out of order. `RouterSpec` is the refinement: order, no repeats and no gaps follow from it. |
| `JunctionRemote` | `OneConnectionPerOpen` `ServedWhileConnected` | A remote server and a serial line, two `init` calls, a closed connection and one that is reset, a complaint of ser2net, a failing shutdown, `MaxSline` 2, so that the third connection's id is too large. |
| `JunctionDelivery` | `BroadcastDelivered` `RouterSpec` | Liveness on two listening lines, one message, three connections, of which one is reset: its sender, a receiver or a third. The refinement with two messages and two resets is `JunctionBroken.cfg`. |
| `JunctionNone` | `NoneIsDiscarded` | Finding 1, expected to fail. |
| `WebLines` | `AtMostOnce` `InOrder` `SentToAllWhoStay` `MessagesGetAcross` | Two clients, four topic messages, one of which the callback drops and one has no JSON form, one message of a client. Two clients are one that joins and one that leaves during a walk, and a second dispatch task; three messages keep both tasks busy with one behind, the fourth ends a task. |
| `SerialLink` | `StreamIsDemultiplexed` `NothingHeldBack` `PacketsDecode` `HandledAsSent` `LossIsLocal` `RoundTrip` | All streams of two messages over lengths at the borders (1, the value of START, the last with one length byte; upwards also the first and a later one with two) and bytes that mean something; three messages when a byte is lost: the damaged one, the one it is glued to, one behind. Downwards, packets that are answered and not, of several connections and types, 0x1E (START) among both. |
| `EventLoop` | `NoLostWakeup` `OneSession` `SocketsAccounted` `KeepsTryingUnlessStale` `OneRetryAtATime` `ClosedOutsideSelect` | Two slots and three sockets: every slot can be taken and still a connection succeed. Three addresses start three connections, one closing and one failing peer. MQTT and TCP. |
| `EventLoopLive` | `Reconnects` | One address, two connections closed by the broker, one that fails. |
| `ConfigStore` | `FreedOnce` `GetsWhatWasStored` `NothingLeaked` | Three threads, two versions, three operations, one failure (of the close too), one reset. Three operations are two that overlap and one that sees what they left; two addresses are the cached object and one that leaked. |
| `Sbapi` | `ToldInOrder` `BitAndMessageAgree` `ProbingGoesOn` `MainHears` `SmartConfigOffered` | Six events: up, down and up again, with the connection before each; queues of two, which fill; two slots, so that the counter is neither at its start nor at its end once; SmartConfig starts or fails. Both roles. |
| `XTimer` | `ListSound` `NotOverdue` `WrongOnlyAfterEdge` | Two timers, a counter of six values that wraps three times, handlers that take up to half a turn, offsets below and above the back-off and up to the last of a turn, with and without a turn more. |
| `SlDriver` | `NoFault` `PoolSound` `UnreadIsRead` `PendingBehindActive` `NeverStuck` | Three threads, a pool of two, so that one call can wait behind another and a third find the pool empty; a call of each kind, on two sockets; three calls or events; three buffers, one above the flow control limit. |

The runs have between 5,000 (`EventLoopLive`) and 3.8 million (`SlDriver`) distinct states and take at most
three minutes. The type invariants of the modules other than `Junction` are not in a run: `TypeCorrect` of the
proof modules proves those of `EventLoop`, `WebLines`, `ConfigStore`, `Sbapi`, `SlDriver` and `XTimer`.
Bounds are constants named `Max...`; the `Streams` and `Lossy` constants bound the byte streams. The
runs set `CHECK_DEADLOCK FALSE` because the system stops when the bounds are used up or
all input is read; where being stuck is the question, a property asks it (`NeverStuck`,
`MainHears`). `Radix` is 8 in `SerialLink`: START, END and newline keep their relation to it,
payloads with two length bytes become short, and the code depends on 128 in no other way.
Symmetry is used for connections and sockets in runs without liveness; neither is ordered
in the code. `MaxSline` is 255 in the code; `Turn` is 2^32, the pool has 10 objects, the queues 8
messages: small values bring the borders into reach.

Some properties hold only where the code itself makes them possible, and say so:

- `Plain` is the stream contract of `MessageTape`. Outside of it: a length byte or
  a line id that happens to be 0x1E (START), after which the tape starts again and the packet is
  lost; a packet with an empty payload from `marshall`, which writes no LEN byte; strings that
  contain START or lack their newline, the empty string too.
- `RoundTrip` holds up to the first packet whose line id or type is 0x1E: the Ack has the one as its DLINE
  and the other in its payload, and starts again there on the host. The Acks before it are right.
- `Short` is the contract of `UartReader`: packets with a payload that one length byte can count, strings
  without START. Outside of it are finding 5 and, again, the missing LEN byte.
- `LossIsLocal` of the board takes payloads whose bytes are credible lengths. A zero in
  the place of the length, or a length beyond the packet, costs more, up to the whole
  buffer.
- `ServedWhileConnected`, `BroadcastDelivered` and the reliable case of `RouterSpec` assume that no
  callback fails and the line ids fit their byte: any exception ends a dispatch task.
- `OneConnectionPerOpen` counts a connection that was reset as one that is there: nothing replaces it (finding
  2). `RouterSpec` allows a reset to lose the end of what the broken connection wrote, nothing else.
- `MessagesGetAcross` is, towards the clients, about messages with nothing before them for which `to_json`
  raises, while no exception has ended a task or another task is left.
- `InOrder` of `WebLines` holds until a client's handler has ended: afterwards a second
  dispatch task may be started, and the two overtake each other while they await their sends.
- `SocketsAccounted` excepts sockets in `dropped`: the MQTT channel forgets a socket after a receive
  error without closing it, and a socket without a slot is forgotten too. After a stale close request it also
  excepts those in `forgotten`: the loop closes the socket of a free slot, main registers
  a new one there while `sl_Close` blocks, and `fd = 0` clears it (`eventloop.c:132-135`).
- `KeepsTryingUnlessStale` excepts states after a close request was left behind (`EventLoopClose.cfg`), and
  those where the retry timer was set a second time while it ran, so that the interrupt handler takes, or will
  take, the processor for good. A board that hangs does not count as trying, whatever is in its queues.
  `OneRetryAtATime` says
  that it takes a second address to set the timer twice.
- The properties of `ConfigStore` except overlapping operations, by kind. `FreedOnce` excepts every overlap with
  one that writes, and a connection that is being made is such an operation until its last use of
  `host`. `GetsWhatWasStored` allows nothing at all in the place of what was stored once a write was cut
  off after the file was opened, and what is cached after the file was deleted.
- `MainHears` and `SmartConfigOffered` except the cycles of `Stuck`, which are reachable: six events
  and a full queue suffice; they and `ProbingGoesOn` except the PANIC after SmartConfig did not start.
- The properties of `XTimer` hold until the first `edge` (section 3), so they say nothing of what follows, for
  example, a handler that is slower than the next target is near. `NotOverdue` allows a timer the latency of the
  interrupt, counted from where the code aims (`Overhead` before it is due), and no more.

## 5 Fairness

`Junction`: the asyncio loop runs every ready task, so a connection's handler and a line's
dispatcher are weakly fair; remote endpoints, opening and failing are not.

`WebLines`: as in `Junction`, and a send ends, with the buffer drained or the connection lost
(`Handler`, `Dispatch`, `MqttDispatch` are weakly fair). Clients, broker and close owe nothing.

`Sbapi`: RIOT runs a ready thread once the more urgent ones wait, an armed timer fires, and a call of
the network processor is answered, with success or failure; all weak. The network owes no event, main's
other senders
nothing. Progress is claimed only as long as no cycle of `Stuck` and no PANIC was reached.

`EventLoop`: RIOT schedules the loop whenever main is blocked, and main blocks after every
action, so the loop and main's local steps are weakly fair, and the hardware timer fires (weak).
Connecting ends (weak on success or failure). That it succeeds in the end is an assumption about
the broker: strong fairness of success, since main may fail and try again for ever
otherwise. `Reconnects` is checked where one address is acquired: several put the retry timer
into the list twice, after which the board hangs (a listed hazard), and lead to finding 6.

## 6 Proofs

Checked by TLAPS for every value of the constants that satisfies the named assumptions. Each
inductive invariant was checked by TLC on the instances of section 4 before it was proved. A step
is proved action by action; where several actions do the same to a part of the state, what they do
to it is a lemma or a step of its own.

**`JunctionProofs`**, from `ConnsAssumption`, `KindAssumption`, `PeersAssumption`, `MorphAssumption`
and `BoundAssumption`. That a response is written to its requester only
(`RepliesReachRequesters`) is not inductive. `RoutingInv` adds what it rests on: a
connection that is not fresh has a line (`AtInv`); ids of connections that were opened are
positive, at most `sid` and pairwise different (`LidInv`); writers are open connections of
their line (`WritersInv`); a response carries the id of the connection it answers wherever it
is, in an inbox (`InboxInv`), in a queue (`QueueInv`) or written (`OutInv`).
`ServedWhileConnected` is inductive together with `RoutingInv` (the source id in a queued packet is
at most `sid`): a task is only lost to `Lethal`, which its hypothesis excludes, and the hypothesis
is never regained once `sid` has passed `MaxSline` (`ConnectedLinesAreServed`).
`ClosedConnectionsAreReplacedOnce` needs in addition that the connections of a client line are finitely
many and that it never listens or dials ser2net (`OpenInv`); each action moves one unit
between `opening`, `Linked` and `opens`, and a reset leaves its unit where it is.

The same module proves `JunctionImplementsRouter`, that is `Spec => RouterSpec`, from the assumptions
above and `FiniteAssumption` (finitely many connections). A turn of a dispatcher is the delivery of
the oldest due message of its sender; reading a message is a stutter, since what is due on a line is
in its queue or in a stream read for it. A reset cuts the end off the stream of its connection, which is
`Break` (`CutImplements`, `ResetImplements`). `ImplInv` adds to `RoutingInv` what makes the mapping work: a
fresh connection has nothing (`FreshInv`), a message that is no response goes to all
(`BroadcastInv`), a stream is ordered (`StreamOrder`), what is queued of a sender is ordered
(`QueueOrder`) and lies before what is still in its stream (`QueueFirst`), there are as many ids as
numbered connections (`CountInv`, which keeps ids within a byte when `CannotFail` holds), and only an
allowed shutdown stops (`StopInv`).

About the abstract router it proves `RouterDeliversInOrder`: each endpoint gets the messages of one
sender in order and once, and no response meant for another. The invariant adds to it that sender and
number tell the messages apart that are due on a line (`Pending`), that members are at home on their
line (`AtHome`), and that what was delivered lies before all of the same sender that is still due
there (`Past`), which makes the oldest one the next. No run checks types of `Router`, so `Typed` is
part of the invariant. The two together are `JunctionDeliversInOrder`: order, no repeats and
addressing of the junction itself, without an argument about its queues and tasks.

**`EventLoopProofs`**, from `EventLoopAssumption`. `NeverSleepsOnWork`: `ScanInv` says that while the
mutex is locked, every slot the scan has passed is free or in `readfs`, and all slots are free between
the end of an empty scan and sleep. Whoever registers a channel unlocks the mutex in the same
step. `BoardInv` adds for the other four: a slot that the loop works on holds a socket, and the
socket of an ended connection is closed, given up or that of another slot (`SlotInv`; the
numbers of sockets are reused); the MQTT channel in use is the handler's and there is none while
main connects (`SessionInv`, for `OneSessionAtATime`); a free slot has no close request unless
one came too late (`PendingInv`), so that the next connection is not closed with the last
(`AlwaysTries`); a slot that is closed for a request that was not stale still holds its socket
(`ClosedInv`), and
`SocketsAccounted` itself (`NoSocketLost`). `NeverClosedUnderSelect` is an action
property: the sockets in `readfs` are those of slots that no step closes while `pc` is `"select"`.

**`ConfigStoreProofs`**, from `ConfigStoreAssumption`, for any number of threads and without use of their
priorities. All three theorems except overlapping operations, so the invariant starts with the fact that two
operations under way have been recorded (`OverlapInv`); an operation that connects is under way until its last
use of the pointer. `NeverFreedTwice`: `config` dangles only
while the file is written (`DanglingInv`), and a pointer that a thread works with is that of an
object (`PointerInv`). `HeapNotLeaked`: a thread alone reads the file only when nothing is
cached and writes it when everything is freed (`LeakInv`). `StoredIsGot`: what is promised or `kept`
(`Stored`), the
file has what is promised, or nothing that can be decoded, unless it is being written (`FileInv`), in
the buffer of those who read the file
(`ReadInv`), in the cache (`CacheInv`) and in the hands of the users (`GotInv`).

**`WebLinesProofs`**, from `WebAssumption`. The walk over the live list is by index, and clients come and
go. `WalkInv` says that each message is in the hands of one task and those the task has still to
come to have not got it: clients join behind the index, and a removal moves the others
towards it, which may skip a client (finding 7) but never repeats one (`NobodyIsWrittenTwice`).
`QueueInv` (what is queued is newer than what tasks hold) and `StayInv` (while no handler has ended
there is one task, and whom it has passed has got its message) give `WrittenInOrder` and the action
property `NobodyIsSkipped`.

**`SlDriverProofs`**, from `SlDriverAssumption` and `SpawnAssumption`. `DriverInv` has thirteen parts:
who holds the locks and from where to where (`LockInv`), which call is at which step and has an
object (`StageInv`, `OwnInv`), which threads the members of the lists belong to (`ListInv`), that
active calls have different bits (`KeyInv`); where the response to the command, the signal and the
result of a call are, in exactly one place (`CmdInv`, `SigInv`, `ResultInv`); that an unread
message masks the interrupt and somebody is called for it (`UnreadInv`, `LookInv`); that the driver
never counts more transmit buffers than there are (`TxInv`); and that the spawn queue has an
entry at most per caller and one of the interrupt (`SpawnInv`). From it follow
`EveryMessageFindsItsCall`, `NoMessageForgotten` and `PoolIsShared`. `NobodyOnHoldIsForgotten` has a
hypothesis, `OneKindPerSocket`: calls with a late result that exclude each other are the same call.
Without it the property is false, since a release wakes only calls of the same action while the bit
of a socket excludes all (`connect` and `recv` on one socket). The board makes one kind of
waiting call on a socket at a time; `MCSlDriver` asserts the hypothesis of its calls.

**`SbapiProofs`**, from `SbapiAssumption`. `MainIsToldInOrder`, `BitAgreesWithMessages` and
`NeverStopsProbing`. A message is in the hands of the one who holds the driver's lock, and nothing
comes before the thread exists (`PlaceInv`); so at most one change is in a handler's hands and it is the last
that was read. The place of a queued change in `read` is the number of changes before it
(`CountIn`, with lemmas for `Append` and `Tail`). The bit is that of the last change read
unless one was lost (`BitInv`); an address was acquired before the bit was set (`ProbeInv`). A board in
PANIC does not
probe, and its theorem does not say so.

**`XTimerProofs`**, from `XTimerAssumption`: `TypeCorrect`, `ListIsSound`, `NoneOverdue` and
`WrongOnlyAtEdges`, for any finite set of timers, any counter and any number of wraps. The invariant
claims something only until an edge is met (`edge \/ Good`). Then no timer was shot early and the
assertion of the wrap handler held; the list is a chain without repetition, in the order of turns left and
target, of the timers that are in it (`ListInv`); a thread that has read the counter and not
inserted yet has computed what was asked for, from a turn that has begun (`SetInv`); turns and target of a timer
in the list make the time it waits for, counted from the turn of `ListTurn`, which a pending wrap has
not advanced yet, and it is late by no more than the interrupt is (`DueInv`); a pending wrap belongs
to the turn that has just begun and finds no timer of the turn that ended (`WrapInv`), nor does the
handler between its steps (`WrapOpen`); the match handler took its reference in this turn (`IsrInv`),
nothing is late while no interrupt is pending
(`IdleInv`), and the match register holds the first target of the turn, or it has been met (`MatchInv`).
The list is a function from
places to timers: what inserting and taking out do to it is shown for the least place where it could
go wrong. `XTimerAssumption` has the interrupt latency shorter than a turn, since the one flag of
the hardware stands for one wrap; two before the handler runs are not to be told from one.

**`SerialLinkProofs`**, from `FrameAssumption` and `SerialLinkAssumption` (streams of messages of
bytes, and what the board writes fits its buffer). The streams may be of any length, and so may payloads and
length fields.

- The host's reader: `InOrderUnchanged`, `AllReturned`. `HostInv` says that there is a division of
  the stream into the bytes of its messages such that for each number n of messages from
  the start that keep the contract the host is (`ReadingOf`) within one of them, with those before it returned
  unchanged and the tape as it must be after p bytes (`TapeIs`), or exactly behind them with a
  new tape, or further on with those n returned. Within the length field the tape is described by
  what is still to come: `plen` plus `mult` times v is the length, and the digits not yet read are
  those of v (`LengthTape`). That the board writes on while the host reads extends the division.
- The codec: `DecodedAsEncoded`. The encoders of both sides make the same packet up to the line
  (`Packs`), its length field ends where it should (`IsField`, for any number of digits), so the
  decoder finds the payload.
- The board's reader: `BoardHandlesAsSent`. `BoardInv` says the reader is between two messages, idle and
  with all packets before it handled, or after p bytes of a packet with these in the buffer (`InPacket`:
  what lies behind them there does not matter) or in a text. A text may be empty, so the place between two
  messages is not unique; the last of them is taken (`SkipEmpty`).

The functions these modules use are recursive (`CLength`, `FlattenSeq`, `LengthOf`). The induction they need is
made without an induction theorem: `Least`, that a set of natural numbers has a least element,
applied to the set of those for which the claim fails.

Only model-checked: liveness and everything with fairness (`BroadcastDelivered`, `MessagesGetAcross`,
`Reconnects`, `MainHears`, `SmartConfigOffered`); `NeverStuck`, which is about
`ENABLED`; `RoundTrip`, for which the proofs of the two readers would have to be joined through
the selections `Acks` and `Wanted` (`SelectSeq`, of which the provers know nothing); and
`LossIsLocal`, which counts records after a byte was lost and needs a description of the readers
out of step with the packets.

## 7 Findings

Listed in `PROJECT.json`, with its run:

1. `JunctionNone`: a callback that returns None ends the dispatch task of the target line; the
   documentation says the packet is silently discarded (`junction.py:433`).

Reproduced by configurations of their own, each of which TLC ends with a counterexample:

2. `JunctionReset.cfg` (`MCJunction`): a connection to a remote server that is reset, and not closed, is not
   replaced, although the comment in `line_handler` says that the junction tries to reconnect
   (`junction.py:362-373`). `LostIsReplaced`.
3. `JunctionDetach.cfg` (`MCJunction`): detaching a line whose remote is a server makes it connect again
   (`junction.py:369`, 701-703). `DetachedStaysClosed`.
4. `TapeDeaf.cfg` (`MCSerialLink`): the board corrupts packets with two length bytes on the UART
   (`bocia_uart.c:52`), and after one the host's tape misjudges the length of the next packets
   too, because START does not reset `hlen` and `mult` (`junction.py:107`). `StartMarksPacket`.
5. `UartLong.cfg` (`MCSerialLink`): the board reads one byte too few of a packet with two length bytes
   (`bocia_uart.c:144`). `LongPacketHandled`.
6. `EventLoopClose.cfg` (`MCEventLoop`): a close request survives the connection it was for and closes
   the next one in its slot, of which nobody is told (`bocia_mqtt.c:318`, `eventloop.c:132`). `KeepsTrying`.
7. `WebLinesLeft.cfg` (`MCWebLines`): a client that leaves while `WSLine.dispatch` walks the list makes
   the loop skip another, although the docstring says "all websocket clients connected"
   (`junction.py:636-644`). `SentToAll`.
8. `ConfigZero.cfg` (`MCConfigStore`): FACTORY_RESET deletes the file and leaves the cached object, so
   that `bocia_get_config` does not return zero as its comment says. `ZeroWithoutFile`.
9. `SbapiStale.cfg` (`MCSbapi`): a board that started as access point, had an address and was set to
   be a station keeps the bit of that address, and neither goes on probing nor offers
   SmartConfig (`sbapi_cc3200.c:33-37`, 441). `StationGetsSmartConfig`.
10. `XTimerEarly.cfg` (`MCXTimer`): after a wrap in the match handler a timer is shot early, against the
   comment of `_timer_callback`. `NeverEarly`.

Observed while modelling, without a configuration: `osi_SyncObjWait` ignores finite timeouts
(`osi_riot.c:278-294`), so no timeout of the driver ever runs out; `VERIFY_PROTOCOL` returns with the
locks held; a call waiting for a pool object is woken only by a call of the same action and
socket, while the bitmap of a socket excludes other actions too; what the spawn thread
prints can land inside a packet on the UART; the handler of a receive error of a TCP channel does
nothing, so that `select` returns at once again (`bocia_tcp.c:93`); the loop blocks when
main's queue is full (`eventloop.c:145`); `to_json` raises for a payload that is neither an object nor UTF-8 and
ends the dispatch task (`junction.py:642`), a binary websocket frame raises `TypeError` and leaves its
writer in the
list (`junction.py:631`) (both modelled in `WebLines`); a `CONFIG` handled while main connects frees the
`host` that
`mqtt_connect` prints when `sl_Socket` or `sl_Connect` has failed (`bocia_mqtt.c:156, 213`), an overlap
in `ConfigStore`.

## 8 What is not modelled

- Contents: protobuf encoding, JSON, topic names, addresses, LED and pin values.
- TCP flow control: `drain` is not called by the code of TCP lines; a slow client costs memory only.
- The TCP server of the board, unsubscribing, the push button; `expect_json`; a `WSLine` that
  connects to a remote server, whose retry is that of `TcpLine`.
- The message queue of main has no limit in `EventLoop` (8 in the code; the loop would block); it has
  one in `Sbapi`.
- Past `MAX_BIN_SIZE` the board's reader writes behind its buffer; a TODO in the code,
  and the model stops there.
- The contents of the MQTT buffer shared by main and the loop.
- `SerialLink`: `ack.status`, which the application chooses, and the CONFIG packet that answers
  GET_CONFIG, so that this command counts as one without an answer.
- `ConfigStore`: `simplelink_to_default_state` is one call; its waits and its exits with `STOP_IF_ERR` are a
  thread that stays in it. The zero pointer that `bocia_command` marshalls when there is no configuration
  (`bocia.c:244`, with a TODO) is not followed. A configuration fits the static buffer; the file system is
  assumed never to give back a part of a write as if it were whole.
- `Sbapi`: the commands of `sbapi_init` before the thread exists, which stop the board when they fail, and the
  failures of `sbapi_set_mode`, which are ignored.
- `XTimer`: callbacks that set or remove timers; an offset for which the sum with the counter wraps 64 bits.
- `XTimer`: `xtimer_periodic_wakeup`, which is `_xtimer_set` on a timer of its own; a timer set by
  `_xtimer_set_msg64` while it is in the list, which `EventLoop` has as the outcome of `timer`.
- `SlDriver`: start and stop, the parsing of messages, device classes other than the one the board
  uses; mixed actions on one socket, since a socket of the board is used by one kind of
  waiting call; the pool of synchronisation objects in `osi_riot.c`, which is large enough for it.
- The client calls of the host: one request at a time, no state between calls.
- Peripheral drivers, boards, tools, recipes, generators and vendored code: the register
  definitions and drivers of TI's SDK, protobuf-c, paho and the test libraries are most of the lines
  of the repository. They are constants and straight register accesses whose effect the hardware
  defines, or libraries the code uses by their interface; the model has what is NAIS's own, and of the
  SDK the driver core, where the threads of the board meet.

## 9 How to run

    tlc -config JunctionRouting.cfg MCJunction
    tlc -config WebLinesLeft.cfg MCWebLines
    tlapm JunctionProofs.tla
