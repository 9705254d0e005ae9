----------------------------- MODULE SerialLink -----------------------------
(***************************************************************************)
(* The serial port between a SerialLine and a board: the reader of the     *)
(* board (UartReader) on what the host writes, the reader of the host      *)
(* (MessageTape) on what the board writes.  The port is also the console   *)
(* of the board: it echoes what it reads outside of packets, and prints    *)
(* lines before it answers a packet (bocia_uart.c, bocia.c).                *)
(***************************************************************************)
EXTENDS NaisFrame, SequencesExt

CONSTANTS
    UpStreams, UpLossy,     \* what the board, or an endpoint of TCP, writes by itself
    DownStreams, DownLossy, \* what the host writes
    TxSize, RxSize,         \* MAX_BIN_SIZE
    AckType,                \* ACK_TYPE
    Unanswered              \* the types that are handled without an Ack

\* Only what the host writes has an sline that is not 0: its own junction's.
Message == [kind : {"host", "board", "net", "text"}, type : Byte, dline : Byte, sline : Byte,
            payload : Seq(Byte)]

\* What the board writes fits its buffer, and so does the shortest Ack.
ASSUME SerialLinkAssumption ==
    /\ \A s \in UpStreams \cup UpLossy \cup DownStreams \cup DownLossy : s \in Seq(Message)
    /\ \A s \in UpStreams \cup UpLossy : \A i \in DOMAIN s :
          s[i].kind \in {"board", "net"} => HeaderSize(s[i]) + Len(s[i].payload) < TxSize
    /\ TxSize \in Nat /\ TxSize > 7 /\ RxSize \in Nat /\ RxSize > 1
    /\ AckType \in Byte

VARIABLES
    downSent, downHit, downWire,                      \* host to board, see UartReader
    sts, binlen, multiplier, count, rxbuff, delivered,
    upSent, upHit, upWire, tape, got                  \* board to host, see MessageTape

downVars == <<downSent, downHit, downWire, sts, binlen, multiplier, count, rxbuff, delivered>>
upVars   == <<upSent, upHit, upWire, tape, got>>
vars     == <<downVars, upVars>>

Board == INSTANCE UartReader WITH
            Streams <- DownStreams, LossyStreams <- DownLossy,
            sent <- downSent, hit <- downHit, wire <- downWire
Host  == INSTANCE MessageTape WITH
            Streams <- UpStreams, LossyStreams <- UpLossy,
            sent <- upSent, hit <- upHit, wire <- upWire

\* One side has something to write, or both have nothing.
Init ==
    \/ upSent = <<>> /\ Host!Init /\ Board!Init
    \/ downSent = <<>> /\ Board!Init /\ Host!Init

-----------------------------------------------------------------------------
BoardWrites(ms) ==
    /\ upSent' = upSent \o ms
    /\ upWire' = upWire \o FlattenSeq([i \in DOMAIN ms |-> Host!Encode(ms[i])])
    /\ UNCHANGED <<upHit, tape, got>>

\* DEBUG("%c", c) outside of packets, DEBUG("executing [%d] message\n").
Text(s) == [kind |-> "text", type |-> 0, dline |-> 0, sline |-> 0, payload |-> s]
Log == Text(<<0, NL>>)

\* Mutant: the Ack goes to line 0.
AckToAll(d) ==
    [kind |-> "board", type |-> AckType, dline |-> 0, sline |-> 0, payload |-> <<d.type>>]

\* The Ack of bocia_input_handler: its id is the type, its DLINE the line
\* that the packet came from.  Its status, which only the default case sets
\* and the application chooses (handle_command), is left out.
Ack(d) ==
    [kind |-> "board", type |-> AckType, dline |-> d.sline, sline |-> 0, payload |-> <<d.type>>]

\* bocia_input_handler, up to what it does with the message.  A command or a
\* secret gets no Ack; the Config packet that answers GET_CONFIG_CMD is not
\* modelled, so that such a command is a type of Unanswered like the others.
Handled(d) == IF d.type \in Unanswered THEN <<Log>> ELSE <<Log, Ack(d)>>

BoardReads ==
    /\ Board!Next
    /\ CASE delivered' # delivered -> BoardWrites(Handled(Last(delivered')))
         [] sts = "WAIT_START" /\ sts' = "WAIT_START" -> BoardWrites(<<Text(<<Board!c>>)>>)
         [] OTHER -> UNCHANGED upVars

\* The readers share nothing but the queue of bytes between them, so their steps
\* commute: the host may as well wait until the board has read everything.
HostReads == downWire = <<>> /\ Host!Next /\ UNCHANGED downVars

Next == BoardReads \/ HostReads

Spec == Init /\ [][Next]_vars

-----------------------------------------------------------------------------
StreamIsDemultiplexed == Host!StreamIsDemultiplexed
NothingHeldBack == Host!NothingHeldBack
PacketsDecode == Host!PacketsDecode
HandledAsSent == Board!HandledAsSent
LossIsLocal == Host!LossIsLocal /\ Board!LossIsLocal

(* They do not hold for packets with two length bytes.                     *)
StartMarksPacket == Host!StartMarksPacket
LongPacketHandled == Board!LongPacketHandled

Acks   == SelectSeq(got, LAMBDA r : Head(r) = START)
Wanted == SelectSeq(Board!Packets, LAMBDA m : m.type \notin Unanswered)

\* START inside the Ack: the host's tape starts again there.
Spoils(m) == START \in {m.sline, m.type}

(* Each packet of the host is answered once, in order, with an Ack that    *)
(* names its type and goes back to the line it came from, whatever the     *)
(* board echoes and prints in between.  A line id or a type that is START  *)
(* spoils the Ack, which has the one as its DLINE and the other in its     *)
(* payload; the Acks before the first such packet are right all the same   *)
(* (bocia_input_handler, protobuf_to_uart, add_char).                      *)
RoundTrip ==
    downSent # <<>> /\ upHit.msg = 0 /\ downHit.msg = 0 =>
        /\ \A i \in DOMAIN Acks \cap DOMAIN Wanted :
               (\A k \in 1..i : ~Spoils(Wanted[k])) =>
                   Unmarshall(Acks[i]) = [type |-> AckType, dline |-> Wanted[i].sline,
                                          payload |-> <<Wanted[i].type>>]
        /\ (\A i \in DOMAIN Wanted : ~Spoils(Wanted[i])) =>
               /\ Len(Acks) <= Len(Wanted)
               /\ downWire = <<>> /\ upWire = <<>> => Len(Acks) = Len(Wanted)
=============================================================================
