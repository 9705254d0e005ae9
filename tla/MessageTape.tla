---------------------------- MODULE MessageTape ----------------------------
(***************************************************************************)
(* The byte reader of the host (junction.py: MessageTape, msg_receive): a  *)
(* stream of text lines and packets is cut into records, a new MessageTape *)
(* for every record.  The other end writes whole messages in order.  What  *)
(* it writes is fixed in the initial state, and so is the byte that a      *)
(* serial line loses on the way, if any.                                   *)
(***************************************************************************)
EXTENDS NaisFrame, SequencesExt

CONSTANTS
    Streams,      \* what the other end can write: sequences of messages
    LossyStreams, \* the streams that lose one byte on the way
    TxSize        \* size of the board's transmit buffers: MAX_BIN_SIZE

\* A message is a packet of an endpoint in Python, of a board on its serial
\* port or on the network, or a string.
Encode(m) ==
    CASE m.kind = "host"  -> Marshall(m)
      [] m.kind = "board" -> ProtobufToUart(m, [i \in 1..TxSize |-> 0])
      [] m.kind = "net"   -> NaisMarshall(m, [i \in 1..TxSize |-> 0])
      [] m.kind = "text"  -> m.payload

VARIABLES
    sent,  \* the messages written, in order
    hit,   \* the message that loses a byte, 0 if none, and which byte
    wire,  \* bytes written and not yet read
    tape,  \* the MessageTape of the record being read
    got    \* the records returned by msg_receive

vars == <<sent, hit, wire, tape, got>>

\* MessageTape.__init__.
NewTape == [expected_len |-> 512 * Radix, cursor |-> 0, mult |-> 1, sts_len |-> "none",
            hlen |-> 6, plen |-> 0, sts |-> "A_STREAM", msg |-> <<>>]

\* The bytes of message i that get through.
Arriving(i) == IF i = hit.msg THEN RemoveAt(Encode(sent[i]), hit.byte) ELSE Encode(sent[i])

Init ==
    /\ \/ sent \in Streams /\ hit = [msg |-> 0, byte |-> 0]
       \/ /\ sent \in LossyStreams
          /\ \E i \in DOMAIN sent : \E k \in DOMAIN Encode(sent[i]) : hit = [msg |-> i, byte |-> k]
    /\ wire = FlattenSeq([i \in DOMAIN sent |-> Arriving(i)])
    /\ tape = NewTape
    /\ got = <<>>

-----------------------------------------------------------------------------
\* Mutant: the length digits all count the same.
ReadLengthFlat(t, b) ==
    IF t.cursor # 5 /\ t.sts_len # "LEN_ENTER" THEN t
    ELSE IF Continues(b)
           THEN [t EXCEPT !.plen = @ + (b - Radix), !.hlen = @ + 1, !.sts_len = "LEN_ENTER"]
           ELSE [t EXCEPT !.expected_len = t.hlen + t.plen + b, !.sts_len = "LEN_DONE"]

\* The byte at cursor 5 and the bytes after a continuation bit are LEN.
ReadLength(t, b) ==
    IF t.cursor # 5 /\ t.sts_len # "LEN_ENTER" THEN t
    ELSE IF Continues(b)
           THEN [t EXCEPT !.plen = @ + t.mult * (b - Radix), !.mult = @ * Radix,
                          !.hlen = @ + 1, !.sts_len = "LEN_ENTER"]
           ELSE [t EXCEPT !.expected_len = t.hlen + t.plen + t.mult * b,
                          !.sts_len = "LEN_DONE"]

\* add_char up to the test for the end of the record.
Feed(t, b) ==
    LET counted == IF t.sts = "B_STREAM" THEN ReadLength([t EXCEPT !.cursor = @ + 1], b) ELSE t
        stored  == [counted EXCEPT !.msg = Append(@, b)]
    IN  IF b = START
          THEN [stored EXCEPT !.cursor = 0, !.plen = 0, !.sts = "B_STREAM", !.sts_len = "none"]
          ELSE stored

\* Mutant: any END byte ends a packet.
CompleteAtEnd(t, b) == (t.sts = "B_STREAM" /\ b = END) \/ (t.sts = "A_STREAM" /\ b = NL)

\* add_char returns False: the record is complete.
Complete(t, b) ==
    /\ b # START
    /\ \/ t.sts = "B_STREAM" /\ t.cursor = t.expected_len /\ b = END
       \/ t.sts = "A_STREAM" /\ b = NL

\* msg_receive reads one byte; a complete record is returned.
AddChar ==
    /\ wire # <<>>
    /\ wire' = Tail(wire)
    /\ LET t == Feed(tape, Head(wire)) IN
           IF Complete(t, Head(wire))
             THEN got' = Append(got, t.msg) /\ tape' = NewTape
             ELSE got' = got /\ tape' = t
    /\ UNCHANGED <<sent, hit>>

Next == AddChar
Spec == Init /\ [][Next]_vars

-----------------------------------------------------------------------------
\* The stream contract: text lines end with their only newline and have no
\* START, no byte of a packet but the first is START, and a packet of the
\* host has a payload.
Plain(m) ==
    \/ /\ m.kind = "text"
       /\ m.payload # <<>>
       /\ \A i \in DOMAIN m.payload : m.payload[i] # START
       /\ \A i \in DOMAIN m.payload : m.payload[i] = NL <=> i = Len(m.payload)
    \/ /\ m.kind = "host"
       /\ m.payload # <<>>
       /\ START \notin Range(Tail(Encode(m)))
    \/ /\ m.kind = "board"
       /\ Len(m.payload) < Radix
       /\ START \notin Range(Tail(Encode(m)))
    \/ /\ m.kind = "net"
       /\ START \notin Range(Tail(Encode(m)))

\* How many of the messages from the first on keep the contract.
PlainRun == CHOOSE n \in 0..Len(sent) : /\ \A i \in 1..n : Plain(sent[i]) /\ i # hit.msg
                                        /\ n < Len(sent) => ~Plain(sent[n + 1]) \/ n + 1 = hit.msg

Returned(bytes) == \E j \in DOMAIN got : got[j] = bytes

(* Strings and packets that share a stream come out one by one, unchanged  *)
(* and in order, whatever NL, END and length-like bytes the packets        *)
(* contain, up to the first message that breaks the contract above         *)
(* (add_char, msg_receive).                                                *)
StreamIsDemultiplexed ==
    \A i \in 1..PlainRun : i <= Len(got) => got[i] = Encode(sent[i])

(* Nothing that keeps the contract is held back: when all bytes are read,  *)
(* every message of a stream that keeps it has been returned.              *)
NothingHeldBack ==
    wire = <<>> /\ PlainRun = Len(sent) => Len(got) = Len(sent) /\ tape = NewTape

(* A packet read from an endpoint or a board decodes to what was encoded   *)
(* (unmarshall against marshall, nais_marshall and protobuf_to_uart).      *)
PacketsDecode ==
    \A i \in 1..PlainRun : i <= Len(got) /\ sent[i].kind # "text" =>
        Unmarshall(got[i]) = [type |-> sent[i].type, dline |-> sent[i].dline,
                              payload |-> sent[i].payload]

\* The messages that are safe whatever byte is lost: those before the
\* damaged one, and those behind the first packet after it.
Safe == {i \in DOMAIN sent : \/ i < hit.msg
                             \/ \E k \in hit.msg + 1..i - 1 : sent[k].kind # "text"}

(* A lost byte costs the message it belongs to and what follows up to the  *)
(* next packet, which comes out glued to the rest; every other message is  *)
(* returned (add_char starts again at START, and msg_receive with a new    *)
(* tape after every record; no byte of the stream continues a length).     *)
LossIsLocal ==
    wire = <<>> /\ hit.msg # 0 => \A i \in Safe :
        Cardinality({j \in DOMAIN got : got[j] = Encode(sent[i])})
            >= Cardinality({k \in Safe : Encode(sent[k]) = Encode(sent[i])})

(* SYNC_START marks the start of a packet: a short packet is returned      *)
(* whatever the packet before it was like, if only glued to the rest of    *)
(* that one.                                                               *)
StartMarksPacket ==
    wire = <<>> => \A i \in DOMAIN sent : Len(sent[i].payload) < Radix =>
        \E j \in DOMAIN got : IsSuffix(Encode(sent[i]), got[j])
=============================================================================
