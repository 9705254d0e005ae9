----------------------------- MODULE UartReader -----------------------------
(***************************************************************************)
(* The byte reader of the board's serial port (bocia_uart.c, serial_loop): *)
(* a state machine over a static buffer that hands whole packets to        *)
(* bocia_unmarshall and ignores what is between them.  The host writes     *)
(* strings and packets, which the junction has given a source line; one    *)
(* byte may get lost on the wire.                                          *)
(***************************************************************************)
EXTENDS NaisFrame, SequencesExt

CONSTANTS
    Streams,      \* what the host can write: sequences of messages
    LossyStreams, \* the streams that lose one byte on the way
    RxSize        \* MAX_BIN_SIZE; the reader is not followed beyond it

\* A packet is what marshall made and Packet.packet stamped with a line id.
Encode(m) == IF m.kind = "text" THEN m.payload ELSE [Marshall(m) EXCEPT ![3] = m.sline]

VARIABLES
    sent,       \* the messages written, in order
    hit,        \* the message that loses a byte, 0 if none, and which byte
    wire,       \* bytes written and not yet read
    sts,        \* what the next byte is
    binlen,     \* the length as far as it is read
    multiplier, \* weight of the next length digit
    count,      \* line_buf_ptr - _rxbuff
    rxbuff,     \* _rxbuff, never cleared
    delivered   \* what bocia_unmarshall made of the buffer, in order

vars == <<sent, hit, wire, sts, binlen, multiplier, count, rxbuff, delivered>>

Arriving(i) == IF i = hit.msg THEN RemoveAt(Encode(sent[i]), hit.byte) ELSE Encode(sent[i])

Init ==
    /\ \/ sent \in Streams /\ hit = [msg |-> 0, byte |-> 0]
       \/ /\ sent \in LossyStreams
          /\ \E i \in DOMAIN sent : \E k \in DOMAIN Encode(sent[i]) : hit = [msg |-> i, byte |-> k]
    /\ wire = FlattenSeq([i \in DOMAIN sent |-> Arriving(i)])
    /\ sts = "WAIT_START" /\ binlen = 0 /\ multiplier = 1 /\ count = 0
    /\ rxbuff = [i \in 1..RxSize |-> 0]
    /\ delivered = <<>>

-----------------------------------------------------------------------------
c == Head(wire)

\* c = getchar()
Getchar == wire # <<>> /\ wire' = Tail(wire) /\ UNCHANGED <<sent, hit>>

\* *line_buf_ptr++ = c
Store ==
    /\ count < RxSize
    /\ rxbuff' = [rxbuff EXCEPT ![count + 1] = c]
    /\ count' = count + 1

WaitStart ==
    /\ Getchar
    /\ sts = "WAIT_START"
    /\ IF c = START THEN sts' = "MSG_TYPE" /\ multiplier' = 1 ELSE UNCHANGED <<sts, multiplier>>
    /\ UNCHANGED <<binlen, count, rxbuff, delivered>>

\* MSG_TYPE, SLINE, DLINE and FLAGS.
Following == [MSG_TYPE |-> "SLINE", SLINE |-> "DLINE", DLINE |-> "FLAGS", FLAGS |-> "LEN"]

HeaderByte ==
    /\ Getchar
    /\ sts \in DOMAIN Following
    /\ Store
    /\ sts' = Following[sts]
    /\ UNCHANGED <<binlen, multiplier, delivered>>

LengthByte ==
    /\ Getchar
    /\ sts = "LEN"
    /\ Store
    /\ binlen' = binlen + (c % Radix) * multiplier
    /\ multiplier' = multiplier * Radix
    /\ sts' = IF Continues(c) THEN "LEN" ELSE "BIN_BLOCK"
    /\ UNCHANGED delivered

\* Mutant: an END byte ends the block.
BinBlockToEnd ==
    /\ Getchar
    /\ sts = "BIN_BLOCK"
    /\ Store
    /\ sts' = IF count' = binlen + 5 \/ c = END THEN "EXPECT_END" ELSE "BIN_BLOCK"
    /\ UNCHANGED <<binlen, multiplier, delivered>>

\* The 5 stands for type, lines, flags and one byte of length.
BinBlock ==
    /\ Getchar
    /\ sts = "BIN_BLOCK"
    /\ Store
    /\ sts' = IF count' = binlen + 5 THEN "EXPECT_END" ELSE "BIN_BLOCK"
    /\ UNCHANGED <<binlen, multiplier, delivered>>

\* Mutant: a wrong byte in the place of END drops the packet but does not
\* rewind the buffer.
ExpectEndDrop ==
    /\ Getchar
    /\ sts = "EXPECT_END"
    /\ sts' = "WAIT_START"
    /\ IF c = END THEN delivered' = Append(delivered, NaisUnmarshall(rxbuff)) /\ count' = 0 /\ binlen' = 0
                  ELSE UNCHANGED <<delivered, count, binlen>>
    /\ UNCHANGED <<multiplier, rxbuff>>

\* RECORD_END delivers the packet; any other byte is skipped.
ExpectEnd ==
    /\ Getchar
    /\ sts = "EXPECT_END"
    /\ IF c = END
         THEN /\ delivered' = Append(delivered, NaisUnmarshall(rxbuff))
              /\ sts' = "WAIT_START" /\ count' = 0 /\ binlen' = 0
         ELSE UNCHANGED <<delivered, sts, count, binlen>>
    /\ UNCHANGED <<multiplier, rxbuff>>

Next == WaitStart \/ HeaderByte \/ LengthByte \/ BinBlock \/ ExpectEnd
Spec == Init /\ [][Next]_vars

-----------------------------------------------------------------------------
Decoded(m)  == [type |-> m.type, sline |-> m.sline, payload |-> m.payload]
IsPacket(m) == m.kind # "text"
Packets     == FlattenSeq([i \in DOMAIN sent |-> IF IsPacket(sent[i]) THEN <<sent[i]>> ELSE <<>>])

\* The stream contract: strings without START, and packets with a payload
\* whose length is one byte (see LongPacketHandled).
Short(m) == IF IsPacket(m) THEN Len(m.payload) \in 1..Radix - 1 ELSE START \notin Range(m.payload)

(* What the board handles is, in order and unchanged, what the host sent   *)
(* if it keeps the contract above, whatever START and END bytes the lines  *)
(* and the payload contain and whatever text is written between packets    *)
(* (serial_loop, nais_unmarshall on a buffer that still holds the packets  *)
(* before).                                                                *)
HandledAsSent ==
    hit.msg = 0 /\ (\A i \in DOMAIN sent : Short(sent[i])) =>
        /\ Len(delivered) <= Len(Packets)
        /\ \A i \in DOMAIN delivered : delivered[i] = Decoded(Packets[i])
        /\ wire = <<>> => Len(delivered) = Len(Packets)

\* The packets that are safe whatever byte of the damaged message is lost.
Safe == {i \in DOMAIN sent : /\ IsPacket(sent[i])
                             /\ \/ i < hit.msg
                                \/ \E k \in hit.msg + 1..i - 1 : IsPacket(sent[k])}

(* A lost byte costs the packet it belongs to and the next one, of which   *)
(* the reader takes bytes to complete the first, and no more, as long as   *)
(* the byte that is taken for the length is not zero and not longer than   *)
(* the packet (serial_loop rewinds the buffer after every END it acts on). *)
LossIsLocal ==
    wire = <<>> /\ hit.msg # 0 => \A i \in Safe :
        Cardinality({j \in DOMAIN delivered : delivered[j] = Decoded(sent[i])})
            >= Cardinality({k \in Safe : Decoded(sent[k]) = Decoded(sent[i])})

(* "The MSB bit is a continuation bit if payload len exceeds 127 bytes":   *)
(* the board handles a long packet as it was sent (docs/nais_protocol.rst).*)
LongPacketHandled ==
    \A i \in DOMAIN delivered : delivered[i] = Decoded(Packets[i])
=============================================================================
