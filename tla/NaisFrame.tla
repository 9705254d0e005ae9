------------------------------ MODULE NaisFrame ------------------------------
(***************************************************************************)
(* The NAIS packet format and its encoders: pynais.marshall on the host,   *)
(* nais_setup_header and its two callers on the board.                     *)
(*                                                                         *)
(*     START TYPE SLINE DLINE FLAGS LEN... PAYLOAD... END                  *)
(*                                                                         *)
(* The code has Radix 128, START 0x1E, END 0x17 and newline 0x0A.  What    *)
(* matters here is that the three are values below Radix, so that they may *)
(* also turn up as a type, a line id, a length or a byte of a payload.     *)
(***************************************************************************)
EXTENDS Integers, Sequences

CONSTANTS Radix, START, END, NL

ASSUME FrameAssumption ==
    /\ Radix \in Nat \ {0, 1}
    /\ START \in 0..Radix - 1 /\ END \in 0..Radix - 1 /\ NL \in 0..Radix - 1
    /\ START # END /\ START # NL /\ END # NL

Byte == 0..2 * Radix - 1

\* The bit of a length byte that says another one follows.
Continues(b) == b >= Radix

-----------------------------------------------------------------------------
(* The LEN field: base-Radix digits, least significant first               *)

\* do { ... } while (len) in nais_setup_header: at least one byte.
CLength[n \in Nat] ==
    IF n < Radix THEN <<n>> ELSE <<Radix + (n % Radix)>> \o CLength[n \div Radix]

\* while n: in marshall: no byte at all for an empty payload.
PyLength(n) == IF n = 0 THEN <<>> ELSE CLength[n]

\* How many bytes the LEN field that begins s has.
LengthSize(s) ==
    CHOOSE k \in DOMAIN s : ~Continues(s[k]) /\ \A j \in 1..k - 1 : Continues(s[j])

\* What the decoders add up from the length bytes that begin s.
LengthOf(s) ==
    LET size == LengthSize(s)
        rest[k \in 1..size] ==
            IF k = size THEN s[k] ELSE s[k] - Radix + Radix * rest[k + 1]
    IN  rest[1]

-----------------------------------------------------------------------------
(* The encoders; m is [type, dline, payload]                               *)

Marshall(m) ==
    <<START, m.type, 0, m.dline, 0>> \o PyLength(Len(m.payload)) \o m.payload \o <<END>>

\* nais_setup_header on a buffer of bytes: the header, and END after the
\* place of the payload.
SetupHeader(m, buff) ==
    LET header == <<START, m.type, 0, m.dline, 0>> \o CLength[Len(m.payload)]
        end    == Len(header) + Len(m.payload) + 1
    IN  [i \in DOMAIN buff |-> IF i <= Len(header) THEN header[i]
                               ELSE IF i = end THEN END ELSE buff[i]]

HeaderSize(m) == 5 + Len(CLength[Len(m.payload)])

\* protobuf_c_message_pack at an offset of the buffer.
PackAt(m, offset, buff) ==
    [i \in DOMAIN buff |-> IF i - offset \in DOMAIN m.payload THEN m.payload[i - offset]
                                                            ELSE buff[i]]

\* nais_marshall packs behind the header it has built.
NaisMarshall(m, buff) ==
    SubSeq(PackAt(m, HeaderSize(m), SetupHeader(m, buff)), 1, HeaderSize(m) + Len(m.payload) + 1)

\* protobuf_to_uart packs at offset 6 whatever the size of the header.
ProtobufToUart(m, buff) ==
    SubSeq(PackAt(m, 6, SetupHeader(m, buff)), 1, HeaderSize(m) + Len(m.payload) + 1)

-----------------------------------------------------------------------------
(* The decoders                                                            *)

\* Mutant: the payload always begins at byte 6.
UnmarshallSix(packet) ==
    [type |-> packet[2], dline |-> packet[4], payload |-> SubSeq(packet, 7, Len(packet) - 1)]

\* unmarshall (nais.py) on a whole packet, and nais_unmarshall (nais.c) on
\* a packet without its START: the payload is what follows the LEN field.
Unmarshall(packet) ==
    LET size == LengthSize(SubSeq(packet, 6, Len(packet)))
    IN  [type |-> packet[2], dline |-> packet[4],
         payload |-> SubSeq(packet, 6 + size, Len(packet) - 1)]

\* nais_unmarshall takes its length from the LEN field and not from what
\* was received; sline is where the response will go.
NaisUnmarshall(data) ==
    LET len  == SubSeq(data, 5, Len(data))
        size == LengthSize(len)
    IN  [type |-> data[1], sline |-> data[2],
         payload |-> SubSeq(data, 5 + size, 4 + size + LengthOf(len))]
=============================================================================
