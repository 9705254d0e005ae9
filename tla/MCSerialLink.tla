---------------------------- MODULE MCSerialLink ----------------------------
(* Small alphabets for SerialLink: Radix 8, so that payloads of 8 bytes    *)
(* have two length bytes; START 6, END 5 and newline 2 are also lengths.   *)
EXTENDS SerialLink

Payload(n, a, b) == [i \in 1..n |-> IF i = n THEN b ELSE a]
\* n bytes; the first and the last are the ones a decoder may trip over.
Edged(n, b) == [i \in 1..n |-> IF i \in {1, n} THEN b ELSE 0]
Packet(kind, type, dline, sline, payload) ==
    [kind |-> kind, type |-> type, dline |-> dline, sline |-> sline, payload |-> payload]
Line(s) == Packet("text", 0, 0, 0, s)
UpTo(n, messages) == UNION {[1..k -> messages] : k \in 0..n}

\* One byte, a length equal to START, the last length of one byte,
\* the first of two.
Lengths == {1, START, Radix - 1, Radix, Radix + 2}
Bytes   == {0, NL, END, START, Radix + 1}

UpMessages ==
    {Packet("host", 1, d, 0, Edged(n, b)) : d \in {0, START}, n \in Lengths, b \in Bytes}
    \cup {Packet("board", 1, 0, 0, Edged(n, b)) : n \in Lengths, b \in Bytes}
    \cup {Packet("net", 1, NL, 0, Edged(n, b)) : n \in Lengths \cup {0}, b \in {0, END}}
    \cup {Line(s) : s \in {<<NL>>, <<END, 0, NL>>, <<0>>, <<Radix, START, NL>>}}
\* Short packets and strings with all bytes below Radix and no START inside.
UpShort == {Packet("host", 1, NL, 0, Edged(n, b)) : n \in {1, 3}, b \in {0, NL, END}}
           \cup {Line(<<END, 0, NL>>)}

DownLines == {Line(s) : s \in {<<NL>>, <<END, 0, NL>>, <<0>>}}
\* Any payload that has one byte of length.
DownMessages == DownLines \cup {Packet("host", 1, 0, s, Payload(n, a, b)) :
    s \in {0, START}, n \in {1, END, START, Radix - 1}, a \in {1, END}, b \in {0, END, START, Radix + 1}}
\* Payloads that begin with a byte that is a credible length, without START.
DownShort == {Line(<<END, 0, NL>>), Line(<<0>>)}
             \cup {Packet("host", 1, 0, 0, Payload(n, 1, b)) : n \in {1, 2, 4}, b \in {1, END}}
\* What comes before or after such a packet.
DownProbes == DownLines \cup {Packet("host", 1, 0, s, Payload(n, 1, END)) : s \in {3}, n \in {1, END}}
\* Connections 1 and 3 of the junction, messages with and without an Ack, and
\* some whose type or line is START.
DownTyped == {Packet("host", t, 0, s, <<END>>) : t \in {1, 4, START}, s \in {1, 3}} \cup DownLines
             \cup {Packet("host", 1, 0, START, <<END>>)}

UpAll   == UpTo(2, UpMessages)
UpLoss  == UpTo(3, UpShort) \ {<<>>}
DownAll == UpTo(2, DownProbes) \cup UpTo(2, DownTyped)
           \cup UNION {{<<m, p>>, <<p, m>>} : m \in DownMessages, p \in DownProbes}
DownLoss == UpTo(3, DownShort) \ {<<>>}
NoTypes == {4}

\* Packets with two length bytes: of the board, between short ones; of the host.
BoardLong == UpTo(2, {Packet("board", 1, 0, 0, Edged(n, 3)) : n \in {1, 3, Radix}})
HostLong  == UpTo(1, {Packet("host", 1, 0, 0, Payload(n, 1, 3)) : n \in {Radix, Radix + 1}})
Silence   == {<<>>}
None      == {}
=============================================================================
