----------------------------- MODULE MCJunction -----------------------------
(* Small junctions for TLC: two routed lines of the given kinds, with or   *)
(* without transformation callbacks.                                       *)
EXTENDS JunctionRouter, TLC

CONSTANTS A, B, c1, c2, c3

TwoLines    == {A, B}
ThreeConns  == {c1, c2, c3}
TwoServers  == A :> "server" @@ B :> "server"
ServerClient == A :> "server" @@ B :> "client"
ClientSerial == A :> "client" @@ B :> "serial"
Routed      == A :> {B} @@ B :> {A}

NoMorph   == [l \in TwoLines |-> [t \in TwoLines |-> [k \in Classes |-> k]]]
\* A callback on the way from A to B that converts strings to packets
\* (tests/test_junction.py: ack_response).
ToProto   == [NoMorph EXCEPT ![A][B] = [k \in Classes |-> "proto"]]
\* docs/index.rst, to_protobuf: None for what it cannot convert.
SomeNone  == [NoMorph EXCEPT ![A][B] = [NoMorph[A][B] EXCEPT !["ascii"] = "none"]]

ConnSymmetry == Permutations(ThreeConns)
=============================================================================
