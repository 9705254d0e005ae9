----------------------------- MODULE MCSlDriver -----------------------------
(* Instances of SlDriver for TLC: a call of each kind, each socket with one *)
(* kind of call that waits on it.                                          *)
EXTENDS SlDriver

CONSTANTS t1, t2, t3, s1, s2

Call(k, s) == [kind |-> k, sock |-> s]
CallSet == {Call("cmd", NoSock), Call("select", NoSock), Call("connect", s1), Call("recv", s2),
            Call("send", s2)}

ASSUME OneKindPerSocket
=============================================================================
