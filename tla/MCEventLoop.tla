---------------------------- MODULE MCEventLoop ----------------------------
(* A board with two slots; sockets may be reused.                          *)
EXTENDS EventLoop, TLC

CONSTANTS s1, s2, s3

ThreeSocks == {s1, s2, s3}
SockSymmetry == Permutations(ThreeSocks)
=============================================================================
