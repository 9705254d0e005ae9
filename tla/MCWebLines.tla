----------------------------- MODULE MCWebLines -----------------------------
(* Instances of WebLines for TLC.                                          *)
EXTENDS WebLines

CONSTANTS c1, c2
=============================================================================
