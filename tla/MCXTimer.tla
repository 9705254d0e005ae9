------------------------------ MODULE MCXTimer ------------------------------
(* Instances of XTimer for TLC: a counter of six values, two timers.       *)
EXTENDS XTimer

MCOffsets == {0, 2, 3, 5}
MCTurns   == {0, 1}
=============================================================================
