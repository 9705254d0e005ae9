------------------------------ MODULE MCSbapi ------------------------------
(* Instances of Sbapi for TLC.                                             *)
EXTENDS Sbapi
=============================================================================
