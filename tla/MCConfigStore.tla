--------------------------- MODULE MCConfigStore ---------------------------
(* Instances of ConfigStore for TLC: the threads of the hello-mqtt board   *)
(* with their priorities.                                                  *)
EXTENDS ConfigStore

MCThreads  == {"uart", "main", "loop"}
MCHandlers == {"uart", "loop"}
MCUrgency  == [t \in MCThreads |-> CASE t = "uart" -> 5 [] t = "main" -> 7 [] t = "loop" -> 9]
=============================================================================
