------------------------- MODULE MCDaemonDiscovery --------------------------
(* Two applications, of the same build or not, and the daemons they spawn.   *)
EXTENDS DaemonDiscovery
CONSTANTS a1, a2
AlikeOrNot == {[a \in App |-> 1], [a \in App |-> IF a = a1 THEN 1 ELSE 2]}
============================================================================
