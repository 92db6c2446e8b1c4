------------------------------- MODULE MCP10 -------------------------------
(* Instances of P10 for TLC: collisions with our own clients and kills, or *)
(* jupes.                                                                  *)
EXTENDS P10
CONSTANTS me, hub, s1, s2, f1, k1, k2
Collisions == [jupe |-> FALSE, kill |-> TRUE, ours |-> {k1}, others |-> {k1, k2}]
Jupes == [jupe |-> TRUE, kill |-> FALSE, ours |-> {}, others |-> {k1}]
Both == {Collisions, Jupes}
JupesAndNicks == {[Jupes EXCEPT !.others = {k1, k2}]}
=============================================================================
