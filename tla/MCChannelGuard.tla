--------------------------- MODULE MCChannelGuard ---------------------------
(* Instance of ChannelGuard for TLC: a manager and another user, each with *)
(* a client; bans and mass deops, or the join limit.                       *)
EXTENDS ChannelGuard
CONSTANTS c1, c2, manager, second
Logins == [c \in Client |-> IF c = c1 THEN manager ELSE second]
Masks == {"host1", "host2", "wide"}
Matching == [m \in Masks |-> CASE m = "host1" -> {c1} [] m = "host2" -> {c2} [] OTHER -> {c1, c2}]
Accesses == [u \in {manager, second} |-> IF u = manager THEN {500} ELSE {75, 200}]
Hosts == [c \in Client |-> IF c = c1 THEN "host1" ELSE "host2"]
Guarded == [maxBans |-> 2, massDeopPro |-> 2, joinLim |-> {FALSE}]
Limited == [maxBans |-> 0, massDeopPro |-> 0, joinLim |-> BOOLEAN]
Settings == {Guarded, Limited}
=============================================================================
