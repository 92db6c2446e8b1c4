--------------------------- MODULE MCChannelAccess ---------------------------
(* Instance of ChannelAccess for TLC: a manager and a second user on one   *)
(* channel, and an admin.                                                  *)
EXTENDS ChannelAccess
CONSTANTS manager, second, admin, star, chan
Slots == {<<manager, chan>>, <<second, chan>>, <<admin, star>>}
Rows == [p \in Slots |-> CASE p[1] = manager -> NewRecord(500)
                            [] p[1] = admin -> NewRecord(800)
                            [] OTHER -> None]
=============================================================================
