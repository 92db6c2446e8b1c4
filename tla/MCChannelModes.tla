--------------------------- MODULE MCChannelModes ---------------------------
(* Instance of ChannelModes for TLC: two modes at a time, so that any two  *)
(* may meet in a call, a client, or for operators two of which one is a    *)
(* service, and one mask that matches another.  Key and limit, which are   *)
(* most of the states, meet without the client's op.                       *)
EXTENDS ChannelModes
CONSTANTS bot, a, k, v1, v2, wide, narrow
Bans == [n \in {a, k} |-> IF n = a THEN narrow ELSE wide]
Overlap == {<<wide, wide>>, <<narrow, narrow>>, <<wide, narrow>>}
Pairs ==
    {[modes |-> p, clients |-> {a}] :
        p \in {{"t", "k"}, {"l"}, {"k", "A"}, {"t", "U"}, {"b", "o"}}}
    \cup {[modes |-> {"k", "l"}, clients |-> {}], [modes |-> {"o"}, clients |-> {a, k}],
          [modes |-> {"o", "v"}, clients |-> {k}]}
=============================================================================
