----------------------------- MODULE MCChannels -----------------------------
(* Instances of Channels for TLC.                                          *)
EXTENDS Channels, TLC
CONSTANTS chanA, chanB, svc, fake, user1, user2
Symmetry == Permutations({user1, user2}) \cup Permutations(Chan)

Linked == [bursting |-> FALSE, clients |-> {svc, user1, user2}, chans |-> {chanA},
           messages |-> {}, reactions |-> {}, depth |-> 4]

(* Modules join or kick from a channel they are on, on any event.          *)
Settled ==
    [Linked EXCEPT
        !.chans = Chan, !.reactions = {"KickOn", "Join"},
        !.messages = {"J", "C", "L", "J0", "B", "K", "M", "Q", "Kick", "Kill"}]

(* This server is bursting: modules join with a timestamp of their own, do *)
(* anything on an event, fake clients join and part, and a burst may name  *)
(* clients that are gone.                                                  *)
OwnBurst(c) ==
    [bursting |-> TRUE, clients |-> Client, chans |-> {c}, depth |-> 3,
     messages |-> {"J", "C", "L", "J0", "B", "B3", "BGone", "K", "M", "Q", "Kick",
                   "KickOutside", "Kill", "Fake", "Direct"},
     reactions |-> {"Kick", "KickAsServer", "KickOn", "KickOthers", "Join", "Part",
                    "Kill"}]

Both == {Settled} \cup {OwnBurst(c) : c \in Chan}
BurstKick == {[Linked EXCEPT !.messages = {"B"}, !.depth = 2,
                             !.reactions = {"Kick", "KickAsServer"}]}
KickOutside == {[Linked EXCEPT !.messages = {"J", "Kick", "KickOutside"}]}
Direct == {[Linked EXCEPT !.messages = {"J", "Direct"}]}
=============================================================================
