------------------------------ MODULE MCServer -------------------------------
(* Instances of two parts of xServer for TLC, each in behaviours of its    *)
(* own: the channel tables, and who is told of an event.                   *)
EXTENDS MCChannels

CONSTANTS
    m1, m2, other,                      \* of Module, EventChan
    Module, EventChan, Event, All, EVT_QUIT, Depth   \* of EventLists

VARIABLES
    scope,      \* what moves: the channel tables or the event lists
    attached, channels, lists, channelEventMap, registered, posts, erased

E == INSTANCE EventLists WITH Xclient <- Module, Chan <- EventChan,
        stack <- posts, freed <- erased

ASSUME EventsAssumed == E!EventListsAssumption

MCSymmetry == Symmetry \cup Permutations(Module)

events == <<attached, channels, lists, channelEventMap, registered, posts, erased>>

(* What does not move is empty.                                            *)
MCInit ==
    /\ scope \in {"channels", "events"} /\ Init /\ E!Init
    /\ scope = "events" => scene = Settled
MCNext ==
    \/ scope = "channels" /\ Next /\ UNCHANGED <<scope, events>>
    \/ scope = "events" /\ E!Next /\ UNCHANGED <<scope, vars>>
MCSpec == MCInit /\ [][MCNext]_<<scope, vars, events>>

(* The property of EventLists; see there.                                  *)
ToldOnce == E!ToldOnce
=============================================================================
