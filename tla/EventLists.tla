----------------------------- MODULE EventLists -----------------------------
(***************************************************************************)
(* Who is told of an event: eventList, channelEventMap, the calls that     *)
(* register and unregister a module, PostEvent and PostChannelEvent, and   *)
(* what removing a module does to all of them.                             *)
(*                                                                         *)
(* A post walks over a list and calls one module after the other; the      *)
(* module may register, post or destroy a channel before it returns.       *)
(* stack holds the posts under way, the innermost first.                   *)
(***************************************************************************)
EXTENDS Naturals, Sequences, FiniteSets, SequencesExt

CONSTANTS
    Xclient,    \* the modules
    Event,      \* system events
    Chan,       \* channels
    All,        \* CHANNEL_ALL, the name "*"
    EVT_QUIT,   \* EVT_QUIT, one of Event
    NoClient, NoChan,
    Depth       \* bound: posts under way at once

Name == Chan \cup {All}
List == Event \cup Name

(* What is assumed of the constants; the module of the run assumes it.     *)
EventListsAssumption ==
    /\ EVT_QUIT \in Event /\ All \notin Chan /\ Event \cap Name = {}
    /\ NoClient \notin Xclient /\ NoChan \notin Name
    /\ Depth \in Nat

VARIABLES
    attached,   \* localClients
    channels,   \* the channels there are
    lists,      \* eventList, and the lists channelEventMap leads to
    channelEventMap, \* the names it has
    registered, \* who is registered for what, as the modules see it
    stack,      \* posts under way
    freed       \* an erased list node was used

vars == <<attached, channels, lists, channelEventMap, registered, stack, freed>>

(* A walk over list: the module at is being told, rest comes next.  live:  *)
(* the map still leads to this list.  lost: the node of at was erased.     *)
(* owed and told are for the properties: who was registered all along, and *)
(* who was told.                                                           *)
(* chan is the channel of a channel event whose own listeners come next,   *)
(* if checked only if it is still there; leaving is the module removed     *)
(* when the walk is over.                                                  *)
Post ==
    [list : List, at : Xclient \cup {NoClient}, rest : Seq(Xclient),
     live : BOOLEAN, lost : BOOLEAN, exclude : Xclient \cup {NoClient},
     owed : SUBSET Xclient, told : SUBSET Xclient,
     chan : Chan \cup {NoChan}, checked : BOOLEAN, leaving : Xclient \cup {NoClient}]

TypeOK ==
    /\ attached \subseteq Xclient /\ channels \subseteq Chan
    /\ lists \in [List -> Seq(Xclient)]
    /\ channelEventMap \subseteq Name
    /\ \A name \in Name \ channelEventMap : lists[name] = <<>>
    /\ registered \subseteq List \X Xclient
    /\ stack \in Seq(Post) /\ freed \in BOOLEAN

Init ==
    /\ attached = {} /\ channels = {}
    /\ lists = [l \in List |-> <<>>] /\ channelEventMap = {}
    /\ registered = {} /\ stack = <<>> /\ freed = FALSE

Idle == stack = <<>> /\ ~freed

(* Module x may call the server: when nothing is posted, or as the one     *)
(* that is being told of an event.                                         *)
Told(x) == stack # <<>> /\ Head(stack).at = x /\ x # Head(stack).exclude
Calls(x) == ~freed /\ x \in attached /\ (stack = <<>> \/ Told(x))

-----------------------------------------------------------------------------
(* Registration.  The loops that unregister erase the first node of x they *)
(* find.                                                                   *)
(* What erasing the node of x from list l does to the walks over it.       *)
Erased(posts, l, x) ==
    [i \in DOMAIN posts |->
        LET p == posts[i] IN
        IF p.list = l
        THEN [p EXCEPT !.owed = @ \ {x},
                       !.told = IF p.live THEN @ \ {x} ELSE @,
                       !.rest = IF p.live THEN RemoveFirst(@, x) ELSE @,
                       !.lost = @ \/ (p.live /\ p.at = x)]
        ELSE p]

(* A node added at the end is reached by the walks over the list.          *)
Appended(posts, l, x) ==
    [i \in DOMAIN posts |->
        IF posts[i].list = l /\ posts[i].live
        THEN [posts[i] EXCEPT !.rest = Append(@, x)]
        ELSE posts[i]]

(* Mutant: a module that registers again is not unregistered first.        *)
RegisterAgain(l, x) ==
    /\ lists' = [lists EXCEPT ![l] = Append(@, x)]
    /\ channelEventMap' = channelEventMap \cup ({l} \cap Name)
    /\ registered' = registered \cup {<<l, x>>}
    /\ stack' = Appended(stack, l, x)
    /\ UNCHANGED <<attached, channels, freed>>

(* RegisterEvent() and RegisterChannelEvent(): x is unregistered first and *)
(* added at the end.  If it was alone on the list of a name, that list is  *)
(* deleted and a new one made, which leaves walks over the old one lost.   *)
Register(l, x) ==
    /\ lists' = [lists EXCEPT ![l] = Append(RemoveFirst(@, x), x)]
    /\ channelEventMap' = channelEventMap \cup ({l} \cap Name)
    /\ registered' = registered \cup {<<l, x>>}
    /\ stack' = Appended(Erased(stack, l, x), l, x)
    /\ UNCHANGED <<attached, channels, freed>>

(* Mutant: the first node is erased, whoever it is.                        *)
UnRegisterFirst(l, x) ==
    /\ lists' = [lists EXCEPT ![l] = IF @ = <<>> THEN @ ELSE Tail(@)]
    /\ channelEventMap' = IF Len(lists[l]) = 1 THEN channelEventMap \ {l}
                          ELSE channelEventMap
    /\ registered' = registered \ {<<l, x>>}
    /\ stack' = IF lists[l] = <<>> THEN stack ELSE Erased(stack, l, Head(lists[l]))
    /\ UNCHANGED <<attached, channels, freed>>

(* UnRegisterEvent() and UnRegisterChannelEvent(): the list of a name goes *)
(* with its last module, but not if it was empty before.                   *)
UnRegister(l, x) ==
    /\ lists' = [lists EXCEPT ![l] = RemoveFirst(@, x)]
    /\ channelEventMap' =
          IF lists[l] # <<>> /\ RemoveFirst(lists[l], x) = <<>>
          THEN channelEventMap \ {l} ELSE channelEventMap
    /\ registered' = registered \ {<<l, x>>}
    /\ stack' = Erased(stack, l, x)
    /\ UNCHANGED <<attached, channels, freed>>

RegisterEvent(l, x) == Calls(x) /\ Register(l, x)
UnRegisterEvent(l, x) == Calls(x) /\ UnRegister(l, x)

-----------------------------------------------------------------------------
(* Posting.  A name the map does not have is a walk over nothing.          *)
NewPost(l, exclude, chan, leaving) ==
    [list |-> l, at |-> NoClient, rest |-> lists[l],
     live |-> TRUE, lost |-> FALSE, exclude |-> exclude,
     owed |-> Range(lists[l]) \ {exclude}, told |-> {},
     chan |-> chan, checked |-> FALSE, leaving |-> leaving]

Begin(post) ==
    /\ stack' = <<post>> \o stack
    /\ UNCHANGED <<attached, channels, lists, channelEventMap, registered, freed>>

MayPost ==
    /\ ~freed /\ Len(stack) < Depth
    /\ stack = <<>> \/ \E x \in Xclient : Told(x)

(* A module that posts an event itself may not want to be told of it.      *)
PostEvent(e, exclude) ==
    /\ MayPost
    /\ exclude = NoClient \/ Calls(exclude)
    /\ Begin(NewPost(e, exclude, NoChan, NoClient))

PostChannelEvent(c) ==
    /\ MayPost /\ c \in channels
    /\ Begin([NewPost(All, NoClient, c, NoClient) EXCEPT !.checked = TRUE])

(* PostChannelKick() and OnChannelMode() with its like: the channel is not *)
(* looked up again.                                                        *)
PostChannelKick(c) ==
    /\ MayPost /\ c \in channels
    /\ Begin(NewPost(All, NoClient, c, NoClient))

(* The module that was told returns, and the next one is told.             *)
Tell ==
    /\ ~freed /\ stack # <<>> /\ ~Head(stack).lost /\ Head(stack).rest # <<>>
    /\ LET p == Head(stack)
           x == Head(p.rest) IN
       stack' = <<[p EXCEPT !.at = x, !.rest = Tail(@),
                            !.told = @ \cup ({x} \ {p.exclude})]>> \o Tail(stack)
    /\ UNCHANGED <<attached, channels, lists, channelEventMap, registered, freed>>

UseErased ==
    /\ ~freed /\ stack # <<>> /\ Head(stack).lost
    /\ freed' = TRUE
    /\ UNCHANGED <<attached, channels, lists, channelEventMap, registered, stack>>

Finished ==
    /\ ~freed /\ stack # <<>> /\ ~Head(stack).lost /\ Head(stack).rest = <<>>

(* The end of a walk; those for all channels are followed by those for the *)
(* channel, looked up by name.                                             *)
Return ==
    /\ Finished /\ Head(stack).leaving = NoClient
    /\ Head(stack).chan \notin channelEventMap
    /\ stack' = Tail(stack)
    /\ UNCHANGED <<attached, channels, lists, channelEventMap, registered, freed>>

ToChannel ==
    /\ Finished
    /\ Head(stack).chan \in channelEventMap
    /\ Head(stack).checked => Head(stack).chan \in channels
    /\ stack' = <<NewPost(Head(stack).chan, NoClient, NoChan, NoClient)>>
                \o Tail(stack)
    /\ UNCHANGED <<attached, channels, lists, channelEventMap, registered, freed>>

(* The channel has gone while the first modules were told: the entry of    *)
(* the map is erased, the list it leads to is not deleted.                 *)
ToGoneChannel ==
    /\ Finished
    /\ LET c == Head(stack).chan IN
       /\ c \in channelEventMap \ channels /\ Head(stack).checked
       /\ channelEventMap' = channelEventMap \ {c}
       /\ lists' = [lists EXCEPT ![c] = <<>>]
       /\ stack' = [i \in 1 .. Len(stack) - 1 |->
                       [stack[i + 1] EXCEPT !.live = @ /\ stack[i + 1].list # c]]
    /\ UNCHANGED <<attached, channels, registered, freed>>

-----------------------------------------------------------------------------
(* AttachClient(); the module registers as it likes.                       *)
AttachClient(x) ==
    /\ Idle /\ x \notin attached
    /\ attached' = attached \cup {x}
    /\ UNCHANGED <<channels, lists, channelEventMap, registered, stack, freed>>

(* DetachClient(), called from a timer or the shutdown: EVT_QUIT is posted *)
(* first, to x too, then x is removed from every list.                     *)
DetachClient(x) ==
    /\ Idle /\ x \in attached
    /\ Begin(NewPost(EVT_QUIT, NoClient, NoChan, x))

(* list::remove() erases every node of x; no list has two of them          *)
(* (ListsDistinct).                                                        *)
RemovedFromAll(x) == [l \in List |-> RemoveFirst(lists[l], x)]

removeClient ==
    /\ Finished /\ Head(stack).leaving # NoClient
    /\ LET x == Head(stack).leaving IN
       /\ lists' = RemovedFromAll(x)
       /\ registered' = {r \in registered : r[2] # x}
       /\ attached' = attached \ {x}
    /\ stack' = Tail(stack)
    /\ UNCHANGED <<channels, channelEventMap, freed>>

(* Channels come and go, by messages and by what modules do when told.     *)
Create(c) ==
    /\ ~freed /\ c \notin channels
    /\ stack = <<>> \/ \E x \in Xclient : Told(x)
    /\ channels' = channels \cup {c}
    /\ UNCHANGED <<attached, lists, channelEventMap, registered, stack, freed>>

Destroy(c) ==
    /\ ~freed /\ c \in channels
    /\ stack = <<>> \/ \E x \in Xclient : Told(x)
    /\ channels' = channels \ {c}
    /\ UNCHANGED <<attached, lists, channelEventMap, registered, stack, freed>>

Next ==
    \/ \E l \in List, x \in Xclient : RegisterEvent(l, x) \/ UnRegisterEvent(l, x)
    \/ \E e \in Event, x \in Xclient \cup {NoClient} : PostEvent(e, x)
    \/ \E c \in Chan : PostChannelEvent(c) \/ PostChannelKick(c) \/ Create(c) \/ Destroy(c)
    \/ \E x \in Xclient : AttachClient(x) \/ DetachClient(x)
    \/ Tell \/ Return \/ ToChannel \/ ToGoneChannel \/ removeClient \/ UseErased

Spec == Init /\ [][Next]_vars

-----------------------------------------------------------------------------
(* A module that registered is on the list until it unregisters or is      *)
(* removed: nothing else ends a registration.                              *)
RegistrationKept == \A r \in registered : r[2] \in Range(lists[r[1]])

(* Nobody is on a list who has unregistered, or was removed.               *)
NoStaleRegistration ==
    \A l \in List : \A x \in Range(lists[l]) : <<l, x>> \in registered

(* Whoever is registered during the whole walk and is not excluded is told *)
(* of the event or will be, whatever the modules told before it do: they   *)
(* register, unregister, post themselves, destroy the channel.             *)
EveryListenerTold ==
    \A i \in DOMAIN stack :
        ~stack[i].lost => stack[i].owed \subseteq stack[i].told \cup Range(stack[i].rest)

(* No module is told of an event twice for one registration.               *)
NobodyToldTwice ==
    \A i \in DOMAIN stack :
        LET p == stack[i] IN
        /\ Range(p.rest) \cap p.told = {}
        /\ IsInjective(p.rest)

(* No event is told to a module that was deleted, not even one that        *)
(* registers when it is told of its own EVT_QUIT.                          *)
OnlyAttachedTold ==
    \A i \in DOMAIN stack :
        Range(stack[i].rest) \cup ({stack[i].at} \ {NoClient}) \subseteq attached

(* A module is on a list once, however often it registers.                 *)
ListsDistinct == \A l \in List : IsInjective(lists[l])

(* Whoever is to be told is told exactly once, and nobody else is: nothing *)
(* leads to a module that is not there, or not there for that event,       *)
(* neither the lists nor a walk that is under way.                         *)
ToldOnce ==
    /\ TypeOK /\ EveryListenerTold /\ NobodyToldTwice
    /\ NoStaleRegistration /\ OnlyAttachedTold /\ ListsDistinct
=============================================================================
