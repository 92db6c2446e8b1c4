------------------------------ MODULE Channels ------------------------------
(***************************************************************************)
(* The channels of the network: the tables channelMap, Channel::userList   *)
(* and iClient's channelList, the libircu handlers J, C, L, K, B and M,    *)
(* and the calls of xServer and xClient that join, part, kick and kill.    *)
(*                                                                         *)
(* A handler posts events while it runs, and a module that gets an event   *)
(* may call xServer before the handler goes on.  What a handler still has  *)
(* to do after an event is a task; stack holds the unfinished tasks, the   *)
(* one that runs first.  A task keeps pointers across the event: dead      *)
(* names those whose object has been deleted in the meantime.              *)
(***************************************************************************)
EXTENDS Integers, Sequences

CONSTANTS
    Chan, Client,
    Xclient,    \* the clients of the modules, services with mode +k
    Fake,       \* the fake clients
    NoChan, NoClient,
    MaxTime,    \* bound: timestamps are 0 .. MaxTime
    Scenes      \* what there is to a behaviour, see Scene

Time == 0 .. MaxTime
Events == {"JOIN", "CREATE", "BURST", "PART", "KICK", "LOCALKICK", "SERVERMODE"}
Work == {"PostAll", "PostChan", "Reap", "J", "C", "L", "PartAll", "B", "M",
         "KickOn", "PartTask"}
Pointers == {"chan", "client"}

(* Is this server still bursting, which clients and channels are there,    *)
(* which kinds of messages and calls, what do modules do on an event, and  *)
(* (bound) with how many unfinished tasks on the stack do they still act.  *)
Scene ==
    [bursting : BOOLEAN, clients : SUBSET Client, chans : SUBSET Chan,
     messages : SUBSET STRING, reactions : SUBSET STRING, depth : Nat]

ASSUME ChannelsAssumption ==
    /\ Xclient \subseteq Client /\ Fake \subseteq Client
    /\ Xclient \cap Fake = {}
    /\ NoChan \notin Chan /\ NoClient \notin Client
    /\ MaxTime \in Nat \ {0}
    /\ \A s \in Scenes : /\ s.bursting \in BOOLEAN /\ s.depth \in Nat
                        /\ s.clients \subseteq Client /\ s.chans \subseteq Chan

VARIABLES
    scene,
    net,        \* the tables
    now,        \* ::time(0)
    stack,      \* unfinished tasks
    sent,       \* joins and creations of services written in this step; late:
                \* the clock has advanced since, before the channel was made
    freed       \* a deleted object was used

vars == <<scene, net, now, stack, sent, freed>>

Bursting == scene.bursting
Messages == scene.messages
Reactions == scene.reactions

Tables ==
    [clients : SUBSET Client, channelMap : SUBSET Chan,
     creationTime : [Chan -> Time],
     userList : [Chan -> SUBSET Client], ops : [Chan -> SUBSET Client],
     channelList : [Client -> SUBSET Chan]]

(* chans and users are still to be done; marked are the users a burst      *)
(* gives +o, ops those that are in its opVector.                           *)
Task ==
    [do : Work, event : Events \cup {"none"},
     chan : Chan \cup {NoChan}, client : Client \cup {NoClient},
     by : Client \cup {NoClient}, chans : SUBSET Chan, users : SUBSET Client,
     marked : SUBSET Client, ops : SUBSET Client, ts : Time,
     dead : SUBSET Pointers]

TypeOK ==
    /\ scene \in Scenes
    /\ net \in Tables /\ now \in Time /\ freed \in BOOLEAN
    /\ \A c \in Chan : net.ops[c] \subseteq net.userList[c]
    /\ stack \in Seq(Task)
    /\ sent \subseteq [cmd : {"C", "B", "J"}, chan : Chan, ts : Time, late : BOOLEAN]

Init ==
    /\ scene \in Scenes
    /\ net = [clients |-> (Xclient \cup Fake) \cap scene.clients, channelMap |-> {},
              creationTime |-> [c \in Chan |-> 0],
              userList |-> [c \in Chan |-> {}], ops |-> [c \in Chan |-> {}],
              channelList |-> [n \in Client |-> {}]]
    /\ now = 1 /\ stack = <<>> /\ sent = {} /\ freed = FALSE

-----------------------------------------------------------------------------
(* Operations on the tables.                                               *)
WithChannel(t, c, ts) ==
    [t EXCEPT !.channelMap = @ \cup {c}, !.creationTime[c] = ts]

(* Channel::addUser() and iClient::addChannel().                           *)
WithUser(t, n, c, op) ==
    [t EXCEPT !.userList[c] = @ \cup {n},
              !.channelList[n] = @ \cup {c},
              !.ops[c] = IF op THEN @ \cup {n} ELSE @]

(* Channel::removeUser(), which takes the ChannelUser and its modes along. *)
WithoutMember(t, n, c) ==
    [t EXCEPT !.userList[c] = @ \ {n}, !.ops[c] = @ \ {n}]

WithoutUser(t, n, c) == [WithoutMember(t, n, c) EXCEPT !.channelList[n] = @ \ {c}]

(* Mutant: the channel keeps its modes.                                    *)
OlderKept(t, c, ts) == [t EXCEPT !.creationTime[c] = ts]

(* removeAllModes() and setCreationTime() for an older timestamp.          *)
Older(t, c, ts) == [t EXCEPT !.ops[c] = {}, !.creationTime[c] = ts]

(* removeChannel(), if empty().                                            *)
Reaped(t, c) ==
    IF t.userList[c] # {} THEN t
    ELSE [t EXCEPT !.channelMap = @ \ {c}, !.creationTime[c] = 0]

(* Mutant: the channels a client leaves behind stay.                       *)
WithoutClientOnly(t, n) ==
    [t EXCEPT !.clients = @ \ {n},
              !.userList = [c \in Chan |-> @[c] \ {n}],
              !.ops = [c \in Chan |-> @[c] \ {n}],
              !.channelList[n] = {}]

(* xNetwork::removeClient(): the channels it was alone on go with it.      *)
WithoutClient(t, n) ==
    LET gone == {c \in t.channelList[n] : t.userList[c] \subseteq {n}} IN
    [t EXCEPT !.clients = @ \ {n},
              !.channelMap = @ \ gone,
              !.creationTime = [c \in Chan |-> IF c \in gone THEN 0 ELSE @[c]],
              !.userList = [c \in Chan |-> @[c] \ {n}],
              !.ops = [c \in Chan |-> @[c] \ {n}],
              !.channelList[n] = {}]

-----------------------------------------------------------------------------
(* Tasks.                                                                  *)
NewTask(do, c, n) ==
    [do |-> do, event |-> "none", chan |-> c, client |-> n, by |-> NoClient,
     chans |-> {}, users |-> {}, marked |-> {}, ops |-> {}, ts |-> 0,
     dead |-> {}]

Post(event, c, n) == [NewTask("PostAll", c, n) EXCEPT !.event = event]
Reap(c) == NewTask("Reap", c, NoClient)
PartTask(x, c) == NewTask("PartTask", c, x)

(* The pointers of a task whose objects are gone from table t.             *)
Lost(f, t) ==
    {p \in Pointers :
        \/ p = "chan" /\ f.chan \in net.channelMap \ t.channelMap
        \/ p = "client" /\ f.client \in net.clients \ t.clients}

(* Go on with tables t and these tasks, then with what is kept of the task *)
(* that runs now, then with the tasks below.                               *)
Below == IF stack = <<>> THEN <<>> ELSE Tail(stack)

Run(t, tasks, kept) ==
    LET rest == kept \o Below IN
    /\ net' = t
    /\ stack' = tasks \o
          [i \in 1 .. Len(rest) |->
              [rest[i] EXCEPT !.dead = @ \cup Lost(rest[i], t)]]
    /\ UNCHANGED <<scene, freed>>

Quiet == sent' = {} /\ UNCHANGED now
Continue(t, tasks, kept) == Run(t, tasks, kept) /\ Quiet

(* Mutant: the user just burst is not looked for after the event.          *)
OppedUnchecked(f) == f.ops \cup ({f.client} \cap f.marked)

(* The opVector of a burst after an event: the last user is added if the   *)
(* channel, looked up by name, still has it.                               *)
Opped(f) ==
    IF f.chan \in net.channelMap /\ f.client \in net.userList[f.chan]
    THEN f.ops \cup ({f.client} \cap f.marked)
    ELSE f.ops

(* The pointers the next part of a task uses.                              *)
Uses(f) ==
    {p \in Pointers :
        \/ p \in {"chan", "client"} /\ f.do = "PostAll"
        \/ /\ p \in {"chan", "client"} /\ f.do = "PostChan"
           /\ (f.event \in {"KICK", "LOCALKICK"} \/ f.chan \in net.channelMap)
        \/ p = "chan" /\ f.do \in {"Reap", "PartAll", "M", "KickOn", "PartTask"}
        \/ p = "client" /\ f.do \in {"PartAll", "KickOn"}
        \/ p = "client" /\ f.do \in {"J", "C", "L"} /\ f.chans # {}
        \/ p = "client" /\ f.do = "B" /\ f.chan \in net.channelMap
        \/ p = "chan" /\ f.do = "B" /\ (f.users # {} \/ Opped(f) # {})}

(* No pointer it uses is dead, nor a ChannelUser it is about to give +o.   *)
Sound(f) ==
    /\ Uses(f) \cap f.dead = {}
    /\ f.do = "B" /\ f.users = {} => Opped(f) \subseteq net.userList[f.chan]
Idle == stack = <<>> /\ ~freed
Current(do) ==
    /\ ~freed /\ stack # <<>> /\ Head(stack).do = do /\ Sound(Head(stack))

Crash ==
    /\ ~freed /\ stack # <<>> /\ ~Sound(Head(stack))
    /\ freed' = TRUE
    /\ UNCHANGED <<scene, net, now, stack, sent>>

-----------------------------------------------------------------------------
(* Handlers of libircu.  J, C and L take a list of channels and do them    *)
(* one after the other, each with an event.                                *)
List(cmd, n, chans, ts) ==
    /\ Idle /\ cmd \in Messages /\ n \in net.clients \ (Xclient \cup Fake)
    /\ Continue(net, <<[NewTask(cmd, NoChan, n) EXCEPT !.chans = chans,
                                                      !.ts = ts]>>, <<>>)

(* The channel is there: an older timestamp resets it, then the user is    *)
(* added unless it is known there already.                                 *)
Joined(c, n, ts) ==
    LET t == IF ts < net.creationTime[c] THEN Older(net, c, ts) ELSE net IN
    IF n \in net.userList[c] \/ c \in net.channelList[n] THEN t
    ELSE WithUser(t, n, c, FALSE)

(* A join to a channel that is not there creates it, as of now.            *)
J ==
    /\ Current("J")
    /\ LET f == Head(stack) IN
       \/ f.chans = {} /\ Continue(net, <<>>, <<>>)
       \/ \E c \in f.chans :
            LET next == [f EXCEPT !.chans = @ \ {c}] IN
            \/ /\ c \notin net.channelMap
               /\ Continue(WithUser(WithChannel(net, c, now), f.client, c, TRUE),
                           <<Post("CREATE", c, f.client)>>, <<next>>)
            \/ /\ c \in net.channelMap
               /\ Continue(Joined(c, f.client, f.ts),
                      IF f.client \in net.userList[c] THEN <<>>
                      ELSE <<Post("JOIN", c, f.client)>>, <<next>>)

(* The creator of the channel, which may be there already, is op unless    *)
(* the channel is older than that.                                         *)
Created(c, n, ts) ==
    LET t == IF c \notin net.channelMap THEN WithChannel(net, c, ts)
             ELSE IF ts < net.creationTime[c] THEN Older(net, c, ts)
             ELSE net
    IN  WithUser(t, n, c, n \in t.ops[c] \/ ts = t.creationTime[c])

C ==
    /\ Current("C")
    /\ LET f == Head(stack) IN
       \/ f.chans = {} /\ Continue(net, <<>>, <<>>)
       \/ \E c \in f.chans :
            Continue(Created(c, f.client, f.ts),
                     <<Post("CREATE", c, f.client)>>,
                     <<[f EXCEPT !.chans = @ \ {c}]>>)

L ==
    /\ Current("L")
    /\ LET f == Head(stack) IN
       \/ f.chans = {} /\ Continue(net, <<>>, <<>>)
       \/ \E c \in f.chans :
            LET next == [f EXCEPT !.chans = @ \ {c}] IN
            IF c \in net.channelMap /\ f.client \in net.userList[c]
            THEN Continue(WithoutUser(net, f.client, c),
                          <<Post("PART", c, f.client), Reap(c)>>, <<next>>)
            ELSE Continue(net, <<>>, <<next>>)

(* J with 0, userPartAllChannels(): the channel just parted is reaped, the *)
(* next one is parted; the client's own list is cleared at the end only.   *)
msg_J_0(n) ==
    /\ Idle /\ "J0" \in Messages /\ n \in net.clients \ (Xclient \cup Fake)
    /\ Continue(net, <<[NewTask("PartAll", NoChan, n) EXCEPT
                            !.chans = net.channelList[n]]>>, <<>>)

PartAll ==
    /\ Current("PartAll")
    /\ LET f == Head(stack)
           n == f.client
           t == IF f.chan = NoChan THEN net ELSE Reaped(net, f.chan)
           left == f.chans \cap net.channelList[n] IN
       \/ /\ left = {}
          /\ Continue([t EXCEPT !.channelList[n] = {}], <<>>, <<>>)
       \/ \E c \in left :
            Continue(WithoutMember(t, n, c), <<Post("PART", c, n)>>,
                     <<[f EXCEPT !.chan = c, !.chans = @ \ {c}, !.dead = {}]>>)

(* B: the channel is created or, by an older timestamp, reset.  A burst    *)
(* without users (3 parameters, or modes only) ends here.  With BGone a    *)
(* user may have been killed by this server while the burst was under way. *)
msg_B(c, ts, users, marked) ==
    /\ Idle /\ "B" \in Messages
    /\ users # {} \/ "B3" \in Messages
    /\ users \subseteq net.clients \/ "BGone" \in Messages
    /\ Continue(IF c \notin net.channelMap THEN WithChannel(net, c, ts)
                ELSE IF ts < net.creationTime[c] THEN Older(net, c, ts)
                ELSE net,
                <<[NewTask("B", c, NoClient) EXCEPT !.users = users,
                                                    !.marked = marked]>>, <<>>)

(* parseBurstUsers(): one user after the other, each with an event; the    *)
(* modes are committed last.                                               *)
B ==
    /\ Current("B")
    /\ LET f == Head(stack) IN
       \/ /\ f.users = {}
          /\ Continue(IF Opped(f) = {} THEN net
                      ELSE [net EXCEPT !.ops[f.chan] = @ \cup Opped(f)],
                      <<>>, <<>>)
       \/ \E n \in f.users :
            LET next == [f EXCEPT !.users = @ \ {n}, !.client = n,
                                  !.ops = Opped(f), !.dead = @ \ {"client"}] IN
            IF n \in net.clients /\ f.chan \notin net.channelList[n]
            THEN Continue(WithUser(net, n, f.chan, FALSE),
                          <<Post("BURST", f.chan, n)>>, <<next>>)
            ELSE Continue(net, <<>>, <<[next EXCEPT !.client = NoClient]>>)

(* K, local if kicker and kicked are on one server.                        *)
msg_K(c, n, local) ==
    /\ Idle /\ "K" \in Messages
    /\ c \in net.channelMap /\ n \in net.userList[c]
    /\ Continue(WithoutUser(net, n, c),
                <<Post(IF local THEN "LOCALKICK" ELSE "KICK", c, n), Reap(c)>>,
                <<>>)

(* M with one +o or -o; a server's is announced before it is looked at.    *)
(* A message without a timestamp is one with MaxTime.                      *)
msg_M(server, c, n, plus, ts) ==
    /\ Idle /\ "M" \in Messages /\ c \in net.channelMap
    /\ Continue(net, (IF server THEN <<Post("SERVERMODE", c, NoClient)>> ELSE <<>>)
                     \o <<[NewTask("M", c, NoClient) EXCEPT
                              !.users = {n}, !.ts = ts,
                              !.marked = IF plus THEN {n} ELSE {}]>>, <<>>)

Targets(f) == f.users \cap net.clients \cap net.userList[f.chan]

M ==
    /\ Current("M")
    /\ LET f == Head(stack)
           targets == Targets(f) IN
       Continue([net EXCEPT
                    !.creationTime[f.chan] = IF f.ts < @ THEN f.ts ELSE @,
                    !.ops[f.chan] = (@ \ targets) \cup (targets \cap f.marked)],
                <<>>, <<>>)

SignOn(n) ==
    /\ Idle /\ n \in scene.clients \ net.clients
    /\ Continue([net EXCEPT !.clients = @ \cup {n}], <<>>, <<>>)

(* Q and D, and DetachClient() for a client of ours.                       *)
Quit(n) ==
    /\ Idle /\ "Q" \in Messages /\ n \in net.clients
    /\ Continue(WithoutClient(net, n), <<>>, <<>>)

-----------------------------------------------------------------------------
(* Calls of the modules, made when idle (kept is <<>>) or on an event.     *)

(* The timestamp of a channel just made, joinTime if that is older.        *)
CreationTime(joinTime, post, later) == IF post < later THEN joinTime ELSE later

(* xServer::JoinChannel(xClient); xClient::Join() has reset a channel that *)
(* is newer than joinTime, a direct call does so in a burst only.  joinTime *)
(* 0 means that none is given.  The clock is read once for the message and *)
(* once for the new channel; it may have advanced by then.                 *)
CreateChannel(x, c, joinTime, getOps, kept) ==
    /\ c \notin net.channelMap
    /\ \E later \in {now, now + 1} \cap Time :
        LET post == IF joinTime = 0 THEN now ELSE joinTime
            ts == CreationTime(joinTime, post, later) IN
        /\ now' = later
        /\ sent' = {[cmd |-> IF Bursting THEN "B" ELSE "C",
                     chan |-> c, ts |-> post, late |-> joinTime = 0 /\ later # now]}
        /\ Run(WithUser(WithChannel(net, c, ts), x, c, getOps \/ ~Bursting),
               <<Post(IF Bursting THEN "BURST" ELSE "CREATE", c, x)>>, kept)

(* Mutant: a burst with a newer timestamp is written with that one.        *)
JoinTimeGiven(c, joinTime) ==
    IF joinTime = 0 THEN net.creationTime[c] ELSE joinTime

(* The timestamp a join to a channel that is there is written with.        *)
JoinTime(c, joinTime) ==
    IF joinTime = 0 \/ (Bursting /\ joinTime > net.creationTime[c])
    THEN net.creationTime[c] ELSE joinTime

JoinChannel(x, c, joinTime, getOps, direct, kept) ==
    /\ x \in Xclient \cap net.clients /\ x \notin net.userList[c]
    /\ \/ CreateChannel(x, c, joinTime, getOps, kept)
       \/ /\ c \in net.channelMap
          /\ LET post == JoinTime(c, joinTime)
                 t == IF post >= net.creationTime[c] THEN net
                      ELSE IF direct /\ ~Bursting
                      THEN [net EXCEPT !.creationTime[c] = joinTime]
                      ELSE Older(net, c, joinTime) IN
             /\ sent' = {[cmd |-> IF Bursting THEN "B" ELSE "J",
                          chan |-> c, ts |-> post, late |-> FALSE]}
             /\ Run(WithUser(t, x, c, getOps),
                    <<Post(IF Bursting THEN "BURST" ELSE "JOIN", c, x)>>, kept)
          /\ UNCHANGED now

(* xClient::Join() of a service that is on the channel: with an older      *)
(* joinTime the channel is reset before JoinChannel() refuses.             *)
Rejoin(x, c, joinTime) ==
    /\ Idle /\ x \in net.userList[c]
    /\ joinTime > 0 /\ joinTime < net.creationTime[c]
    /\ Continue(Older(net, c, joinTime), <<>>, <<>>)

(* xServer::PartChannel(xClient) and OnPartChannel().                      *)
PartChannel(x, c, kept) ==
    /\ c \in net.channelMap
    /\ Continue(WithoutUser(net, x, c), <<Post("PART", c, x), Reap(c)>>, kept)

(* xClient::Kick(): a client that is not on the channel joins first and    *)
(* parts at the end (by = x); as the server it needs neither.              *)
Kick(x, c, n, asServer, kept) ==
    /\ x \in Xclient \cap net.clients
    /\ n \in net.userList[c] \ Xclient
    /\ LET kick == NewTask("KickOn", c, n) IN
       \/ /\ asServer \/ x \in net.ops[c]
          /\ Continue(net, <<kick>>, kept)
       \/ /\ ~asServer /\ x \notin net.userList[c]
          /\ Continue(WithUser(net, x, c, TRUE),
                      <<Post(IF Bursting THEN "BURST" ELSE "JOIN", c, x),
                        [kick EXCEPT !.by = x]>>, kept)

KickOn ==
    /\ Current("KickOn")
    /\ LET f == Head(stack)
           part == IF f.by = NoClient THEN <<>> ELSE <<PartTask(f.by, f.chan)>>
           here == f.client \in net.userList[f.chan] IN
       Continue(IF here THEN WithoutUser(net, f.client, f.chan) ELSE net,
                (IF here THEN <<Post("KICK", f.chan, f.client)>> ELSE <<>>)
                \o part \o <<Reap(f.chan)>>, <<>>)

PartNow ==
    /\ Current("PartTask")
    /\ PartChannel(Head(stack).client, Head(stack).chan, <<>>)

ReapNow ==
    /\ Current("Reap")
    /\ Continue(Reaped(net, Head(stack).chan), <<>>, <<>>)

(* xClient::Kill(); a client that is parting all its channels has deleted  *)
(* channels in its list.                                                   *)
Kill(n, kept) ==
    /\ n \in net.clients \ Xclient
    /\ net.channelList[n] \subseteq net.channelMap
    /\ Continue(WithoutClient(net, n), <<>>, kept)

KillCrash(n) ==
    /\ n \in net.clients \ Xclient
    /\ ~(net.channelList[n] \subseteq net.channelMap)
    /\ freed' = TRUE
    /\ UNCHANGED <<scene, net, now, stack, sent>>

(* JoinChannel() and PartChannel() of a fake client.  Its J is written with *)
(* the present time whatever the channel's is, and is not in sent; the     *)
(* channel is not removed when it is the last to part.                     *)
JoinFake(n, c) ==
    /\ Idle /\ "Fake" \in Messages
    /\ n \in Fake \cap net.clients /\ c \in net.channelMap
    /\ n \notin net.userList[c]
    /\ Continue(WithUser(net, n, c, FALSE), <<Post("JOIN", c, n)>>, <<>>)

PartFake(n, c) ==
    /\ Idle /\ "Fake" \in Messages
    /\ n \in Fake \cap net.clients /\ c \in net.channelMap
    /\ Continue(WithoutUser(net, n, c), <<Post("PART", c, n)>>, <<>>)

(* BurstChannel(): an older timestamp without a user.                      *)
BurstChannel(c, ts) ==
    /\ Idle /\ Bursting /\ c \in net.channelMap /\ ts < net.creationTime[c]
    /\ Run(Older(net, c, ts), <<>>, <<>>)
    /\ sent' = {[cmd |-> "B", chan |-> c, ts |-> ts, late |-> FALSE]}
    /\ UNCHANGED now

-----------------------------------------------------------------------------
(* PostChannelEvent() and PostChannelKick(): first a module that gets the  *)
(* events of all channels, then one that gets those of this channel.  Only *)
(* the former function looks whether the channel is still there between    *)
(* the two.  A module acts on events about clients of others only.         *)
React(f, kept) ==
    /\ f.client \in Client \ Xclient
    /\ Len(stack) <= scene.depth
    /\ \/ \E x \in Xclient :
            \/ "Kick" \in Reactions /\ Kick(x, f.chan, f.client, FALSE, kept)
            \/ "KickAsServer" \in Reactions
               /\ Kick(x, f.chan, f.client, TRUE, kept)
            \/ "KickOn" \in Reactions /\ x \in net.userList[f.chan]
               /\ Kick(x, f.chan, f.client, FALSE, kept)
            \/ "KickOthers" \in Reactions
               /\ \E n \in Client : Kick(x, f.chan, n, TRUE, kept)
            \/ "Join" \in Reactions /\ JoinChannel(x, f.chan, 0, TRUE, FALSE, kept)
            \/ "Part" \in Reactions /\ x \in net.userList[f.chan]
               /\ PartChannel(x, f.chan, kept)
       \/ "Kill" \in Reactions /\ (Kill(f.client, kept) \/ KillCrash(f.client))

PostAll ==
    /\ Current("PostAll")
    /\ LET f == Head(stack)
           next == [f EXCEPT !.do = "PostChan"] IN
       \/ Continue(net, <<>>, <<next>>)
       \/ React(f, <<next>>)

PostChan ==
    /\ Current("PostChan")
    /\ LET f == Head(stack) IN
       \/ Continue(net, <<>>, <<>>)
       \/ (f.event \in {"KICK", "LOCALKICK"} \/ f.chan \in net.channelMap)
          /\ React(f, <<>>)

Tick ==
    /\ Idle /\ now < MaxTime
    /\ now' = now + 1 /\ sent' = {}
    /\ UNCHANGED <<scene, net, stack, freed>>

Message ==
    \/ \E n \in Client, chans \in SUBSET scene.chans \ {{}}, ts \in 1 .. MaxTime :
          List("J", n, chans, ts) \/ List("C", n, chans, ts)
    \/ \E n \in Client, chans \in SUBSET scene.chans \ {{}} : List("L", n, chans, 0)
    \/ \E n \in Client : msg_J_0(n) \/ SignOn(n) \/ Quit(n)
    \/ \E c \in scene.chans, ts \in 1 .. MaxTime, users \in SUBSET (Client \ (Xclient \cup Fake)) :
          \E marked \in SUBSET users : msg_B(c, ts, users, marked)
    \/ \E c \in scene.chans, n \in Client, local \in BOOLEAN : msg_K(c, n, local)
    \/ \E server \in BOOLEAN, c \in scene.chans, n \in Client, plus \in BOOLEAN,
          ts \in 1 .. MaxTime : msg_M(server, c, n, plus, ts)

Call ==
    \/ \E x \in Xclient, c \in scene.chans, joinTime \in 0 .. now,
          getOps \in BOOLEAN, direct \in BOOLEAN :
          /\ Idle
          /\ direct => "Direct" \in Messages
          /\ JoinChannel(x, c, joinTime, getOps, direct, <<>>)
    \/ \E x \in Xclient, c \in scene.chans, joinTime \in 0 .. now : Rejoin(x, c, joinTime)
    \/ \E x \in Xclient, c \in scene.chans :
          Idle /\ x \in net.userList[c] /\ PartChannel(x, c, <<>>)
    \/ \E x \in Xclient, c \in scene.chans, n \in Client, asServer \in BOOLEAN :
          /\ Idle /\ "Kick" \in Messages
          /\ asServer \/ x \in net.userList[c] \/ "KickOutside" \in Messages
          /\ Kick(x, c, n, asServer, <<>>)
    \/ \E n \in Client : Idle /\ "Kill" \in Messages /\ Kill(n, <<>>)
    \/ \E n \in Fake, c \in scene.chans : JoinFake(n, c) \/ PartFake(n, c)
    \/ \E c \in scene.chans, ts \in 1 .. MaxTime : BurstChannel(c, ts)

Resume ==
    \/ J \/ C \/ L \/ PartAll \/ B \/ M \/ KickOn \/ PartNow \/ ReapNow
    \/ PostAll \/ PostChan \/ Crash

Next == Message \/ Call \/ Resume \/ Tick

Spec == Init /\ [][Next]_vars

-----------------------------------------------------------------------------
PartingAll(n) ==
    \E i \in DOMAIN stack : stack[i].do = "PartAll" /\ stack[i].client = n

(* A user of a channel is a client that is known and lists the channel,    *)
(* and a channel that is gone has no users: no ChannelUser outlives its    *)
(* iClient, whatever the modules do in the middle of a handler.            *)
MembersKnown ==
    \A c \in Chan : \A n \in net.userList[c] :
        /\ c \in net.channelMap /\ n \in net.clients
        /\ c \in net.channelList[n]

(* A client lists only channels that are there and have it as a user, but  *)
(* for one whose J 0 is being handled.                                     *)
ListedChannelsExist ==
    \A n \in Client : \A c \in net.channelList[n] :
        (c \in net.channelMap /\ n \in net.userList[c]) \/ PartingAll(n)

(* When no handler is running, every channel has a user, unless the last   *)
(* was a fake client or a burst named nobody who is still there.           *)
NoEmptyChannel ==
    Idle /\ Messages \cap {"Fake", "B3", "BGone"} = {}
        => \A c \in net.channelMap : net.userList[c] # {}

(* Both halves of every membership agree, and a channel nobody is on goes. *)
Memberships == TypeOK /\ MembersKnown /\ ListedChannelsExist /\ NoEmptyChannel

(* No handler uses a channel, a client or a ChannelUser that was deleted   *)
(* while it had posted an event ...                                        *)
NeverFreed == ~freed

(* ... as long as modules only join or kick from channels they are on.     *)
NoUseAfterDelete ==
    /\ Reactions \subseteq {"KickOn", "Join"}
    /\ Messages \cap {"KickOutside", "BGone"} = {}
    => NeverFreed

(* A timestamp decides whose operators count.  That of a channel that      *)
(* stays never rises, and a client that comes with an older one leaves     *)
(* nobody op who was there before: the network has deopped them too.       *)
TimestampDecides ==
    [][\A c \in net.channelMap \cap net'.channelMap :
            /\ net'.creationTime[c] <= net.creationTime[c]
            /\ /\ net'.creationTime[c] < net.creationTime[c]
               /\ net'.userList[c] # net.userList[c]
               => net'.ops[c] \cap net.userList[c] = {}]_vars

(* After this server has written the join of a service, its timestamp of   *)
(* the channel is not newer than the one written, and for a creation it is *)
(* the same: the network and the tables agree on whose operators count.    *)
(* If no time was given and the clock advanced before the channel was made *)
(* it is 0, and only the first half holds.                                 *)
WrittenTimestamp ==
    \A m \in sent :
        /\ net.creationTime[m.chan] <= m.ts
        /\ m.cmd \in {"C", "B"} => m.late \/ net.creationTime[m.chan] = m.ts

(* That the second half holds of every creation is false.                  *)
WrittenAlways ==
    \A m \in sent : m.cmd \in {"C", "B"} => net.creationTime[m.chan] = m.ts
=============================================================================
