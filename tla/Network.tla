------------------------------ MODULE Network ------------------------------
(***************************************************************************)
(* The tables of xNetwork (src/src/Network.cc) that hold the servers, the  *)
(* clients and the nicknames of the network, and the handlers of libircu   *)
(* and of xServer that change them.                                        *)
(*                                                                         *)
(* The handlers are given as actions for any message a correct uplink can  *)
(* send; module P10 restricts them to the messages that actually arrive.   *)
(* Numerics stand for the objects: an iClient is known by <<YY, XXX>>.     *)
(***************************************************************************)
EXTENDS Integers

CONSTANTS
    Server,     \* numerics of the servers of the network
    FakeServer, \* numerics this server hands out to juped servers
    Me, Uplink, \* this server and the server it is linked to
    Slots,      \* number of XXX values per server
    Nick,       \* nicknames
    NoServer, NoNick, NoNumeric

Slot == 0 .. Slots - 1
AnyServer == Server \cup FakeServer
Numeric == AnyServer \X Slot

ASSUME NetworkAssumption ==
    /\ Me \in Server /\ Uplink \in Server /\ Me # Uplink
    /\ Server \cap FakeServer = {}
    /\ Slots \in Nat \ {0}
    /\ NoServer \notin AnyServer /\ NoNick \notin Nick
    /\ NoNumeric \notin Numeric

VARIABLES
    serverMap,      \* the uplink of each known server, or NoServer
    serverName,     \* the name under which a juped server is known, or NoServer
    fakeServerMap,  \* the fake servers that belong to a client of ours
    reservedYY,     \* server numerics allocated in reservedNumericMap
    numericMap,     \* the nick of each known client, or NoNick
    nickMap,        \* the client each nick leads to, or NoNumeric
    localClients,   \* the clients that are xClients of this server
    fakeClientMap,  \* the fake clients
    reserved,       \* client numerics allocated in reservedNumericMap
    quits,          \* clients announced with EVT_QUIT or EVT_KILL in this step
    lastLoop,       \* Shutdown() was called
    crashed         \* a null pointer was used

vars == <<serverMap, serverName, fakeServerMap, reservedYY, numericMap, nickMap,
          localClients, fakeClientMap, reserved, quits, lastLoop, crashed>>

serverTables == <<serverMap, serverName, fakeServerMap, reservedYY>>
clientTables == <<numericMap, nickMap, fakeClientMap>>

IsServer(s) == serverMap[s] # NoServer
IsClient(n) == numericMap[n] # NoNick
Clients == {n \in Numeric : IsClient(n)}
ClientsOf(S) == {n \in Clients : n[1] \in S}
OwnClients == localClients \cup fakeClientMap
Running == ~lastLoop /\ ~crashed

TypeOK ==
    /\ serverMap \in [AnyServer -> AnyServer \cup {NoServer}]
    /\ serverName \in [FakeServer -> Server \cup {NoServer}]
    /\ fakeServerMap \subseteq FakeServer
    /\ reservedYY \subseteq FakeServer
    /\ numericMap \in [Numeric -> Nick \cup {NoNick}]
    /\ nickMap \in [Nick -> Numeric \cup {NoNumeric}]
    /\ localClients \subseteq Numeric
    /\ fakeClientMap \subseteq Numeric
    /\ reserved \subseteq Numeric
    /\ quits \subseteq Numeric
    /\ lastLoop \in BOOLEAN /\ crashed \in BOOLEAN

(* After msg_Server: this server and its uplink, which is its own uplink.  *)
Init ==
    /\ serverMap = [s \in AnyServer |->
                        IF s \in {Me, Uplink} THEN Uplink ELSE NoServer]
    /\ serverName = [f \in FakeServer |-> NoServer]
    /\ fakeServerMap = {} /\ reservedYY = {}
    /\ numericMap = [n \in Numeric |-> NoNick]
    /\ nickMap = [k \in Nick |-> NoNumeric]
    /\ localClients = {} /\ fakeClientMap = {} /\ reserved = {} /\ quits = {}
    /\ lastLoop = FALSE /\ crashed = FALSE

-----------------------------------------------------------------------------
(* Operations of xNetwork.                                                 *)

(* removeNick(): by name, whoever the entry leads to.                      *)
RemoveNicks(names, map) ==
    [k \in Nick |-> IF k \in names THEN NoNumeric ELSE map[k]]

(* addNick(): an entry that is there already is kept.                      *)
AddNick(k, n, map) ==
    IF map[k] = NoNumeric THEN [map EXCEPT ![k] = n] ELSE map

(* removeClient() of a set of clients, with the release of the numerics of *)
(* those that are fake.                                                    *)
RemoveClients(C) ==
    /\ numericMap' = [n \in Numeric |-> IF n \in C THEN NoNick
                                                    ELSE numericMap[n]]
    /\ nickMap' = RemoveNicks({numericMap[n] : n \in C}, nickMap)
    /\ fakeClientMap' = fakeClientMap \ C

(* addClient(iClient): fails only when the numeric is taken.               *)
AddClient(n, k) ==
    /\ numericMap' = [numericMap EXCEPT ![n] = k]
    /\ nickMap' = AddNick(k, n, nickMap)

(* Mutant: the clients of a removed server stay.                           *)
RemoveServersOnly(S) ==
    /\ serverMap' = [s \in AnyServer |-> IF s \in S THEN NoServer
                                                     ELSE serverMap[s]]
    /\ serverName' = [f \in FakeServer |-> IF f \in S THEN NoServer
                                                      ELSE serverName[f]]
    /\ fakeServerMap' = fakeServerMap \ S
    /\ reservedYY' = reservedYY \ (S \cap fakeServerMap)
    /\ reserved' = {n \in reserved : n[1] \notin S}
    /\ RemoveClients({})

(* Mutant: any removal gives back the numerics of all fake servers.        *)
RemoveServersFreeAll(S) ==
    /\ serverMap' = [s \in AnyServer |-> IF s \in S THEN NoServer
                                                     ELSE serverMap[s]]
    /\ serverName' = [f \in FakeServer |-> IF f \in S THEN NoServer
                                                      ELSE serverName[f]]
    /\ fakeServerMap' = fakeServerMap \ S
    /\ reservedYY' = reservedYY \ fakeServerMap
    /\ reserved' = {n \in reserved : n[1] \notin S}
    /\ RemoveClients(ClientsOf(S))

(* removeServer() of a set of servers: a fake one gives back its numeric   *)
(* and the reservations under it, and the clients go with their servers.   *)
RemoveServers(S) ==
    /\ serverMap' = [s \in AnyServer |-> IF s \in S THEN NoServer
                                                     ELSE serverMap[s]]
    /\ serverName' = [f \in FakeServer |-> IF f \in S THEN NoServer
                                                      ELSE serverName[f]]
    /\ fakeServerMap' = fakeServerMap \ S
    /\ reservedYY' = reservedYY \ (S \cap fakeServerMap)
    /\ reserved' = {n \in reserved : n[1] \notin S}
    /\ RemoveClients(ClientsOf(S))

(* Mutant: the servers beside s are taken for the ones behind it.          *)
ChildrenBeside(s) == {t \in AnyServer \ {Uplink} : serverMap[t] = serverMap[s]}

(* findLeaves(): the servers behind s, our own uplink left out.            *)
Children(s) == {t \in AnyServer \ {Uplink} : serverMap[t] = s}

Leaves(s) ==
    {t \in AnyServer :
        \A X \in SUBSET AnyServer :
            Children(s) \subseteq X /\ (\A x \in X : Children(x) \subseteq X)
                => t \in X}

(* allocateClientNumeric(): the lowest XXX that is not reserved.           *)
FreeSlots(yy) == {x \in Slot : <<yy, x>> \notin reserved}
IsLowestFree(yy, x) ==
    x \in FreeSlots(yy) /\ \A y \in FreeSlots(yy) : x <= y

(* findServerName()                                                        *)
Named(name) ==
    {s \in AnyServer :
        IsServer(s) /\ (s = name \/ (s \in FakeServer /\ serverName[s] = name))}

-----------------------------------------------------------------------------
(* Message handlers of libircu.                                            *)

(* Mutant: a numeric that is taken stays with the old server.              *)
msg_S_Kept(s, uplink) ==
    /\ Running
    /\ serverMap' = IF IsServer(s) \/ ~IsServer(uplink) THEN serverMap
                    ELSE [serverMap EXCEPT ![s] = uplink]
    /\ quits' = {}
    /\ UNCHANGED <<serverName, fakeServerMap, reservedYY, clientTables,
                   localClients, reserved, lastLoop, crashed>>

(* msg_S: a server behind one that is not known is dropped; with the       *)
(* numeric taken, the old server is removed first: that server alone, and  *)
(* without events.                                                         *)
msg_S(s, uplink) ==
    /\ Running
    /\ \/ /\ IsServer(uplink)
          /\ serverMap' = [serverMap EXCEPT ![s] = uplink]
          /\ RemoveClients(ClientsOf({s}))
       \/ /\ ~IsServer(uplink)
          /\ UNCHANGED <<serverMap, clientTables>>
    /\ quits' = {}
    /\ UNCHANGED <<serverName, fakeServerMap, reservedYY, localClients,
                   reserved, lastLoop, crashed>>

(* Mutant: what is behind the split server stays.                          *)
msg_SQ_Single(name) ==
    /\ Running
    /\ \E s \in Named(name) : RemoveServers({s}) /\ quits' = ClientsOf({s})
    /\ UNCHANGED <<localClients, lastLoop, crashed>>

(* Mutant: only the clients of the server that is named are announced.     *)
msg_SQ_Quiet(name) ==
    /\ Running
    /\ \E s \in Named(name) :
          RemoveServers({s} \cup Leaves(s)) /\ quits' = ClientsOf({s})
    /\ UNCHANGED <<localClients, lastLoop, crashed>>

(* msg_SQ: a server by its name; OnSplit() takes what is behind it along.  *)
(* With the name of our uplink it is this server that has been squit.      *)
msg_SQ(name) ==
    /\ Running
    /\ \/ /\ Named(name) = {}
          /\ quits' = {}
          /\ UNCHANGED <<serverTables, clientTables, reserved, lastLoop>>
       \/ /\ Uplink \in Named(name)
          /\ lastLoop' = TRUE /\ quits' = {}
          /\ UNCHANGED <<serverTables, clientTables, reserved>>
       \/ /\ \E s \in Named(name) \ {Uplink} :
                /\ RemoveServers({s} \cup Leaves(s))
                /\ quits' = ClientsOf({s} \cup Leaves(s))
          /\ UNCHANGED lastLoop
    /\ UNCHANGED <<localClients, crashed>>

(* msg_N that introduces a client.  The server of the client is looked up  *)
(* and used before it is checked.                                          *)
msg_N(n, k) ==
    /\ Running
    /\ \/ /\ ~IsServer(n[1])
          /\ crashed' = TRUE
          /\ UNCHANGED <<numericMap, nickMap>>
       \/ /\ IsServer(n[1]) /\ IsClient(n)
          /\ UNCHANGED <<numericMap, nickMap, crashed>>
       \/ /\ IsServer(n[1]) /\ ~IsClient(n)
          /\ AddClient(n, k)
          /\ UNCHANGED crashed
    /\ quits' = {}
    /\ UNCHANGED <<serverTables, localClients, fakeClientMap, reserved,
                   lastLoop>>

(* Mutant: the old nick stays in nickMap.                                  *)
msg_N_change_OldNick(n, k) ==
    /\ Running /\ IsClient(n)
    /\ numericMap' = [numericMap EXCEPT ![n] = k]
    /\ nickMap' = AddNick(k, n, nickMap)
    /\ quits' = {}
    /\ UNCHANGED <<serverTables, localClients, fakeClientMap, reserved,
                   lastLoop, crashed>>

(* msg_N with three parameters: a nick change, rehashNick().               *)
msg_N_change(n, k) ==
    /\ Running
    /\ \/ /\ ~IsServer(n[1])
          /\ crashed' = TRUE
          /\ UNCHANGED <<numericMap, nickMap>>
       \/ /\ IsServer(n[1]) /\ ~IsClient(n)
          /\ UNCHANGED <<numericMap, nickMap, crashed>>
       \/ /\ IsServer(n[1]) /\ IsClient(n)
          /\ numericMap' = [numericMap EXCEPT ![n] = k]
          /\ nickMap' = AddNick(k, n, RemoveNicks({numericMap[n]}, nickMap))
          /\ UNCHANGED crashed
    /\ quits' = {}
    /\ UNCHANGED <<serverTables, localClients, fakeClientMap, reserved,
                   lastLoop>>

(* Mutant: the removal is not announced.                                   *)
RemovedQuietly(C) ==
    RemoveClients(C) /\ quits' = {} /\ reserved' = reserved \ (C \cap fakeClientMap)

(* removeClient() with the numeric of a fake client freed.                 *)
Removed(C) ==
    /\ RemoveClients(C)
    /\ reserved' = reserved \ (C \cap fakeClientMap)
    /\ quits' = C

msg_Q(n) ==
    /\ Running
    /\ Removed({n} \cap Clients)
    /\ UNCHANGED <<serverTables, localClients, lastLoop, crashed>>

(* Mutant: a kill by a server is dropped.                                  *)
IsSourceClient(source) == source \in Numeric /\ IsClient(source)

(* msg_D: an xClient of ours is only told; otherwise the source must be    *)
(* known, be it a server or a client, or the message is dropped.           *)
IsSource(source) ==
    \/ source \in AnyServer /\ IsServer(source)
    \/ source \in Numeric /\ IsClient(source)

msg_D(source, n) ==
    /\ Running
    /\ Removed(IF n \notin localClients /\ IsSource(source)
               THEN {n} \cap Clients ELSE {})
    /\ UNCHANGED <<serverTables, localClients, lastLoop, crashed>>

(* Mutant: the numeric that is reserved is that of the name.               *)
msg_JU_add_Name(source, name, f) ==
    /\ Running /\ ~IsServer(f)
    /\ serverMap' = [serverMap EXCEPT ![f] = source]
    /\ serverName' = [serverName EXCEPT ![f] = name]
    /\ reservedYY' = reservedYY \cup {name}
    /\ quits' = {}
    /\ UNCHANGED <<fakeServerMap, clientTables, localClients, reserved,
                   lastLoop, crashed>>

(* msg_JU with a plus sign: a server juped by somebody else gets a numeric *)
(* of ours; with a minus sign it is removed, but the numeric is not freed. *)
FreeServerNumeric(f) ==
    f \in FakeServer /\ ~IsServer(f) /\ f \notin reservedYY

msg_JU_add(source, name, f) ==
    /\ Running /\ FreeServerNumeric(f)
    /\ serverMap' = [serverMap EXCEPT ![f] = source]
    /\ serverName' = [serverName EXCEPT ![f] = name]
    /\ reservedYY' = reservedYY \cup {f}
    /\ quits' = {}
    /\ UNCHANGED <<fakeServerMap, clientTables, localClients, reserved,
                   lastLoop, crashed>>

msg_JU_remove(name) ==
    /\ Running
    /\ \E s \in Named(name) :
          RemoveServers({s}) /\ quits' = ClientsOf({s})
    /\ UNCHANGED <<localClients, lastLoop, crashed>>

-----------------------------------------------------------------------------
(* Calls of the client modules.                                            *)

(* AttachClient(xClient): the nick is compared with those of the other     *)
(* xClients only.                                                          *)
AttachClient(n, k) ==
    /\ Running
    /\ n[1] = Me /\ IsLowestFree(Me, n[2])
    /\ \A c \in localClients : numericMap[c] # k
    /\ ~IsClient(n)
    /\ AddClient(n, k)
    /\ localClients' = localClients \cup {n}
    /\ reserved' = reserved \cup {n}
    /\ quits' = {}
    /\ UNCHANGED <<serverTables, fakeClientMap, lastLoop, crashed>>

(* removeClient(xClient): its own client and the fake clients it owns.     *)
DetachClient(n, owned) ==
    /\ Running /\ n \in localClients
    /\ LET C == {n} \cup owned IN
       RemoveClients(C) /\ reserved' = reserved \ C /\ quits' = C
    /\ localClients' = localClients \ {n}
    /\ UNCHANGED <<serverTables, lastLoop, crashed>>

(* AttachClient(iClient, xClient): addFakeClient() on this server or on a  *)
(* fake one, under a nick that is free in nickMap.                         *)
AttachFakeClient(n, k) ==
    /\ Running
    /\ n[1] \in {Me} \cup fakeServerMap /\ IsLowestFree(n[1], n[2])
    /\ nickMap[k] = NoNumeric
    /\ ~IsClient(n)
    /\ AddClient(n, k)
    /\ fakeClientMap' = fakeClientMap \cup {n}
    /\ reserved' = reserved \cup {n}
    /\ quits' = {}
    /\ UNCHANGED <<serverTables, localClients, lastLoop, crashed>>

DetachFakeClient(n) ==
    /\ Running /\ n \in fakeClientMap
    /\ Removed({n})
    /\ UNCHANGED <<serverTables, localClients, lastLoop, crashed>>

(* SquitServer(): the server and its clients are removed, not what is      *)
(* behind it.                                                              *)
SquitServer(s) == RemoveServers({s}) /\ quits' = ClientsOf({s})

(* AttachServer(): the server found under the name is squit, existing =    *)
(* NoServer if there is none; then addFakeServer() takes a numeric of its  *)
(* own for the new one, unless the name is still in the table.             *)
AttachServer(name, existing, f) ==
    /\ Running /\ name \notin {Me, Uplink}
    /\ IF Named(name) = {} THEN existing = NoServer
                           ELSE existing \in Named(name)
    /\ IF Named(name) \subseteq {existing}
       THEN /\ FreeServerNumeric(f) \/ (f = existing /\ f \in fakeServerMap)
            /\ serverMap' = [t \in AnyServer |->
                    IF t = f THEN Me
                    ELSE IF t = existing THEN NoServer ELSE serverMap[t]]
            /\ serverName' = [t \in FakeServer |->
                    IF t = f THEN name
                    ELSE IF t = existing THEN NoServer ELSE serverName[t]]
            /\ fakeServerMap' = (fakeServerMap \ {existing}) \cup {f}
            /\ reservedYY' =
                    (reservedYY \ ({existing} \cap fakeServerMap)) \cup {f}
            /\ reserved' = {n \in reserved : n[1] # existing}
            /\ RemoveClients(ClientsOf({existing}))
            /\ quits' = ClientsOf({existing})
       ELSE SquitServer(existing)
    /\ UNCHANGED <<localClients, lastLoop, crashed>>

(* DetachServer(): removeServer() without events.                          *)
DetachServer(f) ==
    /\ Running /\ f \in fakeServerMap
    /\ RemoveServers({f}) /\ quits' = {}
    /\ UNCHANGED <<localClients, lastLoop, crashed>>

-----------------------------------------------------------------------------
(* The tables under any message of a correct uplink: it never introduces   *)
(* or splits off this server or itself as a leaf, and uses only real       *)
(* servers' numerics.  It links a new server in front of nothing, but once *)
(* servers have been juped the tables may have it in front of the other.   *)
Remote == Server \ {Me, Uplink}

Next ==
    \/ \E s \in Remote, u \in Server \ {Me} :
            u # s /\ msg_S(s, u)
    \/ \E name \in Server \ {Me} : msg_SQ(name)
    \/ \E n \in (Server \ {Me}) \X Slot, k \in Nick : msg_N(n, k)
    \/ \E n \in Numeric, k \in Nick : n[1] # Me /\ msg_N_change(n, k)
    \/ \E n \in Numeric : n[1] # Me /\ msg_Q(n)
    \/ \E source \in AnyServer \cup Numeric, n \in Numeric : msg_D(source, n)
    \/ \E source \in Server \ {Me}, name \in Remote, f \in FakeServer :
            IsServer(source) /\ msg_JU_add(source, name, f)
    \/ \E name \in Remote : msg_JU_remove(name)
    \/ \E n \in Numeric, k \in Nick : AttachClient(n, k)
    \/ \E n \in localClients, owned \in SUBSET fakeClientMap :
            DetachClient(n, owned)
    \/ \E n \in Numeric, k \in Nick : AttachFakeClient(n, k)
    \/ \E n \in fakeClientMap : DetachFakeClient(n)
    \/ \E name \in Remote, s \in AnyServer \cup {NoServer}, f \in FakeServer :
            AttachServer(name, s, f)
    \/ \E f \in FakeServer : DetachServer(f)

Spec == Init /\ [][Next]_vars

-----------------------------------------------------------------------------
(* An entry of nickMap leads to a live client that carries that nick:      *)
(* findNick() never returns a client that has been deleted, although       *)
(* removal is by name and collisions leave clients without an entry.       *)
NickMapSound ==
    \A k \in Nick : nickMap[k] # NoNumeric => numericMap[nickMap[k]] = k

(* The server of a known client is known: msg_C and others look it up with *)
(* the first two characters of the numeric and use it without a check.     *)
ClientServerKnown == \A n \in Clients : IsServer(n[1])

(* The numerics this server gave out are reserved as long as they are in   *)
(* use, so none is given to a second client; and what is reserved is in    *)
(* use.  A client of a removed module or fake server never lingers on.     *)
ReservedInUse == reserved = OwnClients /\ OwnClients \subseteq Clients

(* A numeric handed out to a fake or juped server stays reserved while the *)
(* server is known, and every fake client is on this server or on a fake   *)
(* server that is still there.                                             *)
FakeServersReserved ==
    /\ fakeServerMap \subseteq reservedYY
    /\ \A f \in FakeServer : IsServer(f) => f \in reservedYY
    /\ \A n \in fakeClientMap : n[1] \in {Me} \cup fakeServerMap

(* Neither kind of numeric is given out twice, nor lost while it is in use.*)
NumericsReserved == ReservedInUse /\ FakeServersReserved
=============================================================================
