------------------------------ MODULE P10_proofs ------------------------------
(* Proofs about the tables of xNetwork, for any servers, numerics and      *)
(* nicks and any number of clients per server; and about the link: the     *)
(* handlers are only called as module Network allows, the tables follow    *)
(* the network through any crossing of messages, and no client leaves them *)
(* unannounced, for any number of messages under way.                      *)
EXTENDS P10, TLAPS

-----------------------------------------------------------------------------
(* The tables.                                                             *)

(* This server and the fake servers of our clients are in the table, and   *)
(* this server is behind the uplink: no split takes it away.               *)
OurServers ==
    /\ serverMap[Me] = Uplink
    /\ \A f \in fakeServerMap : IsServer(f)

(* The xClients are on this server and are not fake clients.               *)
XClientsApart ==
    /\ localClients \cap fakeClientMap = {}
    /\ \A n \in localClients : n[1] = Me

IInv ==
    /\ TypeOK
    /\ OurServers
    /\ XClientsApart
    /\ NickMapSound
    /\ ClientServerKnown
    /\ ReservedInUse
    /\ FakeServersReserved

(* What the client tables must keep by themselves.                         *)
ClientTypes ==
    /\ numericMap \in [Numeric -> Nick \cup {NoNick}]
    /\ nickMap \in [Nick -> Numeric \cup {NoNumeric}]

LEMMA NumericServer == \A n \in Numeric : n[1] \in AnyServer
  BY DEF Numeric

LEMMA InitIInv == Init => IInv
<1> SUFFICES ASSUME Init PROVE IInv
  OBVIOUS
<1>1. TypeOK
  BY NetworkAssumption DEF Init, TypeOK, AnyServer
<1>2. OurServers /\ XClientsApart
  BY NetworkAssumption DEF Init, OurServers, XClientsApart, AnyServer
<1>3. NickMapSound /\ ClientServerKnown /\ ReservedInUse
  BY DEF Init, NickMapSound, ClientServerKnown, ReservedInUse, OwnClients,
         Clients, IsClient
<1>4. FakeServersReserved
  BY NetworkAssumption DEF Init, FakeServersReserved, IsServer, AnyServer
<1> QED
  BY <1>1, <1>2, <1>3, <1>4 DEF IInv

-----------------------------------------------------------------------------
(* The client tables.                                                      *)

(* After removeClient() of a set of clients no entry of nickMap leads to   *)
(* one of them.                                                            *)
LEMMA RemoveClientsSound ==
    ASSUME ClientTypes, NickMapSound, NEW C, RemoveClients(C)
    PROVE  /\ ClientTypes' /\ NickMapSound'
           /\ Clients' = Clients \ C
           /\ fakeClientMap' = fakeClientMap \ C
<1>1. ClientTypes'
  BY DEF ClientTypes, RemoveClients, RemoveNicks
<1>2. NickMapSound'
  <2> SUFFICES ASSUME NEW k \in Nick, nickMap'[k] # NoNumeric
               PROVE  numericMap'[nickMap'[k]] = k
    BY DEF NickMapSound
  <2>1. /\ k \notin {numericMap[n] : n \in C}
        /\ nickMap'[k] = nickMap[k]
    BY DEF RemoveClients, RemoveNicks
  <2>2. numericMap[nickMap[k]] = k /\ nickMap[k] \in Numeric
    BY <2>1 DEF NickMapSound, ClientTypes
  <2>3. nickMap[k] \notin C
    BY <2>1, <2>2
  <2> QED
    BY <2>1, <2>2, <2>3 DEF RemoveClients
<1>3. Clients' = Clients \ C
  BY DEF Clients, IsClient, RemoveClients
<1> QED
  BY <1>1, <1>2, <1>3 DEF RemoveClients

(* A new client takes its nick only if nobody has it.                      *)
LEMMA AddClientSound ==
    ASSUME ClientTypes, NickMapSound, NEW n \in Numeric, NEW k \in Nick,
           ~IsClient(n), AddClient(n, k)
    PROVE  ClientTypes' /\ NickMapSound' /\ Clients' = Clients \cup {n}
<1>1. ClientTypes'
  BY DEF ClientTypes, AddClient, AddNick
<1>2. NickMapSound'
  <2> SUFFICES ASSUME NEW j \in Nick, nickMap'[j] # NoNumeric
               PROVE  numericMap'[nickMap'[j]] = j
    BY DEF NickMapSound
  <2>1. CASE nickMap[j] = NoNumeric
    <3>1. j = k /\ nickMap'[j] = n
      BY <2>1 DEF AddClient, AddNick, ClientTypes
    <3> QED
      BY <3>1 DEF AddClient, ClientTypes
  <2>2. CASE nickMap[j] # NoNumeric
    <3>1. nickMap'[j] = nickMap[j]
      BY <2>2 DEF AddClient, AddNick, ClientTypes
    <3>2. numericMap[nickMap[j]] = j /\ nickMap[j] # n
      BY <2>2, NetworkAssumption DEF NickMapSound, IsClient
    <3> QED
      BY <3>1, <3>2, <2>2 DEF AddClient, ClientTypes
  <2> QED
    BY <2>1, <2>2
<1>3. Clients' = Clients \cup {n}
  BY NetworkAssumption DEF Clients, IsClient, AddClient, ClientTypes
<1> QED
  BY <1>1, <1>2, <1>3

(* A nick change moves the entry of nickMap, or leaves the client without  *)
(* one when the new nick is taken.                                         *)
LEMMA ChangeNickSound ==
    ASSUME ClientTypes, NickMapSound, NEW n \in Numeric, NEW k \in Nick,
           IsClient(n),
           numericMap' = [numericMap EXCEPT ![n] = k],
           nickMap' = AddNick(k, n, RemoveNicks({numericMap[n]}, nickMap))
    PROVE  ClientTypes' /\ NickMapSound' /\ Clients' = Clients
<1> DEFINE map == RemoveNicks({numericMap[n]}, nickMap)
<1>1. /\ map \in [Nick -> Numeric \cup {NoNumeric}]
      /\ \A j \in Nick : map[j] # NoNumeric =>
            map[j] = nickMap[j] /\ j # numericMap[n]
  BY DEF RemoveNicks, ClientTypes
<1>2. nickMap' = IF map[k] = NoNumeric THEN [map EXCEPT ![k] = n] ELSE map
  BY DEF AddNick
<1> HIDE DEF map
<1>3. ClientTypes'
  BY <1>1, <1>2 DEF ClientTypes
<1>4. NickMapSound'
  <2> SUFFICES ASSUME NEW j \in Nick, nickMap'[j] # NoNumeric
               PROVE  numericMap'[nickMap'[j]] = j
    BY DEF NickMapSound
  <2>1. CASE map[j] = NoNumeric
    <3>1. j = k /\ nickMap'[j] = n
      BY <2>1, <1>1, <1>2
    <3> QED
      BY <3>1 DEF ClientTypes
  <2>2. CASE map[j] # NoNumeric
    <3>1. nickMap'[j] = map[j]
      BY <2>2, <1>1, <1>2
    <3>2. map[j] = nickMap[j] /\ j # numericMap[n]
      BY <2>2, <1>1
    <3>3. numericMap[nickMap[j]] = j /\ nickMap[j] # n
      BY <3>2, <2>2 DEF NickMapSound
    <3> QED
      BY <3>1, <3>2, <3>3 DEF ClientTypes
  <2> QED
    BY <2>1, <2>2
<1>5. Clients' = Clients
  BY NetworkAssumption DEF Clients, IsClient, ClientTypes
<1> QED
  BY <1>3, <1>4, <1>5

-----------------------------------------------------------------------------
(* The tables after a step that leaves the servers alone, or removes some. *)

(* A split never takes this server with it: it is behind the uplink, and   *)
(* the uplink is nobody's leaf.                                            *)
LEMMA NotALeaf ==
    ASSUME TypeOK, OurServers, NEW s \in AnyServer, s # Uplink
    PROVE  Me \notin Leaves(s) /\ Leaves(s) \subseteq AnyServer
<1> DEFINE X == AnyServer \ {Me, Uplink}
<1>1. Children(s) \subseteq X
  BY DEF Children, OurServers
<1>2. \A x \in X : Children(x) \subseteq X
  BY DEF Children, OurServers
<1>3. X \in SUBSET AnyServer
  OBVIOUS
<1>4. Me \notin X
  OBVIOUS
<1> HIDE DEF X
<1> QED
  BY <1>1, <1>2, <1>3, <1>4 DEF Leaves

LEMMA NamedServers ==
    ASSUME NEW name \in Server \ {Me}
    PROVE  Named(name) \subseteq AnyServer \ {Me}
  BY NetworkAssumption DEF Named, AnyServer

(* removeServer() of any servers but this one.                             *)
LEMMA RemoveServersStep ==
    ASSUME IInv, NEW S, S \subseteq AnyServer \ {Me}, RemoveServers(S),
           UNCHANGED localClients, quits' \subseteq Numeric,
           lastLoop' \in BOOLEAN, crashed' \in BOOLEAN
    PROVE  IInv'
<1> USE DEF IInv
<1>1. ClientTypes /\ NickMapSound
  BY DEF TypeOK, ClientTypes
<1>2. /\ ClientTypes' /\ NickMapSound'
      /\ Clients' = Clients \ ClientsOf(S)
      /\ fakeClientMap' = fakeClientMap \ ClientsOf(S)
  BY <1>1, RemoveClientsSound DEF RemoveServers
<1>3. TypeOK'
  BY <1>2, NetworkAssumption DEF TypeOK, ClientTypes, RemoveServers, AnyServer
<1>4. \A s \in AnyServer : IsServer(s)' <=> IsServer(s) /\ s \notin S
  BY DEF IsServer, RemoveServers
<1>5. OurServers'
  BY <1>4, NetworkAssumption DEF OurServers, RemoveServers, TypeOK, AnyServer
<1>6. XClientsApart'
  BY <1>2 DEF XClientsApart
<1>7. ClientServerKnown'
  <2> SUFFICES ASSUME NEW n \in Clients' PROVE IsServer(n[1])'
    BY DEF ClientServerKnown
  <2>1. n \in Clients /\ n[1] \notin S
    BY <1>2 DEF ClientsOf
  <2>2. n[1] \in AnyServer
    BY <2>1, NumericServer DEF Clients
  <2> QED
    BY <2>1, <2>2, <1>4 DEF ClientServerKnown
<1>8. \A n \in OwnClients : n \in ClientsOf(S) <=> n[1] \in S
  BY DEF ReservedInUse, ClientsOf
<1>9. ReservedInUse'
  <2>1. \A n \in localClients : n[1] \notin S
    BY DEF XClientsApart
  <2>2. reserved' = OwnClients'
    BY <1>2, <1>8, <2>1 DEF ReservedInUse, OwnClients, RemoveServers
  <2>3. OwnClients' \subseteq Clients'
    BY <1>2, <1>8, <2>1 DEF ReservedInUse, OwnClients
  <2> QED
    BY <2>2, <2>3 DEF ReservedInUse
<1>10. FakeServersReserved'
  <2>1. fakeServerMap' \subseteq reservedYY'
    BY DEF FakeServersReserved, RemoveServers
  <2>2. \A f \in FakeServer : IsServer(f)' => f \in reservedYY'
    BY <1>4 DEF FakeServersReserved, RemoveServers, AnyServer
  <2>3. \A n \in fakeClientMap' : n[1] \in {Me} \cup fakeServerMap'
    BY <1>2, <1>8 DEF FakeServersReserved, RemoveServers, OwnClients
  <2> QED
    BY <2>1, <2>2, <2>3 DEF FakeServersReserved
<1> QED
  BY <1>2, <1>3, <1>5, <1>6, <1>7, <1>9, <1>10

(* A step that changes neither servers nor own clients, and adds clients   *)
(* only to servers that are known.                                         *)
LEMMA RemoteClientStep ==
    ASSUME IInv, ClientTypes', NickMapSound', UNCHANGED serverTables,
           UNCHANGED <<localClients, fakeClientMap, reserved, lastLoop>>,
           Clients \subseteq Clients',
           \A n \in Clients' : IsServer(n[1]),
           quits' \subseteq Numeric, crashed' \in BOOLEAN
    PROVE  IInv'
<1> USE DEF IInv, serverTables
<1>1. TypeOK'
  BY DEF TypeOK, ClientTypes
<1>2. OurServers' /\ XClientsApart'
  BY DEF OurServers, XClientsApart, IsServer
<1>3. ClientServerKnown'
  BY DEF ClientServerKnown, IsServer
<1>4. ReservedInUse'
  BY DEF ReservedInUse, OwnClients
<1>5. FakeServersReserved'
  BY DEF FakeServersReserved, IsServer
<1> QED
  BY <1>1, <1>2, <1>3, <1>4, <1>5

(* Removal of clients, those that are fake with their numerics.            *)
LEMMA RemovedStep ==
    ASSUME IInv, NEW C, C \subseteq Numeric, C \cap localClients = {}, Removed(C),
           UNCHANGED serverTables, UNCHANGED <<localClients, lastLoop, crashed>>
    PROVE  IInv'
<1> USE DEF IInv, serverTables
<1>1. ClientTypes /\ NickMapSound
  BY DEF TypeOK, ClientTypes
<1>2. /\ ClientTypes' /\ NickMapSound'
      /\ Clients' = Clients \ C
      /\ fakeClientMap' = fakeClientMap \ C
  BY <1>1, RemoveClientsSound DEF Removed
<1>3. TypeOK'
  BY <1>2 DEF TypeOK, ClientTypes, Removed
<1>4. OurServers' /\ XClientsApart'
  BY <1>2 DEF OurServers, XClientsApart, IsServer
<1>5. ClientServerKnown'
  BY <1>2 DEF ClientServerKnown, IsServer
<1>6. ReservedInUse'
  BY <1>2 DEF ReservedInUse, OwnClients, Removed
<1>7. FakeServersReserved'
  BY <1>2 DEF FakeServersReserved, IsServer
<1> QED
  BY <1>2, <1>3, <1>4, <1>5, <1>6, <1>7

-----------------------------------------------------------------------------
(* The handlers of messages.                                               *)

(* msg_S on a numeric that is taken removes the clients of the old server, *)
(* none of which is ours.                                                  *)
LEMMA NewServerStep ==
    ASSUME IInv, NEW s \in Remote, NEW u \in Server \ {Me}, IsServer(u), msg_S(s, u)
    PROVE  IInv'
<1> USE DEF IInv
<1>1. ClientTypes /\ NickMapSound
  BY DEF TypeOK, ClientTypes
<1>2. /\ ClientTypes' /\ NickMapSound'
      /\ Clients' = Clients \ ClientsOf({s})
      /\ fakeClientMap' = fakeClientMap \ ClientsOf({s})
  BY <1>1, RemoveClientsSound DEF msg_S
<1>3. s \in Server /\ s \notin FakeServer /\ s # Me /\ s \in AnyServer
  BY NetworkAssumption DEF Remote, AnyServer
<1>4. u \in AnyServer /\ u # NoServer
  BY NetworkAssumption DEF AnyServer
<1>5. TypeOK'
  BY <1>2, <1>3, <1>4 DEF TypeOK, ClientTypes, msg_S
<1>6. \A t \in AnyServer : IsServer(t)' <=> IsServer(t) \/ t = s
  BY <1>3, <1>4 DEF IsServer, msg_S, TypeOK
<1>7. OurServers'
  BY <1>3, <1>6, NetworkAssumption DEF OurServers, msg_S, TypeOK, AnyServer
<1>8. fakeClientMap' = fakeClientMap
  <2>1. \A n \in fakeClientMap : n[1] # s
    BY <1>3 DEF FakeServersReserved, TypeOK
  <2> QED
    BY <1>2, <2>1 DEF ClientsOf
<1>9. XClientsApart'
  BY <1>8 DEF XClientsApart, msg_S
<1>10. ClientServerKnown'
  <2> SUFFICES ASSUME NEW n \in Clients' PROVE IsServer(n[1])'
    BY DEF ClientServerKnown
  <2>1. n \in Clients /\ n[1] \in AnyServer
    BY <1>2, NumericServer DEF Clients
  <2> QED
    BY <2>1, <1>6 DEF ClientServerKnown
<1>11. ReservedInUse'
  <2>1. \A n \in OwnClients : n[1] # s
    BY <1>3 DEF FakeServersReserved, XClientsApart, OwnClients, TypeOK
  <2>2. OwnClients' = OwnClients /\ OwnClients \subseteq Clients'
    BY <1>2, <1>8, <2>1 DEF OwnClients, ReservedInUse, ClientsOf, msg_S
  <2> QED
    BY <2>2 DEF ReservedInUse, msg_S
<1>12. FakeServersReserved'
  BY <1>3, <1>6, <1>8 DEF FakeServersReserved, msg_S, AnyServer
<1> QED
  BY <1>2, <1>5, <1>7, <1>9, <1>10, <1>11, <1>12

LEMMA ServerStep ==
    ASSUME IInv, NEW s \in Remote, NEW u \in Server \ {Me}, msg_S(s, u)
    PROVE  IInv'
<1>1. CASE IsServer(u)
  BY <1>1, NewServerStep
<1>2. CASE ~IsServer(u)
  <2>1. /\ UNCHANGED <<serverMap, serverName, fakeServerMap, reservedYY, clientTables,
                       localClients, reserved, lastLoop, crashed>>
        /\ quits' = {}
    BY <1>2 DEF msg_S
  <2> QED
    BY <2>1 DEF IInv, TypeOK, OurServers, XClientsApart, NickMapSound, ClientServerKnown,
       ReservedInUse, FakeServersReserved, Clients, OwnClients, IsClient, IsServer,
       clientTables
<1> QED
  BY <1>1, <1>2

LEMMA SplitStep ==
    ASSUME IInv, NEW name \in Server \ {Me}, msg_SQ(name)
    PROVE  IInv'
<1>1. UNCHANGED <<localClients, crashed>> /\ crashed' \in BOOLEAN
  BY DEF msg_SQ, IInv, TypeOK
<1>2. CASE UNCHANGED <<serverTables, clientTables, reserved>> /\ quits' = {}
  <2>1. ClientTypes' /\ NickMapSound' /\ Clients' = Clients /\ lastLoop' \in BOOLEAN
    BY <1>2, <1>1 DEF clientTables, IInv, TypeOK, ClientTypes, NickMapSound,
       Clients, IsClient, msg_SQ
  <2> QED
    BY <1>1, <1>2, <2>1 DEF IInv, TypeOK, ClientTypes, OurServers, XClientsApart,
       ClientServerKnown, ReservedInUse, FakeServersReserved, OwnClients,
       IsServer, serverTables, clientTables
<1>3. ASSUME NEW s \in Named(name) \ {Uplink},
             RemoveServers({s} \cup Leaves(s)),
             quits' = ClientsOf({s} \cup Leaves(s)), UNCHANGED lastLoop
      PROVE  IInv'
  <2>1. s \in AnyServer \ {Me} /\ s # Uplink
    BY NamedServers
  <2>2. {s} \cup Leaves(s) \subseteq AnyServer \ {Me}
    BY <2>1, NotALeaf DEF IInv
  <2>3. quits' \subseteq Numeric
    BY <1>3 DEF ClientsOf, Clients
  <2>4. lastLoop' \in BOOLEAN
    BY <1>3 DEF IInv, TypeOK
  <2> QED
    BY <1>1, <1>3, <2>2, <2>3, <2>4, RemoveServersStep
<1> QED
  BY <1>2, <1>3 DEF msg_SQ

LEMMA SignOnStep ==
    ASSUME IInv, NEW n \in Numeric, NEW k \in Nick, msg_N(n, k)
    PROVE  IInv'
<1>1. ClientTypes /\ NickMapSound
  BY DEF IInv, TypeOK, ClientTypes
<1>2. /\ UNCHANGED serverTables /\ quits' \subseteq Numeric
      /\ UNCHANGED <<localClients, fakeClientMap, reserved, lastLoop>>
      /\ crashed' \in BOOLEAN
  BY DEF msg_N, IInv, TypeOK
<1>3. CASE UNCHANGED <<numericMap, nickMap>>
  <2>1. ClientTypes' /\ NickMapSound' /\ Clients' = Clients
    BY <1>1, <1>3 DEF ClientTypes, NickMapSound, Clients, IsClient
  <2> QED
    BY <1>2, <2>1, RemoteClientStep DEF IInv, ClientServerKnown
<1>4. CASE IsServer(n[1]) /\ ~IsClient(n) /\ AddClient(n, k)
  <2>1. ClientTypes' /\ NickMapSound' /\ Clients' = Clients \cup {n}
    BY <1>1, <1>4, AddClientSound
  <2> QED
    BY <1>2, <1>4, <2>1, RemoteClientStep DEF IInv, ClientServerKnown
<1> QED
  BY <1>3, <1>4 DEF msg_N

LEMMA NickChangeStep ==
    ASSUME IInv, NEW n \in Numeric, NEW k \in Nick, msg_N_change(n, k)
    PROVE  IInv'
<1>1. ClientTypes /\ NickMapSound
  BY DEF IInv, TypeOK, ClientTypes
<1>2. /\ UNCHANGED serverTables /\ quits' \subseteq Numeric
      /\ UNCHANGED <<localClients, fakeClientMap, reserved, lastLoop>>
      /\ crashed' \in BOOLEAN
  BY DEF msg_N_change, IInv, TypeOK
<1>3. CASE UNCHANGED <<numericMap, nickMap>>
  <2>1. ClientTypes' /\ NickMapSound' /\ Clients' = Clients
    BY <1>1, <1>3 DEF ClientTypes, NickMapSound, Clients, IsClient
  <2> QED
    BY <1>2, <2>1, RemoteClientStep DEF IInv, ClientServerKnown
<1>4. CASE /\ IsClient(n)
           /\ numericMap' = [numericMap EXCEPT ![n] = k]
           /\ nickMap' = AddNick(k, n, RemoveNicks({numericMap[n]}, nickMap))
  <2>1. ClientTypes' /\ NickMapSound' /\ Clients' = Clients
    BY <1>1, <1>4, ChangeNickSound
  <2> QED
    BY <1>2, <2>1, RemoteClientStep DEF IInv, ClientServerKnown
<1> QED
  BY <1>3, <1>4 DEF msg_N_change

(* msg_Q is for clients of other servers, msg_D spares the xClients.       *)
LEMMA QuitStep ==
    ASSUME IInv, NEW n \in Numeric, n[1] # Me, msg_Q(n)
    PROVE  IInv'
<1>1. ({n} \cap Clients) \cap localClients = {} /\ {n} \cap Clients \subseteq Numeric
  BY DEF IInv, XClientsApart
<1> QED
  BY <1>1, RemovedStep DEF msg_Q

LEMMA KillStep ==
    ASSUME IInv, NEW source, NEW n \in Numeric, msg_D(source, n)
    PROVE  IInv'
<1> DEFINE C == IF n \notin localClients /\ IsSource(source)
                THEN {n} \cap Clients ELSE {}
<1>1. C \cap localClients = {} /\ C \subseteq Numeric
  OBVIOUS
<1>2. /\ Removed(C) /\ UNCHANGED serverTables
      /\ UNCHANGED <<localClients, lastLoop, crashed>>
  BY DEF msg_D
<1> HIDE DEF C
<1> QED
  BY <1>1, <1>2, RemovedStep

LEMMA JupeStep ==
    ASSUME IInv, NEW source \in Server, NEW name \in Remote,
           NEW f \in FakeServer, msg_JU_add(source, name, f)
    PROVE  IInv'
<1> USE DEF IInv, msg_JU_add, clientTables
<1>1. /\ name \in Server /\ f \in AnyServer /\ f # Me
      /\ source \in AnyServer /\ source # NoServer
  BY NetworkAssumption DEF Remote, AnyServer
<1>2. TypeOK'
  BY <1>1 DEF TypeOK
<1>3. \A s \in AnyServer : IsServer(s)' <=> IsServer(s) \/ s = f
  BY <1>1 DEF IsServer, TypeOK
<1>4. OurServers' /\ XClientsApart'
  BY <1>1, <1>3, NetworkAssumption DEF OurServers, XClientsApart, TypeOK, AnyServer
<1>5. NickMapSound' /\ Clients' = Clients
  BY DEF NickMapSound, Clients, IsClient
<1>6. ClientServerKnown'
  BY <1>3, <1>5, NumericServer DEF ClientServerKnown, Clients
<1>7. ReservedInUse'
  BY <1>5 DEF ReservedInUse, OwnClients
<1>8. FakeServersReserved'
  BY <1>3 DEF FakeServersReserved, AnyServer
<1> QED
  BY <1>2, <1>4, <1>5, <1>6, <1>7, <1>8

LEMMA UnjupeStep ==
    ASSUME IInv, NEW name \in Remote, msg_JU_remove(name)
    PROVE  IInv'
<1>1. PICK s \in Named(name) : RemoveServers({s}) /\ quits' = ClientsOf({s})
  BY DEF msg_JU_remove
<1>2. {s} \subseteq AnyServer \ {Me}
  BY NamedServers DEF Remote
<1>3. /\ quits' \subseteq Numeric /\ UNCHANGED localClients
      /\ lastLoop' \in BOOLEAN /\ crashed' \in BOOLEAN
  BY <1>1 DEF ClientsOf, Clients, msg_JU_remove, IInv, TypeOK
<1> QED
  BY <1>1, <1>2, <1>3, RemoveServersStep

-----------------------------------------------------------------------------
(* The calls of modules.                                                   *)
LEMMA AttachClientStep ==
    ASSUME IInv, NEW n \in Numeric, NEW k \in Nick, AttachClient(n, k)
    PROVE  IInv'
<1> USE DEF IInv, AttachClient, serverTables
<1>1. ClientTypes /\ NickMapSound
  BY DEF TypeOK, ClientTypes
<1>2. ClientTypes' /\ NickMapSound' /\ Clients' = Clients \cup {n}
  BY <1>1, AddClientSound
<1>3. n \notin Clients
  BY DEF Clients
<1>4. TypeOK'
  BY <1>2 DEF TypeOK, ClientTypes
<1>5. OurServers' /\ XClientsApart'
  BY <1>3 DEF OurServers, XClientsApart, IsServer, ReservedInUse, OwnClients
<1>6. ClientServerKnown'
  BY <1>2, NetworkAssumption DEF ClientServerKnown, OurServers, IsServer, AnyServer
<1>7. ReservedInUse'
  BY <1>2 DEF ReservedInUse, OwnClients
<1>8. FakeServersReserved'
  BY DEF FakeServersReserved, IsServer
<1> QED
  BY <1>2, <1>4, <1>5, <1>6, <1>7, <1>8

LEMMA AttachFakeClientStep ==
    ASSUME IInv, NEW n \in Numeric, NEW k \in Nick, AttachFakeClient(n, k)
    PROVE  IInv'
<1> USE DEF IInv, AttachFakeClient, serverTables
<1>1. ClientTypes /\ NickMapSound
  BY DEF TypeOK, ClientTypes
<1>2. ClientTypes' /\ NickMapSound' /\ Clients' = Clients \cup {n}
  BY <1>1, AddClientSound
<1>3. n \notin Clients
  BY DEF Clients
<1>4. TypeOK'
  BY <1>2 DEF TypeOK, ClientTypes
<1>5. OurServers' /\ XClientsApart'
  BY <1>3 DEF OurServers, XClientsApart, IsServer, ReservedInUse, OwnClients
<1>6. ClientServerKnown'
  BY <1>2, NetworkAssumption DEF ClientServerKnown, OurServers, IsServer, AnyServer
<1>7. ReservedInUse'
  BY <1>2 DEF ReservedInUse, OwnClients
<1>8. FakeServersReserved'
  BY DEF FakeServersReserved, IsServer
<1> QED
  BY <1>2, <1>4, <1>5, <1>6, <1>7, <1>8

LEMMA DetachClientStep ==
    ASSUME IInv, NEW n \in localClients, NEW owned \in SUBSET fakeClientMap,
           DetachClient(n, owned)
    PROVE  IInv'
<1> USE DEF IInv, serverTables
<1> DEFINE C == {n} \cup owned
<1>1. /\ RemoveClients(C) /\ reserved' = reserved \ C /\ quits' = C
      /\ localClients' = localClients \ {n}
      /\ UNCHANGED <<serverTables, lastLoop, crashed>>
  BY DEF DetachClient
<1>2. C \subseteq Numeric /\ C \cap localClients = {n}
  BY DEF TypeOK, XClientsApart
<1> HIDE DEF C
<1>3. ClientTypes /\ NickMapSound
  BY DEF TypeOK, ClientTypes
<1>4. /\ ClientTypes' /\ NickMapSound'
      /\ Clients' = Clients \ C
      /\ fakeClientMap' = fakeClientMap \ C
  BY <1>1, <1>3, RemoveClientsSound
<1>5. TypeOK'
  BY <1>1, <1>2, <1>4 DEF TypeOK, ClientTypes
<1>6. OurServers' /\ XClientsApart'
  BY <1>1, <1>4 DEF OurServers, XClientsApart, IsServer
<1>7. ClientServerKnown'
  BY <1>1, <1>4 DEF ClientServerKnown, IsServer
<1>8. ReservedInUse'
  BY <1>1, <1>2, <1>4 DEF ReservedInUse, OwnClients
<1>9. FakeServersReserved'
  BY <1>1, <1>4 DEF FakeServersReserved, IsServer
<1> QED
  BY <1>4, <1>5, <1>6, <1>7, <1>8, <1>9

LEMMA DetachFakeClientStep ==
    ASSUME IInv, NEW n \in fakeClientMap, DetachFakeClient(n)
    PROVE  IInv'
<1>1. {n} \subseteq Numeric /\ {n} \cap localClients = {}
  BY DEF IInv, TypeOK, XClientsApart
<1> QED
  BY <1>1, RemovedStep DEF DetachFakeClient

LEMMA DetachServerStep ==
    ASSUME IInv, NEW f \in FakeServer, DetachServer(f)
    PROVE  IInv'
<1>1. {f} \subseteq AnyServer \ {Me}
  BY NetworkAssumption DEF AnyServer
<1>2. /\ RemoveServers({f}) /\ quits' \subseteq Numeric /\ UNCHANGED localClients
      /\ lastLoop' \in BOOLEAN /\ crashed' \in BOOLEAN
  BY DEF DetachServer, IInv, TypeOK
<1> QED
  BY <1>1, <1>2, RemoveServersStep

(* AttachServer() that steals the name of a server: the server found, if   *)
(* any, leaves with its clients, and the new one comes with a numeric.     *)
LEMMA AttachServerStep ==
    ASSUME IInv, NEW name \in Remote, NEW existing \in AnyServer \cup {NoServer},
           NEW f \in FakeServer, AttachServer(name, existing, f)
    PROVE  IInv'
<1> USE DEF IInv
<1>1. /\ existing = NoServer \/ existing \in Named(name)
      /\ UNCHANGED <<localClients, lastLoop, crashed>>
  BY DEF AttachServer
<1>2. Named(name) \subseteq AnyServer \ {Me}
  BY NamedServers DEF Remote
<1>3. existing # Me
  BY <1>1, <1>2, NetworkAssumption DEF AnyServer
<1>4. CASE ~(Named(name) \subseteq {existing})
  <2>1. RemoveServers({existing}) /\ quits' = ClientsOf({existing})
    BY <1>4 DEF AttachServer, SquitServer
  <2>2. {existing} \subseteq AnyServer \ {Me}
    BY <1>1, <1>2, <1>4 DEF AttachServer
  <2>3. /\ quits' \subseteq Numeric
        /\ lastLoop' \in BOOLEAN /\ crashed' \in BOOLEAN
    BY <2>1, <1>1 DEF ClientsOf, Clients, TypeOK
  <2> QED
    BY <1>1, <2>1, <2>2, <2>3, RemoveServersStep
<1>5. CASE Named(name) \subseteq {existing}
  <2>1. /\ FreeServerNumeric(f) \/ (f = existing /\ f \in fakeServerMap)
        /\ serverMap' = [t \in AnyServer |->
                IF t = f THEN Me
                ELSE IF t = existing THEN NoServer ELSE serverMap[t]]
        /\ serverName' = [t \in FakeServer |->
                IF t = f THEN name
                ELSE IF t = existing THEN NoServer ELSE serverName[t]]
        /\ fakeServerMap' = (fakeServerMap \ {existing}) \cup {f}
        /\ reservedYY' =
                (reservedYY \ ({existing} \cap fakeServerMap)) \cup {f}
        /\ reserved' = {n \in reserved : n[1] # existing}
        /\ RemoveClients(ClientsOf({existing}))
        /\ quits' = ClientsOf({existing})
    BY <1>5 DEF AttachServer
  <2>2. ClientTypes /\ NickMapSound
    BY DEF TypeOK, ClientTypes
  <2>3. /\ ClientTypes' /\ NickMapSound'
        /\ Clients' = Clients \ ClientsOf({existing})
        /\ fakeClientMap' = fakeClientMap \ ClientsOf({existing})
    BY <2>1, <2>2, RemoveClientsSound
  <2>4. /\ f \in AnyServer /\ f # Me /\ Me \in AnyServer /\ Me # NoServer
        /\ name \in Server
    BY NetworkAssumption DEF Remote, AnyServer
  <2>5. TypeOK'
    BY <1>1, <2>1, <2>3, <2>4 DEF TypeOK, ClientTypes, ClientsOf, Clients
  <2>6. \A s \in AnyServer :
            IsServer(s)' <=> s = f \/ (IsServer(s) /\ s # existing)
    BY <2>1, <2>4 DEF IsServer
  <2>7. OurServers'
    BY <1>3, <2>1, <2>4, <2>6 DEF OurServers, TypeOK, AnyServer
  <2>8. XClientsApart'
    BY <1>1, <2>3 DEF XClientsApart
  <2>9. ClientServerKnown'
    BY <2>3, <2>6, NumericServer DEF ClientServerKnown, ClientsOf, Clients
  <2>10. \A n \in OwnClients : n \in ClientsOf({existing}) <=> n[1] = existing
    BY DEF ReservedInUse, ClientsOf
  <2>11. ReservedInUse'
    <3>1. \A n \in localClients : n[1] # existing
      BY <1>3 DEF XClientsApart
    <3>2. reserved' = OwnClients'
      BY <1>1, <2>1, <2>3, <2>10, <3>1 DEF ReservedInUse, OwnClients
    <3>3. OwnClients' \subseteq Clients'
      BY <1>1, <2>3, <2>10, <3>1 DEF ReservedInUse, OwnClients
    <3> QED
      BY <3>2, <3>3 DEF ReservedInUse
  <2>12. FakeServersReserved'
    <3>1. fakeServerMap' \subseteq reservedYY'
      BY <2>1 DEF FakeServersReserved
    <3>2. \A s \in FakeServer : IsServer(s)' => s \in reservedYY'
      BY <2>1, <2>6 DEF FakeServersReserved, AnyServer
    <3>3. \A n \in fakeClientMap' : n[1] \in {Me} \cup fakeServerMap'
      BY <2>1, <2>3, <2>10 DEF FakeServersReserved, OwnClients
    <3> QED
      BY <3>1, <3>2, <3>3 DEF FakeServersReserved
  <2> QED
    BY <2>3, <2>5, <2>7, <2>8, <2>9, <2>11, <2>12
<1> QED
  BY <1>4, <1>5

-----------------------------------------------------------------------------
LEMMA NextIInv == IInv /\ [Next]_vars => IInv'
<1> SUFFICES ASSUME IInv, [Next]_vars PROVE IInv'
  OBVIOUS
<1>1. CASE UNCHANGED vars
  BY <1>1 DEF vars, IInv, TypeOK, OurServers, XClientsApart, NickMapSound,
     ClientServerKnown, ReservedInUse, FakeServersReserved, Clients, OwnClients,
     IsClient, IsServer
<1>2. ASSUME NEW s \in Remote, NEW u \in Server \ {Me}, msg_S(s, u) PROVE IInv'
  BY <1>2, ServerStep
<1>3. ASSUME NEW name \in Server \ {Me}, msg_SQ(name) PROVE IInv'
  BY <1>3, SplitStep
<1>4. ASSUME NEW n \in (Server \ {Me}) \X Slot, NEW k \in Nick, msg_N(n, k)
      PROVE  IInv'
  <2>1. n \in Numeric
    BY DEF Numeric, AnyServer
  <2> QED
    BY <1>4, <2>1, SignOnStep
<1>5. ASSUME NEW n \in Numeric, NEW k \in Nick, msg_N_change(n, k) PROVE IInv'
  BY <1>5, NickChangeStep
<1>6. ASSUME NEW n \in Numeric, n[1] # Me, msg_Q(n) PROVE IInv'
  BY <1>6, QuitStep
<1>7. ASSUME NEW source \in AnyServer \cup Numeric, NEW n \in Numeric,
             msg_D(source, n)
      PROVE  IInv'
  BY <1>7, KillStep
<1>8. ASSUME NEW source \in Server \ {Me}, NEW name \in Remote,
             NEW f \in FakeServer, msg_JU_add(source, name, f)
      PROVE  IInv'
  BY <1>8, JupeStep
<1>9. ASSUME NEW name \in Remote, msg_JU_remove(name) PROVE IInv'
  BY <1>9, UnjupeStep
<1>10. ASSUME NEW n \in Numeric, NEW k \in Nick, AttachClient(n, k) PROVE IInv'
  BY <1>10, AttachClientStep
<1>11. ASSUME NEW n \in localClients, NEW owned \in SUBSET fakeClientMap,
              DetachClient(n, owned)
       PROVE  IInv'
  BY <1>11, DetachClientStep
<1>12. ASSUME NEW n \in Numeric, NEW k \in Nick, AttachFakeClient(n, k)
       PROVE  IInv'
  BY <1>12, AttachFakeClientStep
<1>13. ASSUME NEW n \in fakeClientMap, DetachFakeClient(n) PROVE IInv'
  BY <1>13, DetachFakeClientStep
<1>14. ASSUME NEW name \in Remote, NEW s \in AnyServer \cup {NoServer},
              NEW f \in FakeServer, AttachServer(name, s, f)
       PROVE  IInv'
  BY <1>14, AttachServerStep
<1>15. ASSUME NEW f \in FakeServer, DetachServer(f) PROVE IInv'
  BY <1>15, DetachServerStep
<1> QED
  BY <1>1, <1>2, <1>3, <1>4, <1>5, <1>6, <1>7, <1>8, <1>9, <1>10, <1>11, <1>12,
     <1>13, <1>14, <1>15 DEF Next

LEMMA SpecIInv == Spec => []IInv
  BY InitIInv, NextIInv, PTL DEF Spec

(* The tables of xNetwork keep their types.                                *)
THEOREM NetworkTypeOK == Spec => []TypeOK
<1>1. IInv => TypeOK
  BY DEF IInv
<1> QED
  BY <1>1, SpecIInv, PTL

(* findNick() never returns a deleted client, nor one under an old nick,   *)
(* through any splits, collisions, kills and nick changes.                 *)
THEOREM NicksLeadToClients == Spec => []NickMapSound
<1>1. IInv => NickMapSound
  BY DEF IInv
<1> QED
  BY <1>1, SpecIInv, PTL

(* No client outlives its server in the tables.                            *)
THEOREM ClientsHaveServers == Spec => []ClientServerKnown
<1>1. IInv => ClientServerKnown
  BY DEF IInv
<1> QED
  BY <1>1, SpecIInv, PTL

(* The client numerics reserved on this server and its fake ones are those *)
(* of the clients of our modules that are there; a fake server keeps its   *)
(* numeric as long as it is there, and no fake client outlives it.         *)
THEOREM NumericsAreReserved == Spec => []NumericsReserved
<1>1. IInv => NumericsReserved
  BY DEF IInv, NumericsReserved
<1> QED
  BY <1>1, SpecIInv, PTL

-----------------------------------------------------------------------------
(* The link.                                                               *)

(* What the uplink may send, and what this server writes.                  *)
Foreign == (Server \ {Me}) \X Slot
MsgS == {m \in [cmd : {"S"}, server : Remote, uplink : Server \ {Me}] : m.server # m.uplink}
MsgSQ == [cmd : {"SQ"}, name : Server \ {Me}]
MsgN == [cmd : {"N", "NICK"}, client : Foreign, nick : Nick]
MsgQ == [cmd : {"Q"}, client : Foreign]
MsgD == [cmd : {"D"}, source : AnyServer \cup Numeric, client : Numeric]
FromUplink == MsgS \cup MsgSQ \cup MsgN \cup MsgQ \cup MsgD

Written ==
    [cmd : {"S"}, server : FakeServer, name : Remote]
    \cup [cmd : {"SQ"}, name : Server \cup {NoServer}]
    \cup [cmd : {"N"}, client : Numeric, nick : Nick]
    \cup [cmd : {"Q"}, client : Numeric]

NetTypes ==
    /\ netServer \in [AnyServer -> AnyServer \cup {NoServer}]
    /\ netName \in [FakeServer -> Remote \cup {NoServer}]
    /\ netClient \in [Numeric -> Nick \cup {NoNick}]
    /\ \A f \in FakeServer : Linked(f) => netName[f] \in Remote

LinkTypes ==
    /\ scene \in [jupe : BOOLEAN, kill : BOOLEAN, ours : SUBSET Nick, others : SUBSET Nick]
    /\ NetTypes
    /\ toUs \in Seq(FromUplink)
    /\ fromUs \in Seq(Written)

LEMMA Servers ==
    /\ Me \in AnyServer /\ Uplink \in AnyServer /\ Me # Uplink
    /\ Server \subseteq AnyServer /\ FakeServer \subseteq AnyServer
    /\ Remote \subseteq Server /\ Me \notin Remote /\ Uplink \notin Remote
    /\ Remote \cap FakeServer = {} /\ Uplink \notin FakeServer /\ Me \notin FakeServer
    /\ NoServer \notin AnyServer
    /\ AnyServer = Server \cup FakeServer
  BY NetworkAssumption DEF AnyServer, Remote

LEMMA Numerics ==
    /\ Foreign \subseteq Numeric
    /\ \A n \in Foreign : n[1] \in Server \ {Me}
    /\ \A n \in Numeric : n[1] \in AnyServer
    /\ NoNick \notin Nick
  BY NetworkAssumption DEF Foreign, Numeric, AnyServer

-----------------------------------------------------------------------------
(* The types of what is under way.                                         *)
LEMMA Sending ==
    ASSUME NEW T, NEW q \in Seq(T), NEW m \in T
    PROVE  q \o <<m>> \in Seq(T) /\ q \o <<>> = q
  OBVIOUS

LEMMA Reading ==
    ASSUME NEW T, NEW q \in Seq(T), q # <<>>
    PROVE  Head(q) \in T /\ Tail(q) \in Seq(T)
  OBVIOUS

(* A message of the uplink.                                                *)
LEMMA Telling ==
    ASSUME LinkTypes, NEW m \in FromUplink, Tell(<<m>>)
    PROVE  toUs' \in Seq(FromUplink)
<1> HIDE DEF FromUplink
<1> QED
  BY Sending DEF LinkTypes, Tell

LEMMA SplitMessage ==
    ASSUME LinkTypes, NEW s \in AnyServer, Linked(s), s # Me
    PROVE  SQMsg(NameIn(netName, s)) \in FromUplink
<1>1. NameIn(netName, s) \in Server \ {Me}
  BY Servers DEF NameIn, LinkTypes, NetTypes
<1> QED
  BY <1>1 DEF SQMsg, FromUplink, MsgSQ

(* What a loss leaves of the network.                                      *)
LEMMA LoseTypes ==
    ASSUME NetTypes, NEW S, Lose(S)
    PROVE  NetTypes'
<1>1. /\ netServer' = [s \in AnyServer |-> IF s \in S THEN NoServer ELSE netServer[s]]
      /\ netClient' = [n \in Numeric |-> IF n[1] \in S THEN NoNick ELSE netClient[n]]
      /\ netName' = [f \in FakeServer |-> IF f \in S THEN NoServer ELSE netName[f]]
  BY DEF Lose
<1>2. /\ netServer' \in [AnyServer -> AnyServer \cup {NoServer}]
      /\ netName' \in [FakeServer -> Remote \cup {NoServer}]
      /\ netClient' \in [Numeric -> Nick \cup {NoNick}]
  BY <1>1 DEF NetTypes
<1>3. \A f \in FakeServer : Linked(f)' => netName'[f] \in Remote
  BY <1>1, Servers DEF Linked, NetTypes
<1> QED
  BY <1>2, <1>3 DEF NetTypes

LEMMA ClientTypesKept ==
    ASSUME NetTypes, UNCHANGED <<netServer, netName>>,
           netClient' \in [Numeric -> Nick \cup {NoNick}]
    PROVE  NetTypes'
  BY DEF NetTypes, Linked

LEMMA LinkStep ==
    ASSUME LinkTypes, NEW s \in Remote, NEW u \in Server \ {Me}, NetLink(s, u), UNCHANGED scene
    PROVE  LinkTypes'
<1>1. [cmd |-> "S", server |-> s, uplink |-> u] \in FromUplink
  BY DEF NetLink, FromUplink, MsgS
<1>2. toUs' \in Seq(FromUplink)
  BY <1>1, Telling DEF NetLink
<1>3. fromUs' \in Seq(Written)
  <2>1. fromUs' = [i \in DOMAIN fromUs |->
            IF fromUs[i] = SQMsg(s) THEN SQMsg(NoServer) ELSE fromUs[i]]
    BY DEF NetLink
  <2>2. SQMsg(NoServer) \in Written
    BY DEF SQMsg, Written
  <2>3. fromUs \in Seq(Written)
    BY DEF LinkTypes
  <2> HIDE DEF Written, SQMsg
  <2> DEFINE a == SQMsg(s)
  <2> DEFINE b == SQMsg(NoServer)
  <2>4. fromUs' = [i \in 1 .. Len(fromUs) |-> IF fromUs[i] = a THEN b ELSE fromUs[i]]
    BY <2>1, <2>3
  <2>5. b \in Written
    BY <2>2
  <2> HIDE DEF a, b
  <2> QED
    BY <2>3, <2>4, <2>5
<1>4. NetTypes'
  BY Servers DEF NetLink, LinkTypes, NetTypes, Linked
<1> QED
  BY <1>2, <1>3, <1>4 DEF LinkTypes

LEMMA NetSplitStep ==
    ASSUME LinkTypes, NEW s \in AnyServer, s # Me, NetSplit(s), UNCHANGED scene
    PROVE  LinkTypes'
<1>1. SQMsg(NameIn(netName, s)) \in FromUplink
  BY SplitMessage DEF NetSplit
<1>2. toUs' \in Seq(FromUplink)
  BY <1>1, Telling DEF NetSplit
<1>3. NetTypes'
  BY LoseTypes DEF NetSplit, LinkTypes
<1> QED
  BY <1>2, <1>3 DEF LinkTypes, NetSplit

LEMMA NetClientStep ==
    ASSUME LinkTypes, UNCHANGED scene,
           \/ NetSquitUs
           \/ \E n \in Foreign, k \in scene.others : NetSignOn(n, k) \/ NetChangeNick(n, k)
           \/ \E n \in Foreign : NetQuit(n)
           \/ \E source \in Foreign, n \in Numeric : NetKill(source, n)
    PROVE  LinkTypes'
<1>1. CASE NetSquitUs
  <2>1. SQMsg(Uplink) \in FromUplink
    BY NetworkAssumption DEF SQMsg, FromUplink, MsgSQ
  <2>2. toUs' \in Seq(FromUplink)
    BY <1>1, <2>1, Telling DEF NetSquitUs
  <2> QED
    BY <1>1, <2>2 DEF LinkTypes, NetSquitUs, NetTypes, Linked
<1>2. ASSUME NEW n \in Foreign, NEW k \in scene.others, NetSignOn(n, k)
      PROVE  LinkTypes'
  <2>1. k \in Nick
    BY DEF LinkTypes
  <2>2. NMsg(n, k) \in FromUplink
    BY <2>1 DEF NMsg, FromUplink, MsgN
  <2>3. toUs' \in Seq(FromUplink)
    BY <1>2, <2>2, Telling DEF NetSignOn
  <2>4. NetTypes'
    BY <1>2, <2>1, ClientTypesKept, Numerics DEF NetSignOn, LinkTypes, NetTypes
  <2> QED
    BY <1>2, <2>3, <2>4 DEF LinkTypes, NetSignOn
<1>3. ASSUME NEW n \in Foreign, NEW k \in scene.others, NetChangeNick(n, k)
      PROVE  LinkTypes'
  <2>1. k \in Nick
    BY DEF LinkTypes
  <2>2. [cmd |-> "NICK", client |-> n, nick |-> k] \in FromUplink
    BY <2>1 DEF FromUplink, MsgN
  <2>3. toUs' \in Seq(FromUplink)
    BY <1>3, <2>2, Telling DEF NetChangeNick
  <2>4. NetTypes'
    BY <1>3, <2>1, ClientTypesKept, Numerics DEF NetChangeNick, LinkTypes, NetTypes
  <2> QED
    BY <1>3, <2>3, <2>4 DEF LinkTypes, NetChangeNick
<1>4. ASSUME NEW n \in Foreign, NetQuit(n)
      PROVE  LinkTypes'
  <2>1. QMsg(n) \in FromUplink
    BY DEF QMsg, FromUplink, MsgQ
  <2>2. toUs' \in Seq(FromUplink)
    BY <1>4, <2>1, Telling DEF NetQuit
  <2>3. NetTypes'
    BY <1>4, ClientTypesKept, Numerics DEF NetQuit, LinkTypes, NetTypes
  <2> QED
    BY <1>4, <2>2, <2>3 DEF LinkTypes, NetQuit
<1>5. ASSUME NEW source \in Foreign, NEW n \in Numeric, NetKill(source, n)
      PROVE  LinkTypes'
  <2>1. [cmd |-> "D", source |-> source, client |-> n] \in FromUplink
    BY Numerics DEF FromUplink, MsgD
  <2>2. toUs' \in Seq(FromUplink)
    BY <1>5, <2>1, Telling DEF NetKill
  <2>3. NetTypes'
    BY <1>5, ClientTypesKept, Numerics DEF NetKill, LinkTypes, NetTypes
  <2> QED
    BY <1>5, <2>2, <2>3 DEF LinkTypes, NetKill
<1> QED
  BY <1>1, <1>2, <1>3, <1>4, <1>5

LEMMA KillMessage ==
    ASSUME LinkTypes, NEW n \in Numeric, Kill(n)
    PROVE  toUs' \in Seq(FromUplink)
<1>1. [cmd |-> "D", source |-> Uplink, client |-> n] \in FromUplink
  BY Servers DEF FromUplink, MsgD
<1> QED
  BY <1>1, Telling DEF Kill

(* The uplink reads.                                                       *)
LEMMA NetReadStep ==
    ASSUME LinkTypes, NetRead, UNCHANGED scene
    PROVE  LinkTypes'
<1> DEFINE m == Head(fromUs)
<1>1. m \in Written /\ fromUs' \in Seq(Written) /\ toUs \in Seq(FromUplink)
  <2>1. fromUs \in Seq(Written) /\ fromUs # <<>> /\ fromUs' = Tail(fromUs)
    BY DEF LinkTypes, NetRead
  <2> QED
    BY <2>1, Reading DEF LinkTypes
<1>2. ReadS(m) \/ ReadSQ(m) \/ ReadN(m) \/ ReadQ(m)
  BY DEF NetRead
<1> HIDE DEF m
<1> SUFFICES NetTypes' /\ toUs' \in Seq(FromUplink)
  BY <1>1 DEF LinkTypes
<1>3. CASE ReadS(m)
  <2>1. m.cmd = "S" /\ m.server \in FakeServer /\ m.name \in Remote
    BY <1>1, <1>3 DEF ReadS, Written
  <2> DEFINE S == IF Linked(m.name) THEN Behind(m.name) ELSE {}
  <2>2. /\ netServer' = [s \in AnyServer |-> IF s = m.server THEN Me
                                 ELSE IF s \in S THEN NoServer ELSE netServer[s]]
        /\ netClient' = [n \in Numeric |-> IF n[1] \in S THEN NoNick ELSE netClient[n]]
        /\ netName' = [netName EXCEPT ![m.server] = m.name]
        /\ Tell(IF S = {} THEN <<>> ELSE <<SQMsg(m.name)>>)
    BY <1>3 DEF ReadS
  <2> HIDE DEF S
  <2>3. SQMsg(m.name) \in FromUplink
    BY <2>1, Servers DEF SQMsg, FromUplink, MsgSQ
  <2>4. toUs' \in Seq(FromUplink)
    BY <1>1, <2>2, <2>3, Telling, Sending DEF Tell
  <2>5. NetTypes'
    <3>1. /\ netServer' \in [AnyServer -> AnyServer \cup {NoServer}]
          /\ netName' \in [FakeServer -> Remote \cup {NoServer}]
          /\ netClient' \in [Numeric -> Nick \cup {NoNick}]
      BY <2>1, <2>2, Servers DEF LinkTypes, NetTypes
    <3>2. \A f \in FakeServer : Linked(f)' => netName'[f] \in Remote
      BY <2>1, <2>2, Servers DEF LinkTypes, NetTypes, Linked
    <3> QED
      BY <3>1, <3>2 DEF NetTypes
  <2> QED
    BY <2>4, <2>5
<1>4. CASE ReadSQ(m)
  <2>1. NetTypes' /\ toUs' = toUs
    BY <1>4, LoseTypes DEF ReadSQ, LinkTypes
  <2> QED
    BY <1>1, <2>1
<1>5. CASE ReadN(m)
  <2>1. m.cmd = "N" /\ m.client \in Numeric /\ m.nick \in Nick
    BY <1>1, <1>5 DEF ReadN, Written
  <2>2. UNCHANGED <<netServer, netName>>
    BY <1>5 DEF ReadN
  <2>3. CASE UNCHANGED toUs /\ (netClient' = [netClient EXCEPT ![m.client] = m.nick]
                                 \/ UNCHANGED netClient)
    BY <1>1, <2>1, <2>2, <2>3, ClientTypesKept DEF LinkTypes, NetTypes
  <2>4. ASSUME NEW other \in Numeric, Kill(other),
               netClient' = [netClient EXCEPT ![other] = NoNick, ![m.client] = m.nick]
        PROVE  NetTypes' /\ toUs' \in Seq(FromUplink)
    BY <2>1, <2>2, <2>4, ClientTypesKept, KillMessage DEF LinkTypes, NetTypes
  <2>5. CASE UNCHANGED netClient /\ Kill(m.client)
    BY <2>1, <2>2, <2>5, ClientTypesKept, KillMessage DEF LinkTypes, NetTypes
  <2> QED
    BY <1>5, <2>3, <2>4, <2>5 DEF ReadN
<1>6. CASE ReadQ(m)
  <2>1. m.client \in Numeric
    BY <1>1, <1>6 DEF ReadQ, Written
  <2>2. NetTypes'
    BY <1>6, <2>1, ClientTypesKept DEF ReadQ, LinkTypes, NetTypes
  <2> QED
    BY <1>1, <1>6, <2>2 DEF ReadQ
<1> QED
  BY <1>2, <1>3, <1>4, <1>5, <1>6

LEMMA NetStepTypes ==
    ASSUME LinkTypes, NetStep
    PROVE  LinkTypes'
<1>1. UNCHANGED scene
  BY DEF NetStep
<1>2. CASE \E s \in Remote, u \in Server \ {Me} : NetLink(s, u)
  BY <1>1, <1>2, LinkStep
<1>3. CASE \E s \in Remote \cup FakeServer : NetSplit(s)
  BY <1>1, <1>3, NetSplitStep, Servers
<1>4. CASE NetRead
  BY <1>1, <1>4, NetReadStep
<1> QED
  BY <1>1, <1>2, <1>3, <1>4, NetClientStep DEF NetStep, Foreign

-----------------------------------------------------------------------------
(* What is read is handed to the handlers: a step of Network.              *)
LEMMA HandleStep ==
    ASSUME NEW m \in FromUplink, Handle(m)
    PROVE  Next
<1>1. CASE m.cmd = "S"
  <2>1. m \in MsgS /\ msg_S(m.server, m.uplink)
    BY <1>1 DEF Handle, FromUplink, MsgS, MsgSQ, MsgN, MsgQ, MsgD
  <2>2. m.server \in Remote /\ m.uplink \in Server \ {Me} /\ m.server # m.uplink
    BY <2>1 DEF MsgS
  <2> QED
    BY <2>1, <2>2 DEF Next
<1>2. CASE m.cmd = "SQ"
  <2>1. m \in MsgSQ /\ msg_SQ(m.name)
    BY <1>2 DEF Handle, FromUplink, MsgS, MsgSQ, MsgN, MsgQ, MsgD
  <2> QED
    BY <2>1 DEF Next, MsgSQ
<1>3. CASE m.cmd = "N"
  <2>1. m \in MsgN /\ msg_N(m.client, m.nick)
    BY <1>3 DEF Handle, FromUplink, MsgS, MsgSQ, MsgN, MsgQ, MsgD
  <2> QED
    BY <2>1 DEF Next, MsgN, Foreign
<1>4. CASE m.cmd = "NICK"
  <2>1. m \in MsgN /\ msg_N_change(m.client, m.nick)
    BY <1>4 DEF Handle, FromUplink, MsgS, MsgSQ, MsgN, MsgQ, MsgD
  <2>2. m.client \in Numeric /\ m.client[1] # Me /\ m.nick \in Nick
    BY <2>1, Numerics DEF MsgN
  <2> QED
    BY <2>1, <2>2 DEF Next
<1>5. CASE m.cmd = "Q"
  <2>1. m \in MsgQ /\ msg_Q(m.client)
    BY <1>5 DEF Handle, FromUplink, MsgS, MsgSQ, MsgN, MsgQ, MsgD
  <2>2. m.client \in Numeric /\ m.client[1] # Me
    BY <2>1, Numerics DEF MsgQ
  <2> QED
    BY <2>1, <2>2 DEF Next
<1>6. CASE m.cmd = "D"
  <2>1. m \in MsgD /\ msg_D(m.source, m.client)
    BY <1>6 DEF Handle, FromUplink, MsgS, MsgSQ, MsgN, MsgQ, MsgD
  <2> QED
    BY <2>1 DEF Next, MsgD
<1> QED
  BY <1>1, <1>2, <1>3, <1>4, <1>5, <1>6 DEF Handle

LEMMA OnReadStep ==
    ASSUME LinkTypes, OnRead
    PROVE  LinkTypes' /\ Next
<1>1. /\ toUs # <<>> /\ toUs' = Tail(toUs) /\ Handle(Head(toUs))
      /\ UNCHANGED <<netServer, netName, netClient, fromUs, scene>>
  BY DEF OnRead
<1>2. Head(toUs) \in FromUplink /\ toUs' \in Seq(FromUplink)
  BY <1>1, Reading DEF LinkTypes
<1>3. LinkTypes'
  BY <1>1, <1>2 DEF LinkTypes, NetTypes, Linked
<1> QED
  BY <1>1, <1>2, <1>3, HandleStep

(* What is written.                                                        *)
LEMMA Writing ==
    ASSUME LinkTypes, NEW msgs \in Seq(Written), Write(msgs)
    PROVE  LinkTypes'
<1>1. /\ fromUs' = fromUs \o msgs
      /\ UNCHANGED <<netServer, netName, netClient, toUs, scene>>
  BY DEF Write
<1>2. fromUs' \in Seq(Written)
  BY <1>1 DEF LinkTypes
<1> QED
  BY <1>1, <1>2 DEF LinkTypes, NetTypes, Linked

LEMMA OneWritten ==
    ASSUME NEW m \in Written
    PROVE  <<m>> \in Seq(Written)
  OBVIOUS

LEMMA OurStepStep ==
    ASSUME LinkTypes, TypeOK, OurStep
    PROVE  LinkTypes' /\ Next
<1>1. ASSUME NEW n \in Numeric, NEW k \in scene.ours,
             AttachClient(n, k) \/ AttachFakeClient(n, k), Write(<<NMsg(n, k)>>)
      PROVE  LinkTypes' /\ Next
  <2>1. k \in Nick
    BY DEF LinkTypes
  <2>2. NMsg(n, k) \in Written
    BY <2>1 DEF NMsg, Written
  <2> QED
    BY <1>1, <2>1, <2>2, OneWritten, Writing DEF Next
<1>2. ASSUME NEW n \in localClients, DetachClient(n, {}), Write(<<QMsg(n)>>)
      PROVE  LinkTypes' /\ Next
  <2>1. QMsg(n) \in Written
    BY DEF QMsg, Written, TypeOK
  <2> QED
    BY <1>2, <2>1, OneWritten, Writing DEF Next
<1>3. ASSUME NEW n \in fakeClientMap, DetachFakeClient(n), Write(<<QMsg(n)>>)
      PROVE  LinkTypes' /\ Next
  <2>1. QMsg(n) \in Written
    BY DEF QMsg, Written, TypeOK
  <2> QED
    BY <1>3, <2>1, OneWritten, Writing DEF Next
<1>4. ASSUME NEW name \in Remote, NEW s \in AnyServer \cup {NoServer}, NEW f \in FakeServer,
             AttachServer(name, s, f),
             Write((IF s = NoServer THEN <<>> ELSE <<SQMsg(NameIn(serverName, s))>>)
                   \o (IF Named(name) \subseteq {s}
                       THEN <<[cmd |-> "S", server |-> f, name |-> name]>>
                       ELSE <<>>))
      PROVE  LinkTypes' /\ Next
  <2> DEFINE a == IF s = NoServer THEN <<>> ELSE <<SQMsg(NameIn(serverName, s))>>
  <2> DEFINE b == IF Named(name) \subseteq {s}
                  THEN <<[cmd |-> "S", server |-> f, name |-> name]>> ELSE <<>>
  <2>1. s # NoServer => NameIn(serverName, s) \in Server \cup {NoServer}
    BY Servers DEF NameIn, TypeOK
  <2>2. s # NoServer => SQMsg(NameIn(serverName, s)) \in Written
    BY <2>1 DEF SQMsg, Written
  <2>3. [cmd |-> "S", server |-> f, name |-> name] \in Written
    BY DEF Written
  <2>4. a \in Seq(Written) /\ b \in Seq(Written)
    BY <2>2, <2>3, OneWritten
  <2>5. Write(a \o b)
    BY <1>4
  <2> HIDE DEF a, b
  <2>6. a \o b \in Seq(Written)
    BY <2>4
  <2> QED
    BY <1>4, <2>5, <2>6, Writing DEF Next
<1>5. ASSUME NEW f \in FakeServer, DetachServer(f), Write(<<SQMsg(serverName[f])>>)
      PROVE  LinkTypes' /\ Next
  <2>1. SQMsg(serverName[f]) \in Written
    BY DEF SQMsg, Written, TypeOK
  <2> QED
    BY <1>5, <2>1, OneWritten, Writing DEF Next
<1> QED
  BY <1>1, <1>2, <1>3, <1>4, <1>5 DEF OurStep

-----------------------------------------------------------------------------
LEMMA InitLink == P10Init => LinkTypes /\ IInv
<1> SUFFICES ASSUME P10Init
             PROVE  LinkTypes /\ IInv
  OBVIOUS
<1>1. IInv
  BY InitIInv DEF P10Init
<1>2. /\ netServer = serverMap /\ netName = serverName /\ netClient = numericMap
      /\ toUs = <<>> /\ fromUs = <<>> /\ scene \in Scene /\ Init
  BY DEF P10Init
<1>3. NetTypes
  <2>1. serverName = [f \in FakeServer |-> NoServer]
    BY <1>2 DEF Init
  <2>2. \A f \in FakeServer : ~Linked(f)
    BY <1>2, Servers DEF Init, Linked
  <2> QED
    BY <1>1, <1>2, <2>1, <2>2 DEF NetTypes, IInv, TypeOK
<1> QED
  BY <1>1, <1>2, <1>3, P10Assumption DEF LinkTypes

LEMMA StepAllowed ==
    ASSUME LinkTypes, IInv, [P10Next]_allVars
    PROVE  /\ UNCHANGED vars \/ Next
           /\ LinkTypes' /\ IInv'
<1>1. (UNCHANGED vars \/ Next) /\ LinkTypes'
  <2>1. CASE NetStep
    BY <2>1, NetStepTypes DEF NetStep
  <2>2. CASE OnRead
    BY <2>2, OnReadStep
  <2>3. CASE OurStep
    BY <2>3, OurStepStep DEF IInv
  <2>4. CASE UNCHANGED allVars
    BY <2>4 DEF allVars, netVars, LinkTypes, NetTypes, Linked
  <2> QED
    BY <2>1, <2>2, <2>3, <2>4 DEF P10Next
<1> QED
  BY <1>1, NextIInv

LEMMA LinkInvariance == P10Spec => [](LinkTypes /\ IInv)
<1>1. LinkTypes /\ IInv /\ [P10Next]_allVars => (LinkTypes /\ IInv)'
  BY StepAllowed
<1> QED
  BY <1>1, InitLink, PTL DEF P10Spec

(* At the end of a link to a network that is not broken every handler is   *)
(* called as module Network allows, and what it proves holds there too.    *)
THEOREM LinkIsNetwork == P10Spec => NetworkSpec
<1>1. P10Init => Init
  BY DEF P10Init
<1>2. LinkTypes /\ IInv /\ [P10Next]_allVars => [UNCHANGED vars \/ Next]_vars
  BY StepAllowed
<1> QED
  BY <1>1, <1>2, LinkInvariance, PTL DEF P10Spec, NetworkSpec

-----------------------------------------------------------------------------
(* Without jupes: what the tables will be as the messages under way are    *)
(* read one after the other.  A view is the servers and the clients of     *)
(* other servers, as the tables or as the uplink have them.                *)
View == [srv : [AnyServer -> AnyServer \cup {NoServer}],
         cli : [Numeric -> Nick \cup {NoNick}]]

(* What every view of a network is like.                                   *)
Sound(v) ==
    /\ v \in View
    /\ v.srv[Me] = Uplink /\ v.srv[Uplink] = Uplink
    /\ \A f \in FakeServer : v.srv[f] = NoServer
    /\ \A n \in Numeric : v.cli[n] # NoNick => n[1] # Me /\ v.srv[n[1]] # NoServer
    /\ \A n \in Numeric : \A o \in Numeric :
            v.cli[n] # NoNick /\ v.cli[n] = v.cli[o] => n = o

Free(v, k) == \A n \in Numeric : v.cli[n] # k

(* What is lost with s.                                                    *)
Closed(f, X) == \A u \in AnyServer \ {Uplink} : f[u] \in X => u \in X
Below(f, s) == {t \in AnyServer : \A X \in SUBSET AnyServer : s \in X /\ Closed(f, X) => t \in X}

Without(v, S) ==
    [srv |-> [s \in AnyServer |-> IF s \in S THEN NoServer ELSE v.srv[s]],
     cli |-> [n \in Numeric |-> IF n[1] \in S THEN NoNick ELSE v.cli[n]]]
WithServer(v, s, u) == [srv |-> [v.srv EXCEPT ![s] = u], cli |-> v.cli]
WithClient(v, n, k) == [srv |-> v.srv, cli |-> [v.cli EXCEPT ![n] = k]]

(* The message m finds the view v and leaves w.                            *)
Reads(v, m, w) ==
    \/ /\ m \in MsgS
       /\ v.srv[m.server] = NoServer /\ v.srv[m.uplink] # NoServer
       /\ w = WithServer(v, m.server, m.uplink)
    \/ /\ m \in MsgSQ /\ m.name = Uplink
       /\ w = v
    \/ /\ m \in MsgSQ /\ m.name \in Remote /\ v.srv[m.name] # NoServer
       /\ w = Without(v, Below(v.srv, m.name))
    \/ /\ m \in MsgN /\ m.cmd = "N"
       /\ v.srv[m.client[1]] # NoServer /\ v.cli[m.client] = NoNick /\ Free(v, m.nick)
       /\ w = WithClient(v, m.client, m.nick)
    \/ /\ m \in MsgN /\ m.cmd = "NICK"
       /\ v.cli[m.client] # NoNick /\ Free(v, m.nick)
       /\ w = WithClient(v, m.client, m.nick)
    \/ /\ m \in MsgQ
       /\ w = WithClient(v, m.client, NoNick)
    \/ /\ m \in MsgD /\ m.client[1] = Me
       /\ w = v
    \/ /\ m \in MsgD /\ m.client[1] # Me
       /\ m.source = Uplink \/ (m.source \in Numeric /\ v.cli[m.source] # NoNick)
       /\ w = WithClient(v, m.client, NoNick)

(* The messages of q lead from one view to the other.                      *)
Leads(q, v, w) ==
    \E V \in [0 .. Len(q) -> View] :
        /\ V[0] = v /\ V[Len(q)] = w
        /\ \A i \in 0 .. Len(q) : Sound(V[i])
        /\ \A i \in 1 .. Len(q) : Reads(V[i - 1], q[i], V[i])

LEMMA LeadsNowhere ==
    ASSUME NEW v, Sound(v)
    PROVE  Leads(<<>>, v, v)
<1> DEFINE V == [i \in 0 .. 0 |-> v]
<1>1. V \in [0 .. Len(<<>>) -> View]
  BY DEF Sound
<1>2. V[0] = v /\ V[Len(<<>>)] = v /\ \A i \in 0 .. Len(<<>>) : Sound(V[i])
  OBVIOUS
<1>3. \A i \in 1 .. Len(<<>>) : Reads(V[i - 1], <<>>[i], V[i])
  OBVIOUS
<1> HIDE DEF V
<1> QED
  BY <1>1, <1>2, <1>3 DEF Leads

LEMMA LeadsAlong ==
    ASSUME NEW T, NEW q \in Seq(T), NEW v, NEW w, Leads(q, v, w)
    PROVE  Sound(v) /\ Sound(w) /\ (q = <<>> => v = w)
<1>1. Len(q) \in Nat /\ (q = <<>> => Len(q) = 0)
  OBVIOUS
<1> QED
  BY <1>1 DEF Leads

LEMMA LeadsFurther ==
    ASSUME NEW T, NEW q \in Seq(T), NEW m \in T, NEW v, NEW w, NEW x,
           Leads(q, v, w), Reads(w, m, x), Sound(x)
    PROVE  Leads(q \o <<m>>, v, x)
<1> DEFINE l == Len(q)
<1> DEFINE p == q \o <<m>>
<1>1. PICK V \in [0 .. l -> View] :
        /\ V[0] = v /\ V[l] = w
        /\ \A i \in 0 .. l : Sound(V[i])
        /\ \A i \in 1 .. l : Reads(V[i - 1], q[i], V[i])
  BY DEF Leads
<1>2. l \in Nat /\ Len(p) = l + 1 /\ p[l + 1] = m /\ \A i \in 1 .. l : p[i] = q[i]
  OBVIOUS
<1> DEFINE W == [i \in 0 .. l + 1 |-> IF i = l + 1 THEN x ELSE V[i]]
<1>3. x \in View
  BY DEF Sound
<1> HIDE DEF l, p
<1>4. W \in [0 .. l + 1 -> View]
  BY <1>1, <1>2, <1>3
<1>5. W[0] = v /\ W[l + 1] = x /\ W[l] = w /\ \A i \in 0 .. l : W[i] = V[i]
  BY <1>1, <1>2
<1> HIDE DEF W
<1>6. \A i \in 0 .. l + 1 : Sound(W[i])
  BY <1>1, <1>2, <1>5
<1>7. \A i \in 1 .. l + 1 : Reads(W[i - 1], p[i], W[i])
  <2> SUFFICES ASSUME NEW i \in 1 .. l + 1
               PROVE  Reads(W[i - 1], p[i], W[i])
    OBVIOUS
  <2>1. CASE i = l + 1
    <3>1. i - 1 = l
      BY <1>2, <2>1
    <3> QED
      BY <1>2, <1>5, <2>1, <3>1
  <2>2. CASE i # l + 1
    <3>1. i \in 1 .. l /\ i \in 0 .. l /\ i - 1 \in 0 .. l
      BY <1>2, <2>2
    <3> QED
      BY <1>1, <1>2, <1>5, <3>1
  <2> QED
    BY <2>1, <2>2
<1> QED
  BY <1>2, <1>4, <1>5, <1>6, <1>7 DEF Leads, p

LEMMA LeadsFirst ==
    ASSUME NEW T, NEW q \in Seq(T), q # <<>>, NEW v, NEW w, Leads(q, v, w)
    PROVE  \E x \in View : Reads(v, Head(q), x) /\ Leads(Tail(q), x, w)
<1> DEFINE l == Len(q)
<1> DEFINE t == Tail(q)
<1>1. PICK V \in [0 .. l -> View] :
        /\ V[0] = v /\ V[l] = w
        /\ \A i \in 0 .. l : Sound(V[i])
        /\ \A i \in 1 .. l : Reads(V[i - 1], q[i], V[i])
  BY DEF Leads
<1>2. /\ l \in Nat /\ l >= 1 /\ Len(t) = l - 1 /\ q[1] = Head(q)
      /\ \A i \in 1 .. l - 1 : t[i] = q[i + 1]
  OBVIOUS
<1> DEFINE W == [i \in 0 .. l - 1 |-> V[i + 1]]
<1> HIDE DEF l, t
<1>3. W \in [0 .. l - 1 -> View]
  BY <1>1, <1>2
<1>4. W[0] = V[1] /\ W[l - 1] = w /\ \A i \in 0 .. l - 1 : W[i] = V[i + 1] /\ Sound(W[i])
  BY <1>1, <1>2
<1> HIDE DEF W
<1>5. \A i \in 1 .. l - 1 : Reads(W[i - 1], t[i], W[i])
  <2> SUFFICES ASSUME NEW i \in 1 .. l - 1
               PROVE  Reads(W[i - 1], t[i], W[i])
    OBVIOUS
  <2>1. W[i - 1] = V[i] /\ W[i] = V[i + 1] /\ i + 1 \in 1 .. l /\ (i + 1) - 1 = i
    BY <1>2, <1>4
  <2> QED
    BY <1>1, <1>2, <2>1
<1>6. Leads(t, V[1], w)
  BY <1>2, <1>3, <1>4, <1>5 DEF Leads
<1>7. V[1] \in View /\ Reads(V[0], q[1], V[1])
  <2>1. 1 \in 1 .. l /\ 1 \in 0 .. l /\ 1 - 1 = 0
    BY <1>2
  <2> QED
    BY <1>1, <2>1
<1> QED
  BY <1>1, <1>2, <1>6, <1>7 DEF t

(* Nothing behind the uplink by another way is lost with s.                *)
LEMMA BelowSpares ==
    ASSUME NEW v, Sound(v), NEW s \in Remote
    PROVE  /\ Below(v.srv, s) \subseteq AnyServer
           /\ Me \notin Below(v.srv, s) /\ Uplink \notin Below(v.srv, s)
<1> DEFINE X == AnyServer \ {Me, Uplink}
<1>1. X \in SUBSET AnyServer /\ s \in X /\ Me \notin X /\ Uplink \notin X
  BY Servers
<1>2. Closed(v.srv, X)
  BY Servers DEF Closed, Sound
<1> HIDE DEF X
<1> QED
  BY <1>1, <1>2 DEF Below

LEMMA ReadsSound ==
    ASSUME NEW v, NEW m, NEW w, Sound(v), Reads(v, m, w)
    PROVE  Sound(w)
<1>1. v.srv \in [AnyServer -> AnyServer \cup {NoServer}] /\ v.cli \in [Numeric -> Nick \cup {NoNick}]
  BY DEF Sound, View
<1>2. CASE m \in MsgS /\ v.srv[m.server] = NoServer /\ w = WithServer(v, m.server, m.uplink)
  <2>1. m.server \in Remote /\ m.uplink \in AnyServer
    BY <1>2, Servers DEF MsgS
  <2>2. /\ w.srv = [v.srv EXCEPT ![m.server] = m.uplink] /\ w.cli = v.cli
        /\ w = [srv |-> w.srv, cli |-> w.cli]
    BY <1>2 DEF WithServer
  <2>3. w \in View
    BY <1>1, <2>1, <2>2 DEF View
  <2> QED
    BY <1>1, <2>1, <2>2, <2>3, Servers, Numerics DEF Sound
<1>3. CASE w = v
  BY <1>3
<1>4. CASE m.name \in Remote /\ w = Without(v, Below(v.srv, m.name))
  <2> DEFINE S == Below(v.srv, m.name)
  <2>1. S \subseteq AnyServer /\ Me \notin S /\ Uplink \notin S
    BY <1>4, BelowSpares
  <2>2. /\ w.srv = [s \in AnyServer |-> IF s \in S THEN NoServer ELSE v.srv[s]]
        /\ w.cli = [n \in Numeric |-> IF n[1] \in S THEN NoNick ELSE v.cli[n]]
        /\ w = [srv |-> w.srv, cli |-> w.cli]
    BY <1>4 DEF Without
  <2> HIDE DEF S
  <2>3. w \in View
    BY <1>1, <2>2 DEF View
  <2>4. \A n \in Numeric : w.cli[n] # NoNick => w.cli[n] = v.cli[n] /\ n[1] \notin S
    BY <2>2
  <2>5. \A s \in AnyServer \ S : w.srv[s] = v.srv[s]
    BY <2>2
  <2>6. \A f \in FakeServer : w.srv[f] = NoServer
    BY <2>2, Servers DEF Sound
  <2> QED
    BY <2>1, <2>3, <2>4, <2>5, <2>6, Servers, Numerics DEF Sound
<1>5. ASSUME NEW n \in Numeric, NEW k \in Nick, n[1] # Me, v.srv[n[1]] # NoServer,
             Free(v, k), w = WithClient(v, n, k)
      PROVE  Sound(w)
  <2>1. w.srv = v.srv /\ w.cli = [v.cli EXCEPT ![n] = k] /\ w = [srv |-> w.srv, cli |-> w.cli]
    BY <1>5 DEF WithClient
  <2>2. w \in View
    BY <1>1, <2>1 DEF View
  <2> QED
    BY <1>1, <1>5, <2>1, <2>2 DEF Sound, Free
<1>6. ASSUME NEW n \in Numeric, w = WithClient(v, n, NoNick)
      PROVE  Sound(w)
  <2>1. w.srv = v.srv /\ w.cli = [v.cli EXCEPT ![n] = NoNick] /\ w = [srv |-> w.srv, cli |-> w.cli]
    BY <1>6 DEF WithClient
  <2>2. w \in View
    BY <1>1, <2>1 DEF View
  <2> QED
    BY <1>1, <1>6, <2>1, <2>2 DEF Sound
<1>7. CASE m \in MsgN /\ m.cmd = "N" /\ v.srv[m.client[1]] # NoServer /\ Free(v, m.nick)
           /\ w = WithClient(v, m.client, m.nick)
  BY <1>5, <1>7, Numerics DEF MsgN
<1>8. CASE m \in MsgN /\ m.cmd = "NICK" /\ v.cli[m.client] # NoNick /\ Free(v, m.nick)
           /\ w = WithClient(v, m.client, m.nick)
  BY <1>5, <1>8, Numerics DEF MsgN, Sound
<1>9. CASE m \in MsgQ /\ w = WithClient(v, m.client, NoNick)
  BY <1>6, <1>9, Numerics DEF MsgQ
<1>10. CASE m \in MsgD /\ w = WithClient(v, m.client, NoNick)
  BY <1>6, <1>10 DEF MsgD
<1> QED
  BY <1>2, <1>3, <1>4, <1>7, <1>8, <1>9, <1>10 DEF Reads

-----------------------------------------------------------------------------
(* What holds of the link without jupes until this server is squit: the    *)
(* messages under way lead from the tables to the network, nicks are       *)
(* unique there, and findNick() finds every client, unless one of our own  *)
(* may have wanted its nick.                                               *)
Foreigners(f) == [n \in Numeric |-> IF n[1] = Me THEN NoNick ELSE f[n]]
Ours == [srv |-> serverMap, cli |-> Foreigners(numericMap)]
Theirs == [srv |-> netServer, cli |-> Foreigners(netClient)]

Own == {Me} \X Slot
OwnWritten == [cmd : {"N"}, client : Own, nick : Nick] \cup [cmd : {"Q"}, client : Own]

NicksUnique ==
    \A n \in Numeric : \A o \in Numeric :
        netClient[n] # NoNick /\ netClient[n] = netClient[o] => n = o

Found ==
    /\ \A n \in Clients : n[1] = Me => numericMap[n] \in scene.ours
    /\ \A n \in Clients : numericMap[n] \notin scene.ours => nickMap[numericMap[n]] = n

Live ==
    /\ fakeServerMap = {}
    /\ Leads(toUs, Ours, Theirs)
    /\ fromUs \in Seq(OwnWritten)
    /\ NicksUnique
    /\ Found

Followed == ~scene.jupe => ~crashed /\ (lastLoop \/ Live)

LEMMA ForeignersOf ==
    ASSUME NEW f \in [Numeric -> Nick \cup {NoNick}]
    PROVE  /\ Foreigners(f) \in [Numeric -> Nick \cup {NoNick}]
           /\ \A n \in Numeric : Foreigners(f)[n] = IF n[1] = Me THEN NoNick ELSE f[n]
  BY DEF Foreigners

LEMMA TheirView ==
    ASSUME LinkTypes, Live
    PROVE  /\ Theirs.srv = netServer /\ Theirs.cli \in [Numeric -> Nick \cup {NoNick}]
           /\ \A n \in Numeric : Theirs.cli[n] = IF n[1] = Me THEN NoNick ELSE netClient[n]
           /\ Sound(Theirs)
<1>1. Theirs.srv = netServer /\ Theirs.cli = Foreigners(netClient)
  BY DEF Theirs
<1>2. Sound(Theirs)
  BY LeadsAlong DEF LinkTypes, Live
<1> QED
  BY <1>1, <1>2, ForeignersOf DEF LinkTypes, NetTypes

(* A message that tells of the change.                                     *)
LEMMA Told ==
    ASSUME LinkTypes, Live, NEW m \in FromUplink, Reads(Theirs, m, Theirs'),
           Tell(<<m>>), UNCHANGED vars, UNCHANGED scene,
           fromUs' \in Seq(OwnWritten), NicksUnique'
    PROVE  Live'
<1>1. Sound(Theirs')
  BY ReadsSound, TheirView
<1>2. toUs \in Seq(FromUplink) /\ toUs' = toUs \o <<m>> /\ Leads(toUs, Ours, Theirs)
  BY DEF LinkTypes, Tell, Live
<1> HIDE DEF FromUplink
<1>3. Leads(toUs \o <<m>>, Ours, Theirs')
  BY <1>1, <1>2, LeadsFurther
<1>4. Ours' = Ours /\ UNCHANGED <<fakeServerMap, numericMap, nickMap>>
  BY DEF Ours, vars
<1>5. Found'
  BY <1>4 DEF Live, Found, Clients, IsClient
<1> QED
  BY <1>2, <1>3, <1>4, <1>5 DEF Live

LEMMA LinkTold ==
    ASSUME LinkTypes, Live, NEW s \in Remote, NEW u \in Server \ {Me}, NetLink(s, u),
           UNCHANGED vars, UNCHANGED scene
    PROVE  Live'
<1> DEFINE m == [cmd |-> "S", server |-> s, uplink |-> u]
<1>1. /\ netServer[s] = NoServer /\ netServer[u] # NoServer
      /\ netServer' = [netServer EXCEPT ![s] = u]
      /\ Tell(<<m>>) /\ UNCHANGED <<netName, netClient>>
  BY DEF NetLink, Linked
<1>2. m \in MsgS /\ m.server = s /\ m.uplink = u
  BY <1>1 DEF MsgS
<1>3. m \in FromUplink
  BY <1>2 DEF FromUplink
<1> HIDE DEF m
<1>4. Theirs' = WithServer(Theirs, s, u)
  BY <1>1 DEF Theirs, WithServer
<1>5. Reads(Theirs, m, Theirs')
  BY <1>1, <1>2, <1>4, TheirView DEF Reads
<1>6. fromUs' \in Seq(OwnWritten)
  <2>1. \A x \in OwnWritten : x.cmd # "SQ"
    BY DEF OwnWritten
  <2>2. SQMsg(s).cmd = "SQ"
    BY DEF SQMsg
  <2>3. fromUs' = [i \in DOMAIN fromUs |->
            IF fromUs[i] = SQMsg(s) THEN SQMsg(NoServer) ELSE fromUs[i]]
    BY DEF NetLink
  <2>4. fromUs \in Seq(OwnWritten)
    BY DEF Live
  <2> HIDE DEF OwnWritten, SQMsg
  <2>5. \A i \in DOMAIN fromUs : fromUs[i] \in OwnWritten
    BY <2>4
  <2>6. \A i \in DOMAIN fromUs : fromUs[i] # SQMsg(s)
    BY <2>1, <2>2, <2>5
  <2>7. fromUs' = [i \in DOMAIN fromUs |-> fromUs[i]]
    BY <2>3, <2>6
  <2>8. fromUs' = fromUs
    BY <2>4, <2>7
  <2> QED
    BY <2>4, <2>8
<1>7. NicksUnique'
  BY <1>1 DEF Live, NicksUnique
<1> QED
  BY <1>1, <1>3, <1>5, <1>6, <1>7, Told

LEMMA SplitTold ==
    ASSUME LinkTypes, Live, NEW s \in Remote \cup FakeServer, NetSplit(s),
           UNCHANGED vars, UNCHANGED scene
    PROVE  Live'
<1>1. s \in Remote /\ netServer[s] # NoServer
  BY TheirView, Servers DEF NetSplit, Linked, Sound
<1> DEFINE S == Below(netServer, s)
<1> DEFINE m == SQMsg(s)
<1>2. Behind(s) = S /\ NameIn(netName, s) = s
  BY <1>1, Servers DEF Behind, Below, Closed, NameIn
<1>3. /\ netServer' = [t \in AnyServer |-> IF t \in S THEN NoServer ELSE netServer[t]]
      /\ netClient' = [n \in Numeric |-> IF n[1] \in S THEN NoNick ELSE netClient[n]]
      /\ Tell(<<m>>) /\ UNCHANGED fromUs
  BY <1>2 DEF NetSplit, Lose
<1>4. m \in MsgSQ /\ m.name = s
  BY <1>1, Servers DEF SQMsg, MsgSQ
<1>5. m \in FromUplink
  BY <1>4 DEF FromUplink
<1> HIDE DEF m, S
<1>6. Theirs' = Without(Theirs, S)
  <2>1. Theirs' = [srv |-> netServer', cli |-> Foreigners(netClient)']
    BY DEF Theirs
  <2>2. Foreigners(netClient)' = [n \in Numeric |-> IF n[1] = Me THEN NoNick ELSE netClient'[n]]
    BY DEF Foreigners
  <2>3. Foreigners(netClient)' = [n \in Numeric |-> IF n[1] \in S THEN NoNick ELSE Theirs.cli[n]]
    BY <1>3, <2>2, TheirView
  <2>4. netServer' = [t \in AnyServer |-> IF t \in S THEN NoServer ELSE Theirs.srv[t]]
    BY <1>3, TheirView
  <2> QED
    BY <2>1, <2>3, <2>4 DEF Without
<1>7. Reads(Theirs, m, Theirs')
  BY <1>1, <1>4, <1>6, TheirView DEF Reads, S
<1>8. NicksUnique'
  BY <1>3 DEF Live, NicksUnique
<1> QED
  BY <1>3, <1>5, <1>7, <1>8, Told DEF Live

(* Their view after a change of one client.                                *)
LEMMA TheirsWith ==
    ASSUME LinkTypes, Live, NEW n \in Numeric, NEW k \in Nick \cup {NoNick},
           netClient' = [netClient EXCEPT ![n] = k], UNCHANGED netServer
    PROVE  Theirs' = IF n[1] = Me THEN Theirs ELSE WithClient(Theirs, n, k)
<1>1. Theirs' = [srv |-> netServer, cli |-> Foreigners(netClient)']
  BY DEF Theirs
<1>2. Foreigners(netClient)' = [o \in Numeric |-> IF o[1] = Me THEN NoNick ELSE netClient'[o]]
  BY DEF Foreigners
<1>3. Theirs = [srv |-> netServer, cli |-> Theirs.cli]
  BY DEF Theirs
<1>4. CASE n[1] = Me
  <2>1. Foreigners(netClient)' = Theirs.cli
    BY <1>2, <1>4, TheirView DEF LinkTypes, NetTypes
  <2> QED
    BY <1>1, <1>3, <1>4, <2>1
<1>5. CASE n[1] # Me
  <2>1. Foreigners(netClient)' = [Theirs.cli EXCEPT ![n] = k]
    BY <1>2, <1>5, TheirView DEF LinkTypes, NetTypes
  <2> QED
    BY <1>1, <1>5, <2>1, TheirView DEF WithClient
<1> QED
  BY <1>4, <1>5

LEMMA NicksStayUnique ==
    ASSUME LinkTypes, NicksUnique, NEW n \in Numeric, NEW k,
           k = NoNick \/ NickFree(k), netClient' = [netClient EXCEPT ![n] = k]
    PROVE  NicksUnique'
  BY DEF LinkTypes, NetTypes, NicksUnique, NickFree

LEMMA FreeForThem ==
    ASSUME LinkTypes, Live, NEW k \in Nick, NickFree(k)
    PROVE  Free(Theirs, k)
  BY TheirView, Numerics DEF NickFree, Free

LEMMA ClientTold ==
    ASSUME LinkTypes, Live, UNCHANGED vars, UNCHANGED scene,
           \/ NetSquitUs
           \/ \E n \in Foreign, k \in scene.others : NetSignOn(n, k) \/ NetChangeNick(n, k)
           \/ \E n \in Foreign : NetQuit(n)
           \/ \E source \in Foreign, n \in Numeric : NetKill(source, n)
    PROVE  Live'
<1>1. CASE NetSquitUs
  <2> DEFINE m == SQMsg(Uplink)
  <2>1. m \in MsgSQ /\ m.name = Uplink
    BY NetworkAssumption DEF SQMsg, MsgSQ
  <2>2. m \in FromUplink
    BY <2>1 DEF FromUplink
  <2>3. Tell(<<m>>) /\ UNCHANGED <<netServer, netName, netClient, fromUs>>
    BY <1>1 DEF NetSquitUs
  <2> HIDE DEF m
  <2>4. Theirs' = Theirs /\ NicksUnique'
    BY <2>3 DEF Theirs, Foreigners, Live, NicksUnique
  <2>5. Reads(Theirs, m, Theirs')
    BY <2>1, <2>4 DEF Reads
  <2> QED
    BY <2>2, <2>3, <2>4, <2>5, Told DEF Live
<1>2. ASSUME NEW n \in Foreign, NEW k \in scene.others, NetSignOn(n, k)
      PROVE  Live'
  <2> DEFINE m == NMsg(n, k)
  <2>1. k \in Nick /\ n \in Numeric /\ n[1] # Me /\ n[1] \in AnyServer
    BY Numerics DEF LinkTypes
  <2>2. m \in MsgN /\ m.cmd = "N" /\ m.client = n /\ m.nick = k
    BY <2>1 DEF NMsg, MsgN
  <2>3. m \in FromUplink
    BY <2>2 DEF FromUplink
  <2>4. /\ netServer[n[1]] # NoServer /\ netClient[n] = NoNick /\ NickFree(k)
        /\ netClient' = [netClient EXCEPT ![n] = k]
        /\ Tell(<<m>>) /\ UNCHANGED <<netServer, netName, fromUs>>
    BY <1>2 DEF NetSignOn, Linked, Online
  <2> HIDE DEF m
  <2>5. Theirs' = WithClient(Theirs, n, k) /\ NicksUnique'
    BY <2>1, <2>4, TheirsWith, NicksStayUnique DEF Live
  <2>6. Reads(Theirs, m, Theirs')
    BY <2>1, <2>2, <2>4, <2>5, TheirView, FreeForThem DEF Reads
  <2> QED
    BY <2>3, <2>4, <2>5, <2>6, Told DEF Live
<1>3. ASSUME NEW n \in Foreign, NEW k \in scene.others, NetChangeNick(n, k)
      PROVE  Live'
  <2> DEFINE m == [cmd |-> "NICK", client |-> n, nick |-> k]
  <2>1. k \in Nick /\ n \in Numeric /\ n[1] # Me /\ n[1] \in AnyServer
    BY Numerics DEF LinkTypes
  <2>2. m \in MsgN /\ m.cmd = "NICK" /\ m.client = n /\ m.nick = k
    BY <2>1 DEF MsgN
  <2>3. m \in FromUplink
    BY <2>2 DEF FromUplink
  <2>4. /\ netClient[n] # NoNick /\ NickFree(k)
        /\ netClient' = [netClient EXCEPT ![n] = k]
        /\ Tell(<<m>>) /\ UNCHANGED <<netServer, netName, fromUs>>
    BY <1>3 DEF NetChangeNick, Online
  <2> HIDE DEF m
  <2>5. Theirs' = WithClient(Theirs, n, k) /\ NicksUnique'
    BY <2>1, <2>4, TheirsWith, NicksStayUnique DEF Live
  <2>6. Reads(Theirs, m, Theirs')
    BY <2>1, <2>2, <2>4, <2>5, TheirView, FreeForThem DEF Reads
  <2> QED
    BY <2>3, <2>4, <2>5, <2>6, Told DEF Live
<1>4. ASSUME NEW n \in Foreign, NetQuit(n)
      PROVE  Live'
  <2> DEFINE m == QMsg(n)
  <2>1. n \in Numeric /\ n[1] # Me
    BY Numerics
  <2>2. m \in MsgQ /\ m.client = n
    BY <2>1 DEF QMsg, MsgQ
  <2>3. m \in FromUplink
    BY <2>2 DEF FromUplink
  <2>4. /\ netClient' = [netClient EXCEPT ![n] = NoNick]
        /\ Tell(<<m>>) /\ UNCHANGED <<netServer, netName, fromUs>>
    BY <1>4 DEF NetQuit
  <2> HIDE DEF m
  <2>5. Theirs' = WithClient(Theirs, n, NoNick) /\ NicksUnique'
    BY <2>1, <2>4, TheirsWith, NicksStayUnique DEF Live
  <2>6. Reads(Theirs, m, Theirs')
    BY <2>2, <2>5 DEF Reads
  <2> QED
    BY <2>3, <2>4, <2>5, <2>6, Told DEF Live
<1>5. ASSUME NEW source \in Foreign, NEW n \in Numeric, NetKill(source, n)
      PROVE  Live'
  <2> DEFINE m == [cmd |-> "D", source |-> source, client |-> n]
  <2>1. source \in Numeric /\ source[1] # Me
    BY Numerics
  <2>2. m \in MsgD /\ m.source = source /\ m.client = n
    BY <2>1 DEF MsgD
  <2>3. m \in FromUplink
    BY <2>2 DEF FromUplink
  <2>4. /\ netClient[source] # NoNick
        /\ netClient' = [netClient EXCEPT ![n] = NoNick]
        /\ Tell(<<m>>) /\ UNCHANGED <<netServer, netName, fromUs>>
    BY <1>5 DEF NetKill, Online
  <2> HIDE DEF m
  <2>5. /\ Theirs' = IF n[1] = Me THEN Theirs ELSE WithClient(Theirs, n, NoNick)
        /\ NicksUnique'
    BY <2>4, TheirsWith, NicksStayUnique DEF Live
  <2>6. Reads(Theirs, m, Theirs')
    BY <2>1, <2>2, <2>4, <2>5, TheirView DEF Reads
  <2> QED
    BY <2>3, <2>4, <2>5, <2>6, Told DEF Live
<1> QED
  BY <1>1, <1>2, <1>3, <1>4, <1>5

(* The uplink reads of our clients only, and kills one of two with a nick. *)
LEMMA ReadTold ==
    ASSUME LinkTypes, Live, NetRead, UNCHANGED vars, UNCHANGED scene
    PROVE  Live'
<1> DEFINE m == Head(fromUs)
<1>1. m \in OwnWritten /\ fromUs' \in Seq(OwnWritten)
  <2>1. fromUs \in Seq(OwnWritten) /\ fromUs # <<>> /\ fromUs' = Tail(fromUs)
    BY DEF Live, NetRead
  <2> QED
    BY <2>1, Reading
<1>2. ReadN(m) \/ ReadQ(m)
  BY <1>1 DEF NetRead, OwnWritten, ReadS, ReadSQ
<1>3. m.client \in Numeric /\ m.client[1] = Me
  BY <1>1, Servers DEF OwnWritten, Own, Numeric
<1> HIDE DEF m
<1>4. netClient \in [Numeric -> Nick \cup {NoNick}]
  BY DEF LinkTypes, NetTypes
<1>5. ASSUME NEW k \in Nick \cup {NoNick}, k = NoNick \/ NickFree(k),
             netClient' = [netClient EXCEPT ![m.client] = k], UNCHANGED <<netServer, toUs>>
      PROVE  Live'
  <2>1. Theirs' = Theirs /\ NicksUnique'
    BY <1>3, <1>5, TheirsWith, NicksStayUnique DEF Live
  <2> QED
    BY <1>1, <1>5, <2>1 DEF Live, Found, Clients, IsClient, Ours, vars
<1>6. ASSUME NEW other \in Numeric, Kill(other), UNCHANGED netServer, NicksUnique',
             Theirs' = IF other[1] = Me THEN Theirs ELSE WithClient(Theirs, other, NoNick)
      PROVE  Live'
  <2> DEFINE d == [cmd |-> "D", source |-> Uplink, client |-> other]
  <2>1. d \in MsgD /\ d.source = Uplink /\ d.client = other
    BY Servers DEF MsgD
  <2>2. d \in FromUplink /\ Tell(<<d>>)
    BY <1>6, <2>1 DEF FromUplink, Kill
  <2> HIDE DEF d
  <2>3. Reads(Theirs, d, Theirs')
    BY <1>6, <2>1 DEF Reads
  <2> QED
    BY <1>1, <1>6, <2>2, <2>3, Told
<1>7. CASE ReadN(m)
  <2>1. m.nick \in Nick /\ UNCHANGED <<netServer, netName>>
    BY <1>1, <1>7 DEF ReadN, OwnWritten
  <2>2. CASE NickFree(m.nick) /\ netClient' = [netClient EXCEPT ![m.client] = m.nick]
             /\ UNCHANGED toUs
    BY <1>5, <2>1, <2>2
  <2>3. CASE UNCHANGED <<netClient, toUs>>
    <3>1. Theirs' = Theirs /\ NicksUnique'
      BY <2>1, <2>3 DEF Theirs, Foreigners, Live, NicksUnique
    <3> QED
      BY <1>1, <2>3, <3>1 DEF Live, Found, Clients, IsClient, Ours, vars
  <2>4. ASSUME NEW other \in Numeric, netClient[other] = m.nick, Kill(other),
               netClient' = [netClient EXCEPT ![other] = NoNick, ![m.client] = m.nick]
        PROVE  Live'
    <3>1. NicksUnique'
      BY <1>3, <1>4, <2>1, <2>4, Numerics DEF Live, NicksUnique
    <3>2. Theirs' = IF other[1] = Me THEN Theirs ELSE WithClient(Theirs, other, NoNick)
      <4>1. Theirs' = [srv |-> netServer, cli |-> Foreigners(netClient)']
        BY <2>1 DEF Theirs
      <4>2. Foreigners(netClient)' = [o \in Numeric |-> IF o[1] = Me THEN NoNick ELSE netClient'[o]]
        BY DEF Foreigners
      <4>3. Theirs = [srv |-> netServer, cli |-> Theirs.cli]
        BY DEF Theirs
      <4>4. CASE other[1] = Me
        <5>1. Foreigners(netClient)' = Theirs.cli
          BY <1>3, <1>4, <2>4, <4>2, <4>4, TheirView
        <5> QED
          BY <4>1, <4>3, <4>4, <5>1
      <4>5. CASE other[1] # Me
        <5>1. Foreigners(netClient)' = [Theirs.cli EXCEPT ![other] = NoNick]
          BY <1>3, <1>4, <2>4, <4>2, <4>5, TheirView
        <5> QED
          BY <4>1, <4>5, <5>1, TheirView DEF WithClient
      <4> QED
        BY <4>4, <4>5
    <3> QED
      BY <1>6, <2>1, <2>4, <3>1, <3>2
  <2>5. CASE UNCHANGED netClient /\ Kill(m.client)
    <3>1. Theirs' = Theirs /\ NicksUnique'
      BY <2>1, <2>5 DEF Theirs, Foreigners, Live, NicksUnique
    <3> QED
      BY <1>3, <1>6, <2>1, <2>5, <3>1
  <2> QED
    BY <1>7, <2>2, <2>3, <2>4, <2>5 DEF ReadN
<1>8. CASE ReadQ(m)
  BY <1>5, <1>8 DEF ReadQ
<1> QED
  BY <1>2, <1>7, <1>8

LEMMA NetStepFollowed ==
    ASSUME LinkTypes, Followed, NetStep
    PROVE  Followed'
<1>1. UNCHANGED vars /\ UNCHANGED scene
  BY DEF NetStep
<1>2. ASSUME ~scene.jupe, Live
      PROVE  Live'
  <2>1. CASE \E s \in Remote, u \in Server \ {Me} : NetLink(s, u)
    BY <1>1, <1>2, <2>1, LinkTold
  <2>2. CASE \E s \in Remote \cup FakeServer : NetSplit(s)
    BY <1>1, <1>2, <2>2, SplitTold
  <2>3. CASE NetRead
    BY <1>1, <1>2, <2>3, ReadTold
  <2> QED
    BY <1>1, <1>2, <2>1, <2>2, <2>3, ClientTold DEF NetStep, Foreign
<1> QED
  BY <1>1, <1>2 DEF Followed, vars

-----------------------------------------------------------------------------
(* The tables.                                                             *)
LEMMA OurView ==
    ASSUME LinkTypes, IInv, Live
    PROVE  /\ Ours.srv = serverMap /\ Ours.cli \in [Numeric -> Nick \cup {NoNick}]
           /\ \A n \in Numeric : Ours.cli[n] = IF n[1] = Me THEN NoNick ELSE numericMap[n]
           /\ Sound(Ours)
           /\ \A f \in FakeServer : ~IsServer(f)
<1>1. Ours.srv = serverMap /\ Ours.cli = Foreigners(numericMap)
  BY DEF Ours
<1>2. Sound(Ours)
  BY LeadsAlong DEF LinkTypes, Live
<1> QED
  BY <1>1, <1>2, ForeignersOf DEF IInv, TypeOK, Sound, IsServer

(* Two clients with one nick: our own may have wanted it.                  *)
LEMMA NickHolder ==
    ASSUME LinkTypes, IInv, Live, NEW n \in Clients, NEW o \in Clients,
           numericMap[n] = numericMap[o], numericMap[n] \notin scene.ours
    PROVE  n = o
<1>1. n[1] # Me /\ o[1] # Me /\ n \in Numeric /\ o \in Numeric
  BY DEF Live, Found, Clients
<1>2. numericMap[n] # NoNick
  BY DEF Clients, IsClient
<1> QED
  BY <1>1, <1>2, OurView DEF Sound

LEMMA RemovingFinds ==
    ASSUME LinkTypes, IInv, Live, NEW C \in SUBSET Clients, RemoveClients(C), UNCHANGED scene
    PROVE  Found'
<1>1. Clients' = Clients \ C
  BY DEF Clients, IsClient, RemoveClients
<1>2. \A n \in Clients \ C : numericMap'[n] = numericMap[n]
  BY DEF Clients, RemoveClients
<1>3. ASSUME NEW n \in Clients \ C, numericMap[n] \notin scene.ours
      PROVE  nickMap'[numericMap[n]] = n
  <2>1. numericMap[n] \notin {numericMap[c] : c \in C}
    BY <1>3, NickHolder
  <2>2. numericMap[n] \in Nick /\ nickMap[numericMap[n]] = n
    BY <1>3 DEF Live, Found, Clients, IsClient, IInv, TypeOK
  <2>3. nickMap' = [k \in Nick |-> IF k \in {numericMap[c] : c \in C} THEN NoNumeric ELSE nickMap[k]]
    BY DEF RemoveClients, RemoveNicks
  <2> QED
    BY <2>1, <2>2, <2>3
<1> QED
  BY <1>1, <1>2, <1>3 DEF Found, Live

(* A nick that no client of another server has is that client's to take,   *)
(* when the entry of one of our own is not in the way.                     *)
LEMMA NickTaken ==
    ASSUME LinkTypes, IInv, Live, NEW k \in Nick, Free(Ours, k), k \notin scene.ours
    PROVE  nickMap[k] = NoNumeric
<1> SUFFICES ASSUME nickMap[k] # NoNumeric
             PROVE  FALSE
  OBVIOUS
<1> DEFINE o == nickMap[k]
<1>1. o \in Numeric /\ numericMap[o] = k
  BY DEF IInv, TypeOK, NickMapSound
<1>2. o \in Clients
  BY <1>1, Numerics DEF Clients, IsClient
<1>3. o[1] # Me
  BY <1>1, <1>2 DEF Live, Found
<1> QED
  BY <1>1, <1>3, OurView DEF Free

(* After a message of a server: read, and nobody gone unannounced.         *)
Taken(x) == Ours' = x /\ Found' /\ fakeServerMap' = {} /\ ~crashed'
Announced == \A n \in Clients : numericMap'[n] = NoNick => n \in quits'

LEMMA ReadServer ==
    ASSUME LinkTypes, IInv, Live, UNCHANGED scene, NEW m \in MsgS, NEW x, Reads(Ours, m, x),
           msg_S(m.server, m.uplink)
    PROVE  Taken(x) /\ Announced
<1> DEFINE s == m.server
<1>1. /\ serverMap[s] = NoServer /\ IsServer(m.uplink)
      /\ x = WithServer(Ours, s, m.uplink) /\ s \in Remote
  BY OurView DEF Reads, MsgS, MsgSQ, MsgN, MsgQ, MsgD, IsServer
<1>2. /\ serverMap' = [serverMap EXCEPT ![s] = m.uplink]
      /\ RemoveClients(ClientsOf({s}))
      /\ UNCHANGED <<fakeServerMap, crashed>> /\ Running
  BY <1>1 DEF msg_S
<1>3. ClientsOf({s}) = {}
  BY <1>1 DEF ClientsOf, IInv, ClientServerKnown, IsServer
<1>4. numericMap' = numericMap
  BY <1>2, <1>3 DEF RemoveClients, IInv, TypeOK
<1>5. Found'
  BY <1>2, <1>3, RemovingFinds
<1>6. Ours' = x
  BY <1>1, <1>2, <1>4, OurView DEF Ours, WithServer
<1> QED
  BY <1>2, <1>4, <1>5, <1>6 DEF Taken, Announced, Live, Running, Clients, IsClient

(* What findLeaves() finds.                                                *)
LEMMA LeavesBelow ==
    ASSUME NEW s \in AnyServer
    PROVE  {s} \cup Leaves(s) = Below(serverMap, s)
<1>1. \A X \in SUBSET AnyServer : Closed(serverMap, X) <=> \A y \in X : Children(y) \subseteq X
  BY DEF Closed, Children
<1>2. Closed(serverMap, Below(serverMap, s)) /\ s \in Below(serverMap, s)
      /\ Below(serverMap, s) \in SUBSET AnyServer
  <2>1. s \in Below(serverMap, s) /\ Below(serverMap, s) \in SUBSET AnyServer
    BY DEF Below
  <2>2. ASSUME NEW u \in AnyServer \ {Uplink}, serverMap[u] \in Below(serverMap, s)
        PROVE  u \in Below(serverMap, s)
    <3> SUFFICES ASSUME NEW X \in SUBSET AnyServer, s \in X, Closed(serverMap, X)
                 PROVE  u \in X
      BY DEF Below
    <3>1. serverMap[u] \in X
      BY <2>2 DEF Below
    <3> QED
      BY <3>1 DEF Closed
  <2> QED
    BY <2>1, <2>2 DEF Closed
<1>3. Leaves(s) \subseteq Below(serverMap, s)
  <2>1. Children(s) \subseteq Below(serverMap, s)
    BY <1>2 DEF Closed, Children
  <2>2. \A y \in Below(serverMap, s) : Children(y) \subseteq Below(serverMap, s)
    BY <1>1, <1>2
  <2> QED
    BY <1>2, <2>1, <2>2 DEF Leaves
<1>4. Below(serverMap, s) \subseteq {s} \cup Leaves(s)
  <2>1. {s} \cup Leaves(s) \in SUBSET AnyServer
    BY DEF Leaves
  <2>2. Children(s) \subseteq Leaves(s)
    BY DEF Leaves, Children
  <2>3. \A y \in Leaves(s) : Children(y) \subseteq Leaves(s)
    BY DEF Leaves, Children
  <2>4. Closed(serverMap, {s} \cup Leaves(s))
    BY <1>1, <2>1, <2>2, <2>3
  <2> QED
    BY <2>1, <2>4 DEF Below
<1> QED
  BY <1>2, <1>3, <1>4

LEMMA ReadSplit ==
    ASSUME LinkTypes, IInv, Live, UNCHANGED scene, NEW m \in MsgSQ, NEW x, Reads(Ours, m, x),
           msg_SQ(m.name)
    PROVE  /\ ~crashed' /\ Announced
           /\ lastLoop' \/ Taken(x)
<1> DEFINE s == m.name
<1>1. Running /\ ~crashed'
  BY DEF msg_SQ, Running
<1>2. /\ \/ s = Uplink
         \/ s \in Remote /\ x = Without(Ours, Below(serverMap, s))
      /\ IsServer(s)
  BY OurView, Servers DEF Reads, MsgS, MsgSQ, MsgN, MsgQ, MsgD, IsServer, Sound
<1>3. Named(s) = {s}
  <2>1. s \in AnyServer
    BY <1>2, Servers
  <2> QED
    BY <1>2, <2>1, OurView DEF Named
<1>4. CASE s = Uplink
  <2>1. lastLoop' = TRUE /\ UNCHANGED numericMap
    BY <1>3, <1>4 DEF msg_SQ, clientTables
  <2> QED
    BY <1>1, <2>1 DEF Announced, Clients, IsClient
<1>5. CASE s \in Remote
  <2> DEFINE S == Below(serverMap, s)
  <2>1. s # Uplink /\ s \in AnyServer /\ x = Without(Ours, S)
    BY <1>2, <1>5, Servers
  <2>2. RemoveServers({s} \cup Leaves(s)) /\ quits' = ClientsOf({s} \cup Leaves(s))
    BY <1>3, <2>1 DEF msg_SQ
  <2>3. RemoveServers(S) /\ quits' = ClientsOf(S)
    BY <2>1, <2>2, LeavesBelow
  <2>4. Me \notin S /\ S \subseteq AnyServer
    BY <1>5, OurView, BelowSpares
  <2> HIDE DEF S
  <2>5. /\ serverMap' = [t \in AnyServer |-> IF t \in S THEN NoServer ELSE serverMap[t]]
        /\ RemoveClients(ClientsOf(S)) /\ fakeServerMap' = fakeServerMap \ S
    BY <2>3 DEF RemoveServers
  <2>6. numericMap' = [n \in Numeric |-> IF n[1] \in S THEN NoNick ELSE numericMap[n]]
    BY <2>5 DEF RemoveClients, ClientsOf, Clients, IsClient, IInv, TypeOK
  <2>7. Ours' = x
    <3>1. Foreigners(numericMap)' = [n \in Numeric |-> IF n[1] = Me THEN NoNick ELSE numericMap'[n]]
      BY DEF Foreigners
    <3>2. Foreigners(numericMap)' = [n \in Numeric |-> IF n[1] \in S THEN NoNick ELSE Ours.cli[n]]
      BY <2>4, <2>6, <3>1, OurView
    <3>3. serverMap' = [t \in AnyServer |-> IF t \in S THEN NoServer ELSE Ours.srv[t]]
      BY <2>5, OurView
    <3>4. Ours' = [srv |-> serverMap', cli |-> Foreigners(numericMap)']
      BY DEF Ours
    <3> QED
      BY <2>1, <3>2, <3>3, <3>4 DEF Without
  <2>8. Found'
    BY <2>5, RemovingFinds DEF ClientsOf
  <2>9. Announced
    BY <2>3, <2>6 DEF Announced, Clients, IsClient, ClientsOf
  <2> QED
    BY <1>1, <2>5, <2>7, <2>8, <2>9 DEF Taken, Live
<1> QED
  BY <1>1, <1>2, <1>4, <1>5

(* Our view after a change of one client.                                  *)
LEMMA OursWith ==
    ASSUME LinkTypes, IInv, Live, NEW n \in Numeric, NEW k \in Nick \cup {NoNick},
           numericMap' = [numericMap EXCEPT ![n] = k], UNCHANGED serverMap
    PROVE  Ours' = IF n[1] = Me THEN Ours ELSE WithClient(Ours, n, k)
<1>1. Ours' = [srv |-> serverMap, cli |-> Foreigners(numericMap)']
  BY DEF Ours
<1>2. Foreigners(numericMap)' = [o \in Numeric |-> IF o[1] = Me THEN NoNick ELSE numericMap'[o]]
  BY DEF Foreigners
<1>3. Ours = [srv |-> serverMap, cli |-> Ours.cli]
  BY DEF Ours
<1>4. CASE n[1] = Me
  <2>1. Foreigners(numericMap)' = Ours.cli
    BY <1>2, <1>4, OurView DEF IInv, TypeOK
  <2> QED
    BY <1>1, <1>3, <1>4, <2>1
<1>5. CASE n[1] # Me
  <2>1. Foreigners(numericMap)' = [Ours.cli EXCEPT ![n] = k]
    BY <1>2, <1>5, OurView DEF IInv, TypeOK
  <2> QED
    BY <1>1, <1>5, <2>1, OurView DEF WithClient
<1> QED
  BY <1>4, <1>5

LEMMA ReadSignOn ==
    ASSUME LinkTypes, IInv, Live, UNCHANGED scene, NEW m \in MsgN, m.cmd = "N", NEW x,
           Reads(Ours, m, x), msg_N(m.client, m.nick)
    PROVE  Taken(x) /\ Announced
<1> DEFINE n == m.client
<1> DEFINE k == m.nick
<1>1. n \in Numeric /\ n[1] # Me /\ n[1] \in AnyServer /\ k \in Nick
  BY Numerics DEF MsgN
<1>2. /\ IsServer(n[1]) /\ ~IsClient(n) /\ Free(Ours, k)
      /\ x = WithClient(Ours, n, k)
  BY <1>1, OurView DEF Reads, MsgS, MsgSQ, MsgN, MsgQ, MsgD, IsServer, IsClient
<1>3. /\ AddClient(n, k) /\ Running
      /\ UNCHANGED <<serverMap, fakeServerMap, crashed>>
  BY <1>2 DEF msg_N, serverTables
<1> HIDE DEF n, k
<1>4. /\ numericMap' = [numericMap EXCEPT ![n] = k]
      /\ nickMap' = IF nickMap[k] = NoNumeric THEN [nickMap EXCEPT ![k] = n] ELSE nickMap
  BY <1>3 DEF AddClient, AddNick
<1>5. Ours' = x
  BY <1>1, <1>2, <1>3, <1>4, OursWith
<1>6. Clients' = Clients \cup {n} /\ n \notin Clients
  BY <1>1, <1>2, <1>4, Numerics DEF Clients, IsClient, IInv, TypeOK
<1>7. Found'
  <2>1. \A o \in Clients : numericMap'[o] = numericMap[o]
    BY <1>4, <1>6 DEF IInv, TypeOK, Clients
  <2>2. \A o \in Clients : numericMap[o] \notin scene.ours => nickMap'[numericMap[o]] = o
    <3> SUFFICES ASSUME NEW o \in Clients, numericMap[o] \notin scene.ours
                 PROVE  nickMap'[numericMap[o]] = o
      OBVIOUS
    <3>1. nickMap[numericMap[o]] = o /\ numericMap[o] \in Nick /\ o # NoNumeric
      BY NetworkAssumption DEF Live, Found, IInv, TypeOK, Clients, IsClient
    <3> QED
      BY <1>1, <1>4, <3>1 DEF IInv, TypeOK
  <2>3. k \notin scene.ours => nickMap'[k] = n
    BY <1>1, <1>2, <1>4, NickTaken DEF IInv, TypeOK
  <2>4. numericMap'[n] = k
    BY <1>1, <1>4 DEF IInv, TypeOK
  <2> QED
    BY <1>1, <1>6, <2>1, <2>2, <2>3, <2>4 DEF Found, Live
<1>8. Announced
  BY <1>1, <1>4, Numerics DEF Announced, Clients, IsClient, IInv, TypeOK
<1> QED
  BY <1>3, <1>5, <1>7, <1>8 DEF Taken, Live, Running

LEMMA ReadNick ==
    ASSUME LinkTypes, IInv, Live, UNCHANGED scene, NEW m \in MsgN, m.cmd = "NICK", NEW x,
           Reads(Ours, m, x), msg_N_change(m.client, m.nick)
    PROVE  Taken(x) /\ Announced
<1> DEFINE n == m.client
<1> DEFINE k == m.nick
<1>1. n \in Numeric /\ n[1] # Me /\ n[1] \in AnyServer /\ k \in Nick
  BY Numerics DEF MsgN
<1>2. IsClient(n) /\ Free(Ours, k) /\ x = WithClient(Ours, n, k)
  BY <1>1, OurView DEF Reads, MsgS, MsgSQ, MsgN, MsgQ, MsgD, IsClient
<1>3. n \in Clients /\ IsServer(n[1])
  BY <1>1, <1>2 DEF Clients, IInv, ClientServerKnown
<1> DEFINE map == RemoveNicks({numericMap[n]}, nickMap)
<1>4. /\ numericMap' = [numericMap EXCEPT ![n] = k]
      /\ nickMap' = AddNick(k, n, map) /\ Running
      /\ UNCHANGED <<serverMap, fakeServerMap, crashed>>
  BY <1>2, <1>3 DEF msg_N_change, serverTables
<1>5. /\ map \in [Nick -> Numeric \cup {NoNumeric}]
      /\ \A j \in Nick : map[j] = IF j = numericMap[n] THEN NoNumeric ELSE nickMap[j]
  BY DEF RemoveNicks, IInv, TypeOK
<1> HIDE DEF n, k, map
<1>6. nickMap' = IF map[k] = NoNumeric THEN [map EXCEPT ![k] = n] ELSE map
  BY <1>4 DEF AddNick
<1>7. Ours' = x
  BY <1>1, <1>2, <1>4, OursWith
<1>8. Clients' = Clients
  BY <1>1, <1>2, <1>4, Numerics DEF Clients, IsClient, IInv, TypeOK
<1>9. Found'
  <2>1. \A o \in Clients \ {n} : numericMap'[o] = numericMap[o]
    BY <1>4 DEF IInv, TypeOK, Clients
  <2>2. \A o \in Clients \ {n} : numericMap[o] \notin scene.ours => nickMap'[numericMap[o]] = o
    <3> SUFFICES ASSUME NEW o \in Clients \ {n}, numericMap[o] \notin scene.ours
                 PROVE  nickMap'[numericMap[o]] = o
      OBVIOUS
    <3>1. nickMap[numericMap[o]] = o /\ numericMap[o] \in Nick /\ o # NoNumeric
      BY NetworkAssumption DEF Live, Found, IInv, TypeOK, Clients, IsClient
    <3>2. numericMap[o] # numericMap[n]
      BY <1>3, NickHolder
    <3>3. map[numericMap[o]] = o
      BY <1>5, <3>1, <3>2
    <3> QED
      BY <1>1, <1>5, <1>6, <3>1, <3>3
  <2>3. k \notin scene.ours => nickMap'[k] = n
    BY <1>1, <1>2, <1>5, <1>6, NickTaken
  <2>4. numericMap'[n] = k
    BY <1>1, <1>4 DEF IInv, TypeOK
  <2> QED
    BY <1>1, <1>8, <2>1, <2>2, <2>3, <2>4 DEF Found, Live
<1>10. Announced
  BY <1>1, <1>4, Numerics DEF Announced, Clients, IsClient, IInv, TypeOK
<1> QED
  BY <1>4, <1>7, <1>9, <1>10 DEF Taken, Live, Running

(* Clients that are removed with an event.                                 *)
LEMMA RemovedTaken ==
    ASSUME LinkTypes, IInv, Live, UNCHANGED <<scene, serverMap, fakeServerMap, crashed>>, ~crashed,
           NEW n \in Numeric, NEW C \in SUBSET ({n} \cap Clients), RemoveClients(C), quits' = C,
           n[1] # Me => C = {n} \cap Clients
    PROVE  Taken(IF n[1] = Me THEN Ours ELSE WithClient(Ours, n, NoNick)) /\ Announced
<1>1. numericMap' = [o \in Numeric |-> IF o \in C THEN NoNick ELSE numericMap[o]]
  BY DEF RemoveClients
<1>2. Found'
  BY RemovingFinds
<1>3. Announced
  BY <1>1 DEF Announced, Clients, IsClient
<1>4. Ours' = IF n[1] = Me THEN Ours ELSE WithClient(Ours, n, NoNick)
  <2>1. CASE C = {n} \cap Clients
    <3>1. numericMap' = [numericMap EXCEPT ![n] = NoNick]
      BY <1>1, <2>1 DEF IInv, TypeOK, Clients, IsClient
    <3> QED
      BY <3>1, OursWith
  <2>2. CASE C = {}
    <3>1. numericMap' = numericMap
      BY <1>1, <2>2 DEF IInv, TypeOK
    <3>2. Ours' = Ours
      BY <3>1 DEF Ours, Foreigners
    <3>3. n[1] # Me => C = {n} \cap Clients
      OBVIOUS
    <3> QED
      BY <2>1, <2>2, <3>2, <3>3
  <2> QED
    BY <2>1, <2>2
<1> QED
  BY <1>2, <1>3, <1>4 DEF Taken, Live

LEMMA ReadQuit ==
    ASSUME LinkTypes, IInv, Live, UNCHANGED scene, NEW m \in MsgQ, NEW x,
           Reads(Ours, m, x), msg_Q(m.client)
    PROVE  Taken(x) /\ Announced
<1>1. m.client \in Numeric /\ m.client[1] # Me
  BY Numerics DEF MsgQ
<1>2. x = WithClient(Ours, m.client, NoNick)
  BY DEF Reads, MsgS, MsgSQ, MsgN, MsgQ, MsgD
<1>3. /\ RemoveClients({m.client} \cap Clients) /\ quits' = {m.client} \cap Clients
      /\ UNCHANGED <<serverMap, fakeServerMap, crashed>> /\ ~crashed
  BY DEF msg_Q, Removed, serverTables, Running
<1> QED
  BY <1>1, <1>2, <1>3, RemovedTaken

LEMMA ReadKill ==
    ASSUME LinkTypes, IInv, Live, UNCHANGED scene, NEW m \in MsgD, NEW x,
           Reads(Ours, m, x), msg_D(m.source, m.client)
    PROVE  Taken(x) /\ Announced
<1> DEFINE n == m.client
<1> DEFINE C == IF n \notin localClients /\ IsSource(m.source) THEN {n} \cap Clients ELSE {}
<1>1. n \in Numeric
  BY DEF MsgD
<1>2. x = IF n[1] = Me THEN Ours ELSE WithClient(Ours, n, NoNick)
  BY DEF Reads, MsgS, MsgSQ, MsgN, MsgQ, MsgD
<1>3. n[1] # Me => C = {n} \cap Clients
  <2> SUFFICES ASSUME n[1] # Me
               PROVE  n \notin localClients /\ IsSource(m.source)
    OBVIOUS
  <2>1. n \notin localClients
    BY DEF IInv, XClientsApart
  <2>2. m.source = Uplink \/ (m.source \in Numeric /\ Ours.cli[m.source] # NoNick)
    BY DEF Reads, MsgS, MsgSQ, MsgN, MsgQ, MsgD
  <2>3. IsServer(Uplink)
    BY OurView, Servers DEF Sound, IsServer
  <2> QED
    BY <2>1, <2>2, <2>3, OurView, Servers DEF IsSource, IsClient
<1>4. /\ RemoveClients(C) /\ quits' = C
      /\ UNCHANGED <<serverMap, fakeServerMap, crashed>> /\ ~crashed
  BY DEF msg_D, Removed, serverTables, Running
<1>5. C \in SUBSET ({n} \cap Clients)
  OBVIOUS
<1> HIDE DEF C, n
<1> QED
  BY <1>1, <1>2, <1>3, <1>4, <1>5, RemovedTaken

LEMMA OnReadFollowed ==
    ASSUME LinkTypes, IInv, Followed, ~scene.jupe, OnRead
    PROVE  Followed' /\ Announced
<1> DEFINE m == Head(toUs)
<1>1. /\ toUs # <<>> /\ toUs' = Tail(toUs) /\ Handle(m)
      /\ UNCHANGED <<netServer, netName, netClient, fromUs, scene>>
  BY DEF OnRead
<1>2. toUs \in Seq(FromUplink) /\ m \in FromUplink
  BY <1>1, Reading DEF LinkTypes
<1>3. Live
  <2>1. Running
    BY <1>1 DEF Handle, msg_S, msg_SQ, msg_N, msg_N_change, msg_Q, msg_D
  <2> QED
    BY <2>1 DEF Followed, Running
<1>4. Theirs' = Theirs
  BY <1>1 DEF Theirs, Foreigners
<1>5. PICK x \in View : Reads(Ours, m, x) /\ Leads(Tail(toUs), x, Theirs)
  <2> HIDE DEF FromUplink
  <2> QED
    BY <1>1, <1>2, <1>3, LeadsFirst DEF Live
<1> HIDE DEF m
<1>6. ~crashed' /\ Announced /\ (lastLoop' \/ Taken(x))
  <2>1. CASE m.cmd = "S"
    <3>1. m \in MsgS /\ msg_S(m.server, m.uplink)
      BY <1>1, <1>2, <2>1 DEF Handle, FromUplink, MsgS, MsgSQ, MsgN, MsgQ, MsgD
    <3> QED
      BY <1>1, <1>3, <1>5, <3>1, ReadServer DEF Taken
  <2>2. CASE m.cmd = "SQ"
    <3>1. m \in MsgSQ /\ msg_SQ(m.name)
      BY <1>1, <1>2, <2>2 DEF Handle, FromUplink, MsgS, MsgSQ, MsgN, MsgQ, MsgD
    <3> QED
      BY <1>1, <1>3, <1>5, <3>1, ReadSplit
  <2>3. CASE m.cmd = "N"
    <3>1. m \in MsgN /\ msg_N(m.client, m.nick)
      BY <1>1, <1>2, <2>3 DEF Handle, FromUplink, MsgS, MsgSQ, MsgN, MsgQ, MsgD
    <3> QED
      BY <1>1, <1>3, <1>5, <2>3, <3>1, ReadSignOn DEF Taken
  <2>4. CASE m.cmd = "NICK"
    <3>1. m \in MsgN /\ msg_N_change(m.client, m.nick)
      BY <1>1, <1>2, <2>4 DEF Handle, FromUplink, MsgS, MsgSQ, MsgN, MsgQ, MsgD
    <3> QED
      BY <1>1, <1>3, <1>5, <2>4, <3>1, ReadNick DEF Taken
  <2>5. CASE m.cmd = "Q"
    <3>1. m \in MsgQ /\ msg_Q(m.client)
      BY <1>1, <1>2, <2>5 DEF Handle, FromUplink, MsgS, MsgSQ, MsgN, MsgQ, MsgD
    <3> QED
      BY <1>1, <1>3, <1>5, <3>1, ReadQuit DEF Taken
  <2>6. CASE m.cmd = "D"
    <3>1. m \in MsgD /\ msg_D(m.source, m.client)
      BY <1>1, <1>2, <2>6 DEF Handle, FromUplink, MsgS, MsgSQ, MsgN, MsgQ, MsgD
    <3> QED
      BY <1>1, <1>3, <1>5, <3>1, ReadKill DEF Taken
  <2> QED
    BY <1>1, <2>1, <2>2, <2>3, <2>4, <2>5, <2>6 DEF Handle
<1>7. Taken(x) => Live'
  <2>1. NicksUnique'
    BY <1>1, <1>3 DEF Live, NicksUnique
  <2> QED
    BY <1>1, <1>3, <1>4, <1>5, <2>1 DEF Live, Taken
<1> QED
  BY <1>6, <1>7 DEF Followed

(* Our clients come and go; those of other servers and their nicks stay.   *)
LEMMA OurStepFollowed ==
    ASSUME LinkTypes, IInv, Followed, ~scene.jupe, OurStep
    PROVE  Followed' /\ Announced
<1>1. Running
  BY DEF OurStep, AttachClient, AttachFakeClient, DetachClient, DetachFakeClient,
     AttachServer, DetachServer
<1>2. Live
  BY <1>1 DEF Followed, Running
<1>3. ASSUME NEW msg \in OwnWritten, Write(<<msg>>), Ours' = Ours, fakeServerMap' = {}, Found',
             ~crashed', Announced
      PROVE  Followed' /\ Announced
  <2>1. /\ fromUs' = fromUs \o <<msg>> /\ UNCHANGED <<netServer, netClient, toUs, scene>>
    BY <1>3 DEF Write
  <2>2. fromUs' \in Seq(OwnWritten)
    <3>1. fromUs \in Seq(OwnWritten)
      BY <1>2 DEF Live
    <3> HIDE DEF OwnWritten
    <3> QED
      BY <1>3, <2>1, <3>1, Sending
  <2>3. Theirs' = Theirs /\ NicksUnique'
    BY <1>2, <2>1 DEF Theirs, Foreigners, Live, NicksUnique
  <2>4. Live'
    BY <1>2, <1>3, <2>1, <2>2, <2>3 DEF Live
  <2> QED
    BY <1>3, <2>4 DEF Followed
<1>4. ASSUME NEW n \in Numeric, NEW k \in scene.ours,
             AttachClient(n, k) \/ AttachFakeClient(n, k), Write(<<NMsg(n, k)>>)
      PROVE  Followed' /\ Announced
  <2>1. /\ n[1] = Me /\ ~IsClient(n) /\ AddClient(n, k)
        /\ UNCHANGED <<serverMap, fakeServerMap, crashed>>
    BY <1>2, <1>4 DEF AttachClient, AttachFakeClient, serverTables, Live
  <2>2. k \in Nick /\ UNCHANGED scene
    BY <1>4 DEF LinkTypes, Write
  <2>3. NMsg(n, k) \in OwnWritten
    BY <2>1, <2>2 DEF NMsg, OwnWritten, Own, Numeric
  <2>4. /\ numericMap' = [numericMap EXCEPT ![n] = k]
        /\ nickMap' = IF nickMap[k] = NoNumeric THEN [nickMap EXCEPT ![k] = n] ELSE nickMap
    BY <2>1 DEF AddClient, AddNick
  <2>5. Ours' = Ours
    BY <1>2, <2>1, <2>2, <2>4, OursWith
  <2>6. Found'
    <3>1. Clients' = Clients \cup {n} /\ n \notin Clients
      BY <2>1, <2>2, <2>4, Numerics DEF Clients, IsClient, IInv, TypeOK
    <3>2. numericMap'[n] = k /\ \A o \in Clients : numericMap'[o] = numericMap[o]
      BY <2>4, <3>1 DEF IInv, TypeOK, Clients
    <3>3. \A j \in Nick \ {k} : nickMap'[j] = nickMap[j]
      BY <2>4 DEF IInv, TypeOK
    <3>4. \A o \in Clients : numericMap[o] \in Nick
      BY DEF Clients, IsClient, IInv, TypeOK
    <3> QED
      BY <1>2, <2>1, <2>2, <3>1, <3>2, <3>3, <3>4 DEF Live, Found
  <2>7. Announced
    BY <2>2, <2>4, Numerics DEF Announced, Clients, IsClient, IInv, TypeOK
  <2> QED
    BY <1>1, <1>2, <1>3, <1>4, <2>1, <2>3, <2>5, <2>6, <2>7 DEF Live, Running
<1>5. ASSUME NEW n \in OwnClients, n \in Clients, n[1] = Me, RemoveClients({n}), quits' = {n},
             UNCHANGED <<serverMap, fakeServerMap, crashed>>, Write(<<QMsg(n)>>)
      PROVE  Followed' /\ Announced
  <2>1. n \in Numeric /\ {n} \in SUBSET ({n} \cap Clients) /\ UNCHANGED scene
    BY <1>5 DEF Clients, Write
  <2>2. Taken(Ours) /\ Announced
    BY <1>1, <1>2, <1>5, <2>1, RemovedTaken DEF Running
  <2>3. QMsg(n) \in OwnWritten
    BY <1>5, <2>1 DEF QMsg, OwnWritten, Own, Numeric
  <2> QED
    BY <1>3, <1>5, <2>2, <2>3 DEF Taken
<1>6. \A n \in OwnClients : n \in Clients /\ n[1] = Me
  BY <1>2 DEF IInv, ReservedInUse, XClientsApart, FakeServersReserved, OwnClients, Live
<1>7. ASSUME NEW n \in localClients, DetachClient(n, {}), Write(<<QMsg(n)>>)
      PROVE  Followed' /\ Announced
  <2>1. /\ RemoveClients({n} \cup {}) /\ quits' = {n} \cup {}
        /\ UNCHANGED <<serverMap, fakeServerMap, crashed>>
    BY <1>7 DEF DetachClient, serverTables
  <2>2. {n} \cup {} = {n} /\ n \in OwnClients
    BY DEF OwnClients
  <2>3. RemoveClients({n}) /\ quits' = {n}
    BY <2>1, <2>2
  <2> QED
    BY <1>5, <1>6, <1>7, <2>1, <2>2, <2>3
<1>8. ASSUME NEW n \in fakeClientMap, DetachFakeClient(n), Write(<<QMsg(n)>>)
      PROVE  Followed' /\ Announced
  <2>1. /\ RemoveClients({n}) /\ quits' = {n}
        /\ UNCHANGED <<serverMap, fakeServerMap, crashed>>
    BY <1>8 DEF DetachFakeClient, Removed, serverTables
  <2>2. n \in OwnClients
    BY DEF OwnClients
  <2> QED
    BY <1>5, <1>6, <1>8, <2>1, <2>2
<1> QED
  BY <1>4, <1>7, <1>8 DEF OurStep

-----------------------------------------------------------------------------
LEMMA InitFollowed == P10Init => Followed
<1> SUFFICES ASSUME P10Init
             PROVE  Followed
  OBVIOUS
<1>1. /\ Init /\ netServer = serverMap /\ netClient = numericMap
      /\ toUs = <<>> /\ fromUs = <<>>
  BY DEF P10Init
<1>2. /\ serverMap = [s \in AnyServer |-> IF s \in {Me, Uplink} THEN Uplink ELSE NoServer]
      /\ numericMap = [n \in Numeric |-> NoNick]
      /\ fakeServerMap = {} /\ ~crashed
  BY <1>1 DEF Init
<1>3. Theirs = Ours
  BY <1>1 DEF Theirs, Ours
<1>4. Ours.srv = serverMap /\ Ours.cli = [n \in Numeric |-> NoNick]
      /\ Ours = [srv |-> Ours.srv, cli |-> Ours.cli]
  BY <1>2 DEF Ours, Foreigners
<1>5. Ours \in View
  BY <1>2, <1>4, Servers DEF View
<1>6. Sound(Ours)
  BY <1>2, <1>4, <1>5, Servers DEF Sound
<1>7. Leads(toUs, Ours, Theirs)
  BY <1>1, <1>3, <1>6, LeadsNowhere
<1>8. NicksUnique /\ Found
  BY <1>1, <1>2 DEF NicksUnique, Found, Clients, IsClient
<1>9. fromUs \in Seq(OwnWritten)
  BY <1>1
<1> QED
  BY <1>2, <1>7, <1>8, <1>9 DEF Followed, Live

LEMMA StepFollowed ==
    ASSUME LinkTypes, IInv, Followed, [P10Next]_allVars
    PROVE  /\ Followed'
           /\ ~scene.jupe => Announced \/ UNCHANGED allVars
<1>1. CASE NetStep
  <2>1. Announced
    BY <1>1 DEF NetStep, vars, Announced, Clients, IsClient
  <2> QED
    BY <1>1, <2>1, NetStepFollowed
<1>2. CASE (OnRead \/ OurStep) /\ ~scene.jupe
  BY <1>2, OnReadFollowed, OurStepFollowed
<1>3. CASE (OnRead \/ OurStep) /\ scene.jupe
  <2>1. UNCHANGED scene
    BY <1>3 DEF OnRead, OurStep, Write
  <2> QED
    BY <1>3, <2>1 DEF Followed
<1>4. CASE UNCHANGED allVars
  <2>1. UNCHANGED vars /\ UNCHANGED netVars
    BY <1>4 DEF allVars
  <2>2. UNCHANGED <<serverMap, fakeServerMap, numericMap, nickMap, lastLoop, crashed>>
    BY <2>1 DEF vars
  <2>3. UNCHANGED <<netServer, netClient, toUs, fromUs, scene>>
    BY <2>1 DEF netVars
  <2> QED
    BY <1>4, <2>2, <2>3 DEF Followed, Live, Ours, Theirs, Foreigners, NicksUnique, Found,
       Clients, IsClient
<1> QED
  BY <1>1, <1>2, <1>3, <1>4 DEF P10Next

LEMMA FollowedAlways == P10Spec => [](LinkTypes /\ IInv /\ Followed)
<1>1. P10Init => LinkTypes /\ IInv /\ Followed
  BY InitLink, InitFollowed
<1>2. LinkTypes /\ IInv /\ Followed /\ [P10Next]_allVars => (LinkTypes /\ IInv /\ Followed)'
  BY StepAllowed, StepFollowed
<1> QED
  BY <1>1, <1>2, PTL DEF P10Spec

LEMMA FollowedMirrors ==
    ASSUME LinkTypes, IInv, Followed, ~scene.jupe
    PROVE  Mirror
<1>1. NoNullDereference
  BY DEF Followed, NoNullDereference
<1>2. ASSUME Quiet
      PROVE  /\ serverMap = netServer
             /\ \A n \in Others : numericMap[n] = netClient[n]
             /\ \A n \in Clients : numericMap[n] \in scene.ours \/ nickMap[numericMap[n]] = n
  <2>1. Live /\ toUs = <<>>
    BY <1>2 DEF Followed, Quiet, Running
  <2>2. Ours = Theirs
    BY <2>1, LeadsAlong DEF Live, LinkTypes
  <2>3. \A n \in Others : n \in Numeric /\ n[1] # Me
    BY DEF Others
  <2> QED
    BY <2>1, <2>2, <2>3, OurView, TheirView DEF Live, Found
<1>3. Server \subseteq AnyServer
  BY Servers
<1> QED
  BY <1>1, <1>2, <1>3 DEF Mirror

(* Without jupes the tables are the network as soon as all is read, no     *)
(* handler uses a null pointer, and findNick() finds every client, unless  *)
(* one of our own may have wanted its nick: through any netsplits,         *)
(* collisions, kills and crossing messages.                                *)
THEOREM TablesMirrorNetwork == P10Spec => [](~scene.jupe => Mirror)
<1>1. LinkTypes /\ IInv /\ Followed => (~scene.jupe => Mirror)
  BY FollowedMirrors
<1> QED
  BY <1>1, FollowedAlways, PTL

(* No client of another server leaves the tables without EVT_QUIT or       *)
(* EVT_KILL.                                                               *)
THEOREM RemovalAnnounced == P10Spec => RemovalIsAnnounced
<1>1. LinkTypes /\ IInv /\ Followed /\ [P10Next]_allVars =>
        [~scene.jupe => \A n \in Clients : numericMap'[n] = NoNick /\ n[1] \in Server
                => n \in quits']_allVars
  BY StepFollowed DEF Announced
<1> QED
  BY <1>1, FollowedAlways, PTL DEF P10Spec, RemovalIsAnnounced
=============================================================================
