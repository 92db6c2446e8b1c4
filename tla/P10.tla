-------------------------------- MODULE P10 --------------------------------
(***************************************************************************)
(* xNetwork at the end of its link: Network composed with the uplink that  *)
(* sends the messages.  The uplink is external; its view of the network is *)
(* netServer and netClient.  It sends a message for every change of the    *)
(* view and handles what this server sends.  Both directions of the link   *)
(* are FIFO, so a message of the one side can cross one of the other.      *)
(***************************************************************************)
EXTENDS Network, FiniteSets, Sequences

CONSTANTS
    MaxLink,    \* bound: messages under way in each direction
    Scene       \* bound: what may happen, one of:
                \*  jupe: do our clients call AttachServer() and DetachServer()?
                \*  kill: do operators kill clients and squit our fake servers?
                \*  ours, others: nicks our clients and other clients take

ASSUME P10Assumption ==
    /\ MaxLink \in Nat
    /\ Scene \subseteq [jupe : BOOLEAN, kill : BOOLEAN,
                        ours : SUBSET Nick, others : SUBSET Nick]

VARIABLES
    netServer,  \* the uplink of each server on the network, or NoServer
    netName,    \* the name each juped server holds, or NoServer
    netClient,  \* the nick of each client on the network, or NoNick
    toUs,       \* messages sent by the uplink and not yet read
    fromUs,     \* messages written by this server and not yet read
    scene

netVars == <<netServer, netName, netClient, toUs, fromUs, scene>>
allVars == <<vars, netVars>>

P10Init ==
    /\ Init
    /\ netServer = serverMap /\ netName = serverName
    /\ netClient = numericMap
    /\ toUs = <<>> /\ fromUs = <<>>
    /\ scene \in Scene

-----------------------------------------------------------------------------
(* The uplink.                                                             *)
Linked(s) == netServer[s] # NoServer
Online(n) == netClient[n] # NoNick
NickFree(k) == \A n \in Numeric : netClient[n] # k

(* What is lost with s, by the uplink's view of the network.               *)
Behind(s) ==
    {t \in AnyServer :
        \A X \in SUBSET AnyServer :
            s \in X /\ (\A u \in AnyServer \ {Uplink} :
                            netServer[u] \in X => u \in X)
                => t \in X}

NMsg(n, k) == [cmd |-> "N", client |-> n, nick |-> k]
QMsg(n) == [cmd |-> "Q", client |-> n]
SQMsg(name) == [cmd |-> "SQ", name |-> name]

Room == Len(toUs) < MaxLink
Tell(msgs) == toUs' = toUs \o msgs

Lose(S) ==
    /\ netServer' = [s \in AnyServer |-> IF s \in S THEN NoServer
                                                     ELSE netServer[s]]
    /\ netClient' = [n \in Numeric |-> IF n[1] \in S THEN NoNick
                                                      ELSE netClient[n]]
    /\ netName' = [f \in FakeServer |-> IF f \in S THEN NoServer
                                                   ELSE netName[f]]

(* The name of a server; that of a real one stands for its numeric too.    *)
NameIn(names, s) == IF s \in FakeServer THEN names[s] ELSE s

(* A server links behind another one; a juped name cannot link.  An SQ of  *)
(* ours for an earlier link of it, still on its way, has the start time of *)
(* that link and will be ignored.                                          *)
NetLink(s, u) ==
    /\ Room /\ ~Linked(s) /\ Linked(u)
    /\ \A f \in FakeServer : Linked(f) => netName[f] # s
    /\ netServer' = [netServer EXCEPT ![s] = u]
    /\ Tell(<<[cmd |-> "S", server |-> s, uplink |-> u]>>)
    /\ fromUs' = [i \in DOMAIN fromUs |->
            IF fromUs[i] = SQMsg(s) THEN SQMsg(NoServer) ELSE fromUs[i]]
    /\ UNCHANGED <<netName, netClient>>

NetSplit(s) ==
    /\ Room /\ Linked(s)
    /\ Lose(Behind(s))
    /\ Tell(<<SQMsg(NameIn(netName, s))>>)
    /\ UNCHANGED fromUs

NetSignOn(n, k) ==
    /\ Room /\ Linked(n[1]) /\ ~Online(n) /\ NickFree(k)
    /\ netClient' = [netClient EXCEPT ![n] = k]
    /\ Tell(<<NMsg(n, k)>>)
    /\ UNCHANGED <<netServer, netName, fromUs>>

NetChangeNick(n, k) ==
    /\ Room /\ Online(n) /\ NickFree(k)
    /\ netClient' = [netClient EXCEPT ![n] = k]
    /\ Tell(<<[cmd |-> "NICK", client |-> n, nick |-> k]>>)
    /\ UNCHANGED <<netServer, netName, fromUs>>

NetQuit(n) ==
    /\ Room /\ Online(n)
    /\ netClient' = [netClient EXCEPT ![n] = NoNick]
    /\ Tell(<<QMsg(n)>>)
    /\ UNCHANGED <<netServer, netName, fromUs>>

(* A client, ours included, is killed by a client of another server.       *)
NetKill(source, n) ==
    /\ Room /\ Online(source) /\ Online(n) /\ source # n
    /\ netClient' = [netClient EXCEPT ![n] = NoNick]
    /\ Tell(<<[cmd |-> "D", source |-> source, client |-> n]>>)
    /\ UNCHANGED <<netServer, netName, fromUs>>

(* Our uplink squits us: the link is about to be closed.                   *)
NetSquitUs ==
    /\ Room
    /\ Tell(<<SQMsg(Uplink)>>)
    /\ UNCHANGED <<netServer, netName, netClient, fromUs>>

(* The uplink reads a message of ours.  A juped name that is linked is     *)
(* squit; of two clients with one nick it kills one and tells us.          *)
ReadS(m) ==
    /\ m.cmd = "S"
    /\ LET S == IF Linked(m.name) THEN Behind(m.name) ELSE {} IN
       /\ netServer' = [s \in AnyServer |->
                IF s = m.server THEN Me
                ELSE IF s \in S THEN NoServer ELSE netServer[s]]
       /\ netClient' = [n \in Numeric |-> IF n[1] \in S THEN NoNick
                                                        ELSE netClient[n]]
       /\ Tell(IF S = {} THEN <<>> ELSE <<SQMsg(m.name)>>)
    /\ netName' = [netName EXCEPT ![m.server] = m.name]

ReadSQ(m) ==
    /\ m.cmd = "SQ"
    /\ Lose(UNION {Behind(s) : s \in {t \in AnyServer :
                        Linked(t) /\ NameIn(netName, t) = m.name}})
    /\ UNCHANGED toUs

Kill(n) == Tell(<<[cmd |-> "D", source |-> Uplink, client |-> n]>>)

ReadN(m) ==
    /\ m.cmd = "N"
    /\ \/ /\ Linked(m.client[1]) /\ NickFree(m.nick)
          /\ netClient' = [netClient EXCEPT ![m.client] = m.nick]
          /\ UNCHANGED toUs
       \/ /\ ~Linked(m.client[1])
          /\ UNCHANGED <<netClient, toUs>>
       \/ /\ Linked(m.client[1])
          /\ \E other \in Numeric :
                /\ netClient[other] = m.nick
                /\ netClient' = [netClient EXCEPT ![other] = NoNick,
                                                  ![m.client] = m.nick]
                /\ Kill(other)
       \/ /\ Linked(m.client[1]) /\ ~NickFree(m.nick)
          /\ UNCHANGED netClient /\ Kill(m.client)
    /\ UNCHANGED <<netServer, netName>>

ReadQ(m) ==
    /\ m.cmd = "Q"
    /\ netClient' = [netClient EXCEPT ![m.client] = NoNick]
    /\ UNCHANGED <<netServer, netName, toUs>>

NetRead ==
    /\ fromUs # <<>> /\ Room
    /\ LET m == Head(fromUs) IN ReadS(m) \/ ReadSQ(m) \/ ReadN(m) \/ ReadQ(m)
    /\ fromUs' = Tail(fromUs)

NetStep ==
    /\ \/ \E s \in Remote, u \in Server \ {Me} : NetLink(s, u)
       \/ \E s \in Remote : NetSplit(s)
       \/ scene.kill /\ \E f \in FakeServer : NetSplit(f)
       \/ NetSquitUs
       \/ \E n \in (Server \ {Me}) \X Slot, k \in scene.others :
            NetSignOn(n, k) \/ NetChangeNick(n, k)
       \/ \E n \in (Server \ {Me}) \X Slot : NetQuit(n)
       \/ /\ scene.kill
          /\ \E source \in (Server \ {Me}) \X Slot, n \in Numeric :
                NetKill(source, n)
       \/ NetRead
    /\ UNCHANGED <<vars, scene>>

-----------------------------------------------------------------------------
(* Mutant: every new server is taken for one linked to this server.        *)
HandleBehindUs(m) ==
    \/ m.cmd = "S" /\ msg_S(m.server, Me)
    \/ m.cmd = "SQ" /\ msg_SQ(m.name)
    \/ m.cmd = "N" /\ msg_N(m.client, m.nick)
    \/ m.cmd = "NICK" /\ msg_N_change(m.client, m.nick)
    \/ m.cmd = "Q" /\ msg_Q(m.client)
    \/ m.cmd = "D" /\ msg_D(m.source, m.client)

(* OnRead(): the next message is handed to its handler.                    *)
Handle(m) ==
    \/ m.cmd = "S" /\ msg_S(m.server, m.uplink)
    \/ m.cmd = "SQ" /\ msg_SQ(m.name)
    \/ m.cmd = "N" /\ msg_N(m.client, m.nick)
    \/ m.cmd = "NICK" /\ msg_N_change(m.client, m.nick)
    \/ m.cmd = "Q" /\ msg_Q(m.client)
    \/ m.cmd = "D" /\ msg_D(m.source, m.client)

OnRead ==
    /\ toUs # <<>>
    /\ Handle(Head(toUs))
    /\ toUs' = Tail(toUs)
    /\ UNCHANGED <<netServer, netName, netClient, fromUs, scene>>

(* What our clients do, and what is written for it.                        *)
Write(msgs) ==
    /\ Len(fromUs) + Len(msgs) <= MaxLink
    /\ fromUs' = fromUs \o msgs
    /\ UNCHANGED <<netServer, netName, netClient, toUs, scene>>

OurStep ==
    \/ \E n \in Numeric, k \in scene.ours :
          (AttachClient(n, k) \/ AttachFakeClient(n, k)) /\ Write(<<NMsg(n, k)>>)
    \/ \E n \in localClients : DetachClient(n, {}) /\ Write(<<QMsg(n)>>)
    \/ \E n \in fakeClientMap : DetachFakeClient(n) /\ Write(<<QMsg(n)>>)
    \/ /\ scene.jupe
       /\ \E name \in Remote, s \in AnyServer \cup {NoServer}, f \in FakeServer :
            /\ AttachServer(name, s, f)
            /\ Write((IF s = NoServer THEN <<>> ELSE <<SQMsg(NameIn(serverName, s))>>)
                     \o (IF Named(name) \subseteq {s}
                         THEN <<[cmd |-> "S", server |-> f, name |-> name]>>
                         ELSE <<>>))
    \/ /\ scene.jupe
       /\ \E f \in FakeServer :
            DetachServer(f) /\ Write(<<SQMsg(serverName[f])>>)

P10Next == NetStep \/ OnRead \/ OurStep
P10Spec == P10Init /\ [][P10Next]_allVars

-----------------------------------------------------------------------------
Quiet == toUs = <<>> /\ fromUs = <<>> /\ Running

Others == {n \in Numeric : n[1] # Me}

(* No handler uses a null pointer.  (With jupes, msg_N may, for a client   *)
(* of the juped server.)                                                   *)
NoNullDereference == ~crashed

(* When nothing is under way, nothing the uplink has announced is missing  *)
(* in the tables.  Jupes leave the servers behind the juped one in them,   *)
(* and those make way for who takes their numeric next.  Without jupes the *)
(* tables hold the network as the uplink knows it, no server or client of  *)
(* another server too many, and findNick() finds every client, unless one  *)
(* of our own may have wanted its nick.                                    *)
Mirror ==
    /\ ~scene.jupe => NoNullDereference
    /\ Quiet =>
        /\ \A s \in Server : Linked(s) => serverMap[s] = netServer[s]
        /\ \A n \in Others : Online(n) => numericMap[n] = netClient[n]
    /\ Quiet /\ ~scene.jupe =>
        /\ serverMap = netServer
        /\ \A n \in Others : numericMap[n] = netClient[n]
        /\ \A n \in Clients :
                numericMap[n] \in scene.ours \/ nickMap[numericMap[n]] = n

(* Every step is one Network allows: the messages of a network that is not *)
(* broken reach the handlers only in states module Network gives them.     *)
(* (Spec of Network, with the steps of the others sorted out first.)       *)
NetworkSpec == Init /\ [][UNCHANGED vars \/ Next]_vars

(* A client of another server never leaves the tables without EVT_QUIT or  *)
(* EVT_KILL: the modules release what they keep about it on these events.  *)
(* (With jupes one does: a leftover whose server links again.)             *)
RemovalIsAnnounced ==
    [][~scene.jupe => \A n \in Clients : numericMap'[n] = NoNick /\ n[1] \in Server
            => n \in quits']_allVars
=============================================================================
