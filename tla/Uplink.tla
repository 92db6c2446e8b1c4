------------------------------- MODULE Uplink -------------------------------
(***************************************************************************)
(* The main loop of xServer on its own ConnectionManager: it connects,     *)
(* polls, runs timers and signals, and ends when the connection is lost,   *)
(* when the attempt fails or when somebody asks.  The pointer to the       *)
(* connection (serverConnection) belongs to the loop, the object to the    *)
(* manager.  Beside the server a scanner module has connections: it        *)
(* connects to check an address and disconnects when it has read a line.   *)
(*                                                                         *)
(* main() starts a new xServer ten seconds after one ended, which is the   *)
(* initial state again.                                                    *)
(***************************************************************************)
EXTENDS Connections

CONSTANTS
    Server, Wingate,    \* the handlers
    LookupFails         \* whether Connect() may return no connection

ASSUME UplinkAssumption ==
    Handler = {Server, Wingate} /\ Server # Wingate /\ LookupFails \in BOOLEAN

VARIABLES
    pc,         \* where the main loop is
    serverConnection,
    keepRunning, lastLoop,
    hubTimedOut,    \* OnTimeout() was called for the connection of the server
    fault       \* what the process died of: "none", "null" or "freed"

loop == <<pc, serverConnection, keepRunning, lastLoop, hubTimedOut, fault>>
vars == <<cmVars, loop>>

TypeOK ==
    /\ CMTypeOK
    /\ pc \in {"top", "poll", "visit", "timers", "lastpoll", "lastvisit", "delete", "end"}
    /\ serverConnection \in Conn \cup {None}
    /\ <<keepRunning, lastLoop, hubTimedOut>> \in BOOLEAN \X BOOLEAN \X BOOLEAN
    /\ fault \in {"none", "null", "freed"}

Init ==
    /\ CMInit
    /\ pc = "top" /\ serverConnection = None
    /\ keepRunning = TRUE /\ lastLoop = FALSE /\ hubTimedOut = FALSE /\ fault = "none"

Up == fault = "none"
Written(c, n) == [out EXCEPT ![c] = IF @ + n > MaxOut THEN MaxOut ELSE @ + n]

(* The pointer leads to an object that is deleted, or to another's.        *)
Dangling == serverConnection # None /\ owner[serverConnection] # Server

(* xServer::isConnected(), for a pointer that does not dangle.             *)
isConnected == serverConnection \in connected

-----------------------------------------------------------------------------
(* The top of the loop: a connection if there is none ...                  *)
ConnectUplink ==
    /\ Up /\ pc = "top" /\ keepRunning /\ serverConnection = None /\ ~lastLoop
    /\ \/ \E c \in Conn :
            /\ Connect(Server, c)
            /\ serverConnection' = c /\ pc' = "poll" /\ UNCHANGED fault
       \/ /\ LookupFails
          /\ fault' = "null" /\ UNCHANGED <<conns, todo, farewells, serverConnection, pc>>
    /\ UNCHANGED <<now, eraseMap, ready, visit, errors, keepRunning, lastLoop, hubTimedOut>>

(* ... the last iteration clears keepRunning ...                           *)
StopAfter == keepRunning /\ ~lastLoop

(* ... and writes the SQ and asks for it to be flushed.                    *)
Iterate ==
    /\ Up /\ pc = "top" /\ keepRunning /\ (serverConnection # None \/ lastLoop)
    /\ keepRunning' = StopAfter
    /\ IF serverConnection = None THEN fault' = "null" /\ UNCHANGED <<out, flush, pc>>
       ELSE IF Dangling THEN fault' = "freed" /\ UNCHANGED <<out, flush, pc>>
       ELSE /\ out' = IF lastLoop /\ isConnected THEN Written(serverConnection, 1) ELSE out
            /\ flush' = IF lastLoop /\ isConnected THEN flush \cup {serverConnection} ELSE flush
            /\ pc' = "poll" /\ UNCHANGED fault
    /\ UNCHANGED <<now, owner, connected, deadline, eraseMap, polling, errors, farewells,
                   serverConnection, lastLoop, hubTimedOut>>

(* doShutdown(): the clients quit, the connection is to be closed.         *)
doShutdown ==
    /\ Up /\ pc = "top" /\ ~keepRunning
    /\ IF Dangling THEN fault' = "freed" /\ UNCHANGED <<out, eraseMap, flush, pc>>
       ELSE /\ out' = IF isConnected THEN Written(serverConnection, 1) ELSE out
            /\ IF serverConnection # None THEN Disconnect(Server, serverConnection)
               ELSE UNCHANGED <<eraseMap, flush>>
            /\ pc' = "lastpoll" /\ UNCHANGED fault
    /\ UNCHANGED <<now, owner, connected, deadline, polling, errors, farewells,
                   serverConnection, keepRunning, lastLoop, hubTimedOut>>

(* Where Poll() returns to.                                                *)
Return == pc' = IF pc \in {"poll", "visit"} THEN "timers" ELSE "delete"
LoopSame == UNCHANGED <<serverConnection, keepRunning, lastLoop, hubTimedOut, fault>>

(* Poll() does nothing, is interrupted, or selects.                        *)
Poll ==
    /\ Up /\ pc \in {"poll", "lastpoll"} /\ LoopSame
    /\ IF Live = {}
       THEN Return /\ UNCHANGED cmVars
       ELSE \/ Interrupted /\ Return
            \/ Select /\ pc' = IF pc = "poll" THEN "visit" ELSE "lastvisit"

Polling == Up /\ pc \in {"visit", "lastvisit"}

PollErase ==
    /\ Polling /\ ~Visiting
    /\ Erase /\ Return /\ LoopSame

Visits ==
    /\ Polling /\ UNCHANGED loop
    /\ \/ Visited
       \/ \E c \in Conn : Visit(c) /\ UNCHANGED <<now, conns, eraseMap, ready, errors, farewells>>

-----------------------------------------------------------------------------
(* xServer as a handler.                                                   *)

(* Mutant: the pointer is kept.                                            *)
OnDisconnect_Kept(c) ==
    /\ keepRunning' = IF c = serverConnection THEN FALSE ELSE keepRunning
    /\ UNCHANGED <<serverConnection, lastLoop, hubTimedOut>>

(* xServer::OnDisconnect().                                                *)
OnDisconnect(c) ==
    /\ IF c = serverConnection THEN serverConnection' = None /\ keepRunning' = FALSE
       ELSE UNCHANGED <<serverConnection, keepRunning>>
    /\ UNCHANGED <<lastLoop, hubTimedOut>>

ConnSame == UNCHANGED <<serverConnection, keepRunning, lastLoop, hubTimedOut>>

(* xServer::OnRead(): on the last iteration nothing is processed; a        *)
(* command may make the server write, or end it.                           *)
OnRead(c) ==
    \/ ConnSame /\ UNCHANGED out
    \/ /\ c = serverConnection /\ keepRunning /\ ~lastLoop
       /\ \/ out' = Written(c, 1) /\ ConnSame
          \/ /\ lastLoop' = TRUE
             /\ UNCHANGED <<out, serverConnection, keepRunning, hubTimedOut>>

ServerReads ==
    /\ Polling /\ \E c \in Conn, event \in {"OnRead", "OnDisconnect", "nothing"} :
        /\ owner[c] = Server /\ Reads(c, event)
        /\ CASE event = "OnRead" -> OnRead(c)
             [] event = "OnDisconnect" -> OnDisconnect(c) /\ UNCHANGED out
             [] OTHER -> ConnSame /\ UNCHANGED out
    /\ UNCHANGED <<now, owner, connected, deadline, flush, eraseMap, todo, ready, errors, pc, fault>>

(* Either handler's connection is written to.                              *)
AnyWrites ==
    /\ Polling /\ \E c \in Conn, event \in {"OnDisconnect", "nothing"} :
        /\ Writes(c, event)
        /\ IF event = "OnDisconnect" /\ owner[c] = Server THEN OnDisconnect(c) ELSE ConnSame
    /\ UNCHANGED <<now, owner, connected, deadline, eraseMap, todo, ready, errors, pc, fault>>

(* xServer::OnConnect(), OnConnectFail() and OnTimeout().                  *)
ServerConnects ==
    /\ Polling /\ \E c \in Conn, event \in {"OnConnect", "OnConnectFail", "OnTimeout", "nothing"} :
        /\ owner[c] = Server /\ Connects(c, event)
        /\ serverConnection' =
                CASE event = "OnConnect" -> c [] event = "OnConnectFail" -> None
                  [] OTHER -> serverConnection
        /\ out' = IF event = "OnConnect" THEN Written(c, 2) ELSE out
        /\ keepRunning' = IF event = "OnConnectFail" THEN FALSE ELSE keepRunning
        /\ IF event = "OnTimeout" /\ c = serverConnection
           THEN lastLoop' = TRUE /\ hubTimedOut' = TRUE
           ELSE UNCHANGED <<lastLoop, hubTimedOut>>
    /\ UNCHANGED <<now, owner, deadline, flush, eraseMap, todo, ready, errors, pc, fault>>

-----------------------------------------------------------------------------
(* The scanner as a handler.                                               *)

(* wingateModule::OnRead() disconnects.                                    *)
WingateReads ==
    /\ Polling /\ \E c \in Conn, event \in {"OnRead", "OnDisconnect", "nothing"} :
        /\ owner[c] = Wingate /\ Reads(c, event)
        /\ IF event = "OnRead" THEN Disconnect(Wingate, c) ELSE UNCHANGED <<eraseMap, flush>>
    /\ UNCHANGED <<now, owner, connected, deadline, out, todo, ready, errors, loop>>

WingateConnects ==
    /\ Polling /\ \E c \in Conn, event \in {"OnConnect", "OnConnectFail", "OnTimeout", "nothing"} :
        owner[c] = Wingate /\ Connects(c, event)
    /\ UNCHANGED <<now, owner, deadline, out, flush, eraseMap, todo, ready, errors, loop>>

(* wingateModule::CheckIP(), in a timer or while the server reads.         *)
CheckIP ==
    /\ Up
    /\ \/ pc = "timers"
       \/ pc = "visit" /\ visit.conn # None /\ visit.stage = "write" /\ visit.conn = serverConnection
    /\ \E c \in Conn : Connect(Wingate, c)
    /\ UNCHANGED <<now, eraseMap, ready, visit, errors, loop>>

-----------------------------------------------------------------------------
(* CheckTimers() and the signals: nothing, Shutdown(), or a signal that    *)
(* PostSignal() does not answer for.                                       *)
CheckTimers ==
    /\ Up /\ pc = "timers" /\ pc' = "top"
    /\ \/ UNCHANGED <<keepRunning, lastLoop>>
       \/ lastLoop' = TRUE /\ UNCHANGED keepRunning
       \/ keepRunning' = FALSE /\ UNCHANGED lastLoop
    /\ UNCHANGED <<cmVars, serverConnection, hubTimedOut, fault>>

(* main() deletes the server, and ~ConnectionManager() what it has left.   *)
Delete ==
    /\ Up /\ pc = "delete" /\ pc' = "end"
    /\ owner' = [c \in Conn |-> None] /\ connected' = {} /\ flush' = {}
    /\ deadline' = [c \in Conn |-> 0] /\ out' = deadline' /\ farewells' = deadline'
    /\ eraseMap' = <<>> /\ ready' = {}
    /\ serverConnection' = None
    /\ UNCHANGED <<now, todo, visit, errors, keepRunning, lastLoop, hubTimedOut, fault>>

Passes == Up /\ pc # "end" /\ Tick /\ UNCHANGED loop

Loop ==
    \/ ConnectUplink \/ Iterate \/ doShutdown \/ Poll \/ PollErase \/ Visits
    \/ ServerReads \/ AnyWrites \/ ServerConnects \/ WingateReads \/ WingateConnects
    \/ CheckTimers \/ Delete

Next == Loop \/ CheckIP \/ Passes

Spec == Init /\ [][Next]_vars
FairSpec == Spec /\ WF_vars(Loop) /\ WF_vars(Passes)

-----------------------------------------------------------------------------
(* Properties.                                                             *)

(* While the process runs the pointer of the main loop leads to a          *)
(* connection of the server, unless the attempt to connect timed out.      *)
PointerLives == Up /\ pc # "delete" /\ ~hubTimedOut => ~Dangling

(* An attempt to connect ends: in a connection, a refusal, the time-out or *)
(* the end of the process.                                                 *)
AttemptEnds == \A c \in Conn : c \in Pending ~> c \notin Pending \/ ~Up

(* What is asked to be closed is closed.                                   *)
DisconnectCloses == \A c \in Conn : c \in ToSet(eraseMap) ~> c \notin Live \/ ~Up

(* Both: no connection is forgotten, whether select() fails, nothing       *)
(* arrives for it or its handler gives it up in the middle of a Poll().    *)
ConnectionsEnd == AttemptEnds /\ DisconnectCloses

(* After Shutdown() the process ends.                                      *)
ShutdownEnds == lastLoop ~> pc = "end" \/ ~Up

(* The end of the loop reaches the main loop as a flag, never as a pointer *)
(* that is used.                                                           *)
NoFault == Up
=============================================================================
