---------------------------- MODULE Connections ----------------------------
(***************************************************************************)
(* ConnectionManager: connections belong to handlers, Poll() tells the     *)
(* handlers what happens on them, and what a handler does meanwhile may    *)
(* only touch the map of connections to erase, which Poll() empties last.  *)
(*                                                                         *)
(* Poll() is cut where it calls a handler: select(), then for each         *)
(* connection what is read, what is written and the test of the result,    *)
(* then the erasure.  Connections that are created meanwhile are visited   *)
(* or not, as their addresses fall.  Listening sockets, files and TLS are  *)
(* left out.                                                               *)
(***************************************************************************)
EXTENDS Naturals, Sequences, FiniteSets, SequencesExt

CONSTANTS
    Conn,       \* addresses of Connection objects
    Handler,
    None,
    MaxTime,    \* bound: the clock
    Timeout,    \* timeoutDuration
    MaxOut,     \* bound: lines in an outputBuffer
    MaxErrors   \* bound: interrupted calls of select()

ASSUME ConnectionsAssumption ==
    /\ None \notin Conn /\ None \notin Handler
    /\ MaxTime \in Nat /\ Timeout \in Nat \ {0} /\ MaxOut \in Nat /\ MaxErrors \in Nat

VARIABLES
    now,
    owner,      \* handlerMap: whose connectionMap each object is in, or None
    connected,  \* the objects with F_CONNECTED; the others are pending
    deadline,   \* absTimeout
    out,        \* lines in outputBuffer
    flush,      \* the objects with F_FLUSH
    eraseMap,   \* what is to be erased, in the order it was scheduled
    todo,       \* what Poll() has still to visit
    ready,      \* what select() found, as <<connection, "read" or "write">>
    visit,      \* the connection being visited, the stage, and connectOK
    errors,
    farewells   \* how often each handler was told that a connection is over

conns == <<owner, connected, deadline, out, flush>>
polling == <<todo, ready, visit>>
cmVars == <<now, conns, eraseMap, polling, errors, farewells>>

Live == {c \in Conn : owner[c] # None}
Pending == Live \ connected
Nobody == [conn |-> None, stage |-> "read", ok |-> TRUE]
Visiting == visit.conn # None \/ todo # {}

CMTypeOK ==
    /\ now \in 0..MaxTime /\ errors \in 0..MaxErrors
    /\ owner \in [Conn -> Handler \cup {None}] /\ connected \subseteq Live
    /\ deadline \in [Conn -> 0..MaxTime] /\ out \in [Conn -> 0..MaxOut] /\ flush \subseteq Live
    /\ ToSet(eraseMap) \subseteq Live /\ todo \subseteq Live
    /\ ready \subseteq Conn \X {"read", "write"}
    /\ visit \in [conn : Live \cup {None}, stage : {"read", "write", "end"}, ok : BOOLEAN]
    /\ farewells \in [Conn -> 0..2]

CMInit ==
    /\ now = 0 /\ errors = 0
    /\ owner = [c \in Conn |-> None] /\ connected = {} /\ flush = {}
    /\ deadline = [c \in Conn |-> 0] /\ out = deadline /\ farewells = deadline
    /\ eraseMap = <<>> /\ todo = {} /\ ready = {} /\ visit = Nobody

-----------------------------------------------------------------------------
(* What a handler may call.                                                *)

(* Connect(): a pending connection.  The attempt must be able to time out  *)
(* before the clock stops.                                                 *)
Connect(h, c) ==
    /\ c \notin Live /\ now + Timeout <= MaxTime
    /\ owner' = [owner EXCEPT ![c] = h]
    /\ deadline' = [deadline EXCEPT ![c] = now + Timeout]
    /\ out' = [out EXCEPT ![c] = 0] /\ farewells' = [farewells EXCEPT ![c] = 0]
    /\ todo' \in IF Visiting THEN {todo, todo \cup {c}} ELSE {todo}
    /\ UNCHANGED <<connected, flush>>

(* scheduleErasure(): once.                                                *)
scheduleErasure(c) == IF c \in ToSet(eraseMap) THEN eraseMap ELSE Append(eraseMap, c)

(* Disconnect(): false unless the handler has the connection.              *)
Disconnect(h, c) ==
    IF c \in Live /\ owner[c] = h
    THEN eraseMap' = scheduleErasure(c) /\ flush' = flush \cup {c}
    ELSE UNCHANGED <<eraseMap, flush>>

(* A handler is told that the connection is over.                          *)
Farewell(c) == farewells' = [farewells EXCEPT ![c] = IF @ < 2 THEN @ + 1 ELSE @]

-----------------------------------------------------------------------------
(* Poll().                                                                 *)

(* select(): any of what was asked for, or nothing before the wait is over.*)
Select ==
    /\ ~Visiting
    /\ \E r \in SUBSET connected, w \in SUBSET (Pending \cup {c \in connected : out[c] > 0}) :
        ready' = (r \X {"read"}) \cup (w \X {"write"})
    /\ todo' = Live
    /\ UNCHANGED <<now, conns, eraseMap, visit, errors, farewells>>

(* select() fails, as a signal makes it.                                   *)
Interrupted ==
    /\ ~Visiting /\ errors < MaxErrors
    /\ errors' = errors + 1
    /\ UNCHANGED <<now, conns, eraseMap, polling, farewells>>

(* The stage a visit goes to; a pending connection has one.                *)
At(c, stage, ok) == visit' = [conn |-> c, stage |-> stage, ok |-> ok]

(* A connection is taken up: nothing to do for it yet.                     *)
Visit(c) ==
    /\ c \in todo /\ visit = Nobody
    /\ todo' = todo \ {c}
    /\ At(c, IF c \in connected THEN "read" ELSE "write", TRUE)

(* handleRead(): lines, the end of the connection, or nothing.             *)
Reads(c, event) ==
    /\ visit.conn = c /\ visit.stage = "read"
    /\ event \in IF <<c, "read">> \in ready THEN {"OnRead", "OnDisconnect", "nothing"} ELSE {"nothing"}
    /\ IF event = "OnDisconnect" THEN Farewell(c) ELSE UNCHANGED farewells
    /\ At(c, IF event = "OnDisconnect" THEN "end" ELSE "write", event # "OnDisconnect")

(* handleWrite() and handleFlush(): what is written is all or some of it;  *)
(* a flush that would block is not tried again.                            *)
Writes(c, event) ==
    /\ visit.conn = c /\ visit.stage = "write" /\ c \in connected
    /\ event \in IF <<c, "write">> \in ready THEN {"OnDisconnect", "nothing"} ELSE {"nothing"}
    /\ IF <<c, "write">> \in ready /\ event = "nothing"
       THEN \E left \in 0..out[c] : out' = [out EXCEPT ![c] = left]
       ELSE UNCHANGED out
    /\ flush' = IF <<c, "write">> \in ready THEN flush \ {c} ELSE flush
    /\ IF event = "OnDisconnect" THEN Farewell(c) ELSE UNCHANGED farewells
    /\ At(c, "end", event = "nothing")

(* Mutant: a connection that select() says nothing of is not looked at.    *)
TimedOut_Never(c) == FALSE

TimedOut(c) == now >= deadline[c]

(* finishConnect(), or the deadline.                                       *)
Connects(c, event) ==
    /\ visit.conn = c /\ visit.stage = "write" /\ c \notin connected
    /\ event \in IF <<c, "write">> \in ready THEN {"OnConnect", "OnConnectFail"}
                 ELSE IF TimedOut(c) THEN {"OnTimeout"} ELSE {"nothing"}
    /\ connected' = IF event = "OnConnect" THEN connected \cup {c} ELSE connected
    /\ IF event \in {"OnConnectFail", "OnTimeout"} THEN Farewell(c) ELSE UNCHANGED farewells
    /\ At(c, "end", event \in {"OnConnect", "nothing"})

(* Mutant: the result of what was done is not looked at.                   *)
EndVisit_Ignored(c) == eraseMap

(* A connection that has failed is scheduled.                              *)
EndVisit(c) == IF visit.ok THEN eraseMap ELSE scheduleErasure(c)

Visited ==
    /\ visit.stage = "end"
    /\ eraseMap' = EndVisit(visit.conn) /\ visit' = Nobody
    /\ UNCHANGED <<now, conns, todo, ready, errors, farewells>>

(* Mutant: only if select() has found something.                           *)
Gone_Ready == {c \in ToSet(eraseMap) : ready # {}}

(* Whatever select() has found, all that is scheduled goes.                *)
Gone == ToSet(eraseMap)

(* The end of Poll(): what is scheduled is closed and deleted.             *)
Erase ==
    LET gone == Gone
    IN  /\ owner' = [c \in Conn |-> IF c \in gone THEN None ELSE owner[c]]
        /\ connected' = connected \ gone /\ flush' = flush \ gone
        /\ deadline' = [c \in Conn |-> IF c \in gone THEN 0 ELSE deadline[c]]
        /\ out' = [c \in Conn |-> IF c \in gone THEN 0 ELSE out[c]]
        /\ farewells' = [c \in Conn |-> IF c \in gone THEN 0 ELSE farewells[c]]
        /\ eraseMap' = <<>> /\ ready' = {}
        /\ UNCHANGED <<now, todo, visit, errors>>

Tick ==
    /\ now < MaxTime
    /\ now' = now + 1
    /\ UNCHANGED <<conns, eraseMap, polling, errors, farewells>>

-----------------------------------------------------------------------------
(* Properties.                                                             *)

(* A handler is told of the end of a connection once, and an object is     *)
(* scheduled, and so deleted, once.                                        *)
OneEnd ==
    /\ \A c \in Live : farewells[c] <= 1
    /\ IsInjective(eraseMap)
=============================================================================
