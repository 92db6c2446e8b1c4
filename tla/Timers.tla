------------------------------- MODULE Timers -------------------------------
(***************************************************************************)
(* The timer system of xServer (src/src/server_timers.cc) and the deferred *)
(* loading and unloading of client modules that is built on it             *)
(* (LoadClientTimerHandler, UnloadClientTimerHandler, server.cc).          *)
(*                                                                         *)
(* The main loop alternates between ConnectionManager::Poll(), in which    *)
(* clients run in reaction to messages, and CheckTimers(), in which they   *)
(* run in reaction to timers.  Client code may call RegisterTimer,         *)
(* UnRegisterTimer or ask for a reload in both.                            *)
(*                                                                         *)
(* Times are kept relative to the clock: Tick lowers every absTime by one  *)
(* instead of raising the clock, so that behaviours need not end.          *)
(***************************************************************************)
EXTENDS TimerQueue, FiniteSets

CONSTANTS
    MaxDelay,       \* bound: furthest time a client registers a timer at
    MaxLate,        \* bound: how far the main loop lags behind the clock
    MaxQueue,       \* bound: timers clients keep in the queue
    LoadDelay       \* seconds after which a queued load request is due

(* What is assumed of the constants.                                       *)
TimersAssumption ==
    /\ IdSpace \in Nat \ {0, 1} /\ MaxDelay \in Nat /\ MaxLate \in Nat
    /\ MaxQueue \in Nat /\ LoadDelay \in Nat \ {0} /\ LoadDelay <= MaxDelay

ASSUME ConstantsAssumption == TimersAssumption

vars == <<timerQueue, uniqueTimerMap, lastTimerID, checking, started, info,
          attached, failed, running>>

Delays == -MaxLate .. MaxDelay     \* from now, of a timer that is registered
Handler == [kind : {"client", "load", "unload"}, client : Module]
Timer == [ID : TimerID, absTime : -MaxLate .. MaxDelay, theHandler : Handler]

TypeOK ==
    /\ timerQueue \subseteq Timer
    /\ uniqueTimerMap \subseteq TimerID
    /\ lastTimerID \in TimerID
    /\ checking \in BOOLEAN
    /\ started \in -MaxLate .. 0
    /\ info \in Timer \cup {NoTimer}
    /\ attached \subseteq Module
    /\ failed \subseteq Module
    /\ running \in BOOLEAN

Init ==
    /\ timerQueue = {} /\ uniqueTimerMap = {} /\ lastTimerID = 1
    /\ checking = FALSE /\ started = 0 /\ info = NoTimer
    /\ attached = Module /\ failed = {} /\ running = TRUE

-----------------------------------------------------------------------------
(* Client code runs while Poll() delivers messages or inside an OnTimer(). *)
InClientCode == running /\ (checking => info # NoTimer)

(* Mutants: the counter does not wrap around; it is used without a look at *)
(* uniqueTimerMap.                                                         *)
SuccessorNoWrap(i) == i + 1
FirstFreeUnchecked(from, used) == from

(* getUniqueTimerID(): the first identifier, counting from lastTimerID and *)
(* wrapping around, that is not in uniqueTimerMap.  With no such identifier*)
(* the loop of the program does not end; here there is no step.            *)
Successor(i) == IF i + 1 = IdSpace THEN 0 ELSE i + 1
Distance(from, i) == IF i >= from THEN i - from ELSE i - from + IdSpace

FirstFree(from, used) ==
    CHOOSE i \in TimerID \ used :
        \A j \in TimerID \ used : Distance(from, i) <= Distance(from, j)

Request(ID, absTime, kind, c) ==
    [ID |-> ID, absTime |-> absTime,
     theHandler |-> [kind |-> kind, client |-> c]]

(* A time that has come, or is past, is taken as well.                     *)
RegisterTimer(c, delay) ==
    /\ InClientCode /\ c \in attached
    /\ TimerID \ uniqueTimerMap # {}
    /\ Cardinality(timerQueue) < MaxQueue
    /\ LET ID == FirstFree(lastTimerID, uniqueTimerMap)
       IN  /\ timerQueue' = timerQueue \cup {Request(ID, delay, "client", c)}
           /\ uniqueTimerMap' = uniqueTimerMap \cup {ID}
           /\ lastTimerID' = Successor(ID)
    /\ UNCHANGED <<checking, started, info, attached, failed, running>>

(* A client drops one of its pending timers.  (An identifier that is not   *)
(* in the queue leaves everything as it was.)                              *)
UnRegisterTimer(t) ==
    /\ InClientCode
    /\ t.theHandler.kind = "client" /\ t.theHandler.client \in attached
    /\ timerQueue' = timerQueue \ {t}
    /\ uniqueTimerMap' = uniqueTimerMap \ {t.ID}
    /\ UNCHANGED <<lastTimerID, checking, started, info, attached, failed,
                   running>>

(* The reload command of a client: UnloadClient(this) followed by          *)
(* LoadClient(module), one timer each.                                     *)
Reload(c) ==
    /\ InClientCode /\ c \in attached
    /\ \E i, j \in TimerID \ uniqueTimerMap : i # j
    /\ Cardinality(timerQueue) < MaxQueue
    /\ LET u == FirstFree(lastTimerID, uniqueTimerMap)
           l == FirstFree(Successor(u), uniqueTimerMap \cup {u})
       IN  /\ timerQueue' = timerQueue \cup {Request(u, 0, "unload", c),
                                             Request(l, LoadDelay, "load", c)}
           /\ uniqueTimerMap' = uniqueTimerMap \cup {u, l}
           /\ lastTimerID' = Successor(l)
    /\ UNCHANGED <<checking, started, info, attached, failed, running>>

-----------------------------------------------------------------------------
(* CheckTimers() reads the clock once.                                     *)
BeginCheckTimers ==
    /\ running /\ ~checking
    /\ checking' = TRUE /\ started' = 0
    /\ UNCHANGED <<timerQueue, uniqueTimerMap, lastTimerID, info, attached,
                   failed, running>>

Due == {t \in timerQueue : t.absTime <= started}

(* Mutant: the queue is not ordered by absTime.                            *)
IsTopUnordered(t) == t \in timerQueue

(* The top of the priority queue: no pending timer has an earlier absTime. *)
IsTop(t) == t \in timerQueue /\ \A s \in timerQueue : t.absTime <= s.absTime

(* Mutant: the timer stays in the queue while its handler runs.            *)
BeginOnTimerNoPop(t) ==
    /\ checking /\ info = NoTimer
    /\ t \in Due /\ IsTop(t)
    /\ info' = t
    /\ UNCHANGED <<timerQueue, attached, failed, uniqueTimerMap, lastTimerID,
                   checking, started, running>>

(* The timer is popped before its handler is called.  OnTimer() of a load  *)
(* request attaches the module first, if it is not loaded already (its nick*)
(* is then taken) and can be instantiated.                                 *)
BeginOnTimer(t) ==
    /\ checking /\ info = NoTimer
    /\ t \in Due /\ IsTop(t)
    /\ timerQueue' = timerQueue \ {t}
    /\ info' = t
    /\ LET c == t.theHandler.client IN
       IF t.theHandler.kind = "load" /\ c \notin attached
       THEN \/ attached' = attached \cup {c} /\ failed' = failed \ {c}
            \/ attached' = attached /\ failed' = failed \cup {c}
       ELSE UNCHANGED <<attached, failed>>
    /\ UNCHANGED <<uniqueTimerMap, lastTimerID, checking, started, running>>

(* Mutant: removeClient() forgets removeAllTimers().                       *)
WithoutTimersOfNone(c) == timerQueue

(* removeAllTimers(): the timers of the client leave the queue, their      *)
(* identifiers stay in uniqueTimerMap.                                     *)
WithoutTimersOf(c) ==
    timerQueue \ Queued("client", c)

(* OnTimer() returns.  That of an unload request ends with removeClient(), *)
(* which deletes the client.  Then the identifier is released.             *)
EndOnTimer ==
    /\ checking /\ info # NoTimer
    /\ LET c == info.theHandler.client IN
       IF info.theHandler.kind = "unload" /\ c \in attached
       THEN /\ attached' = attached \ {c}
            /\ timerQueue' = WithoutTimersOf(c)
       ELSE UNCHANGED <<attached, timerQueue>>
    /\ uniqueTimerMap' = uniqueTimerMap \ {info.ID}
    /\ info' = NoTimer
    /\ UNCHANGED <<lastTimerID, checking, started, failed, running>>

EndCheckTimers ==
    /\ checking /\ info = NoTimer /\ Due = {}
    /\ checking' = FALSE /\ started' = 0
    /\ UNCHANGED <<timerQueue, uniqueTimerMap, lastTimerID, info, attached,
                   failed, running>>

(* doShutdown(), after the last iteration of the main loop: every client is*)
(* detached and the queue emptied; the identifiers stay.                   *)
DoShutdown ==
    /\ running /\ ~checking
    /\ running' = FALSE
    /\ attached' = {} /\ timerQueue' = {}
    /\ UNCHANGED <<uniqueTimerMap, lastTimerID, checking, started, info, failed>>

(* A second passes, at any point of the loop; MaxLate bounds the lag.      *)
Tick ==
    /\ running
    /\ \A t \in timerQueue : t.absTime > -MaxLate
    /\ checking => started > -MaxLate
    /\ timerQueue' = {[t EXCEPT !.absTime = @ - 1] : t \in timerQueue}
    /\ started' = IF checking THEN started - 1 ELSE started
    /\ UNCHANGED <<uniqueTimerMap, lastTimerID, checking, info, attached,
                   failed, running>>

-----------------------------------------------------------------------------
Next ==
    \/ \E c \in Module, delay \in Delays : RegisterTimer(c, delay)
    \/ \E t \in timerQueue : UnRegisterTimer(t)
    \/ \E c \in Module : Reload(c)
    \/ BeginCheckTimers
    \/ \E t \in timerQueue : BeginOnTimer(t)
    \/ EndOnTimer
    \/ EndCheckTimers
    \/ DoShutdown
    \/ Tick

(* The main loop keeps calling CheckTimers(), which keeps running handlers;*)
(* handlers return, and time passes.  Client code need not do anything.    *)
Fairness ==
    /\ WF_vars(BeginCheckTimers)
    /\ WF_vars(\E t \in timerQueue : BeginOnTimer(t))
    /\ WF_vars(EndOnTimer)
    /\ WF_vars(EndCheckTimers)
    /\ SF_vars(Tick)

Spec == Init /\ [][Next]_vars
FairSpec == Spec /\ Fairness

-----------------------------------------------------------------------------
(* A handler registers a timer that the CheckTimers() it runs in will run. *)
Rearms ==
    \E c \in Module, delay \in Delays :
        checking /\ delay <= started /\ RegisterTimer(c, delay)

(* Every timer eventually leaves the queue: it runs, or it is removed.     *)
Leaves(i) == (\E t \in timerQueue : t.ID = i) ~> (\A t \in timerQueue : t.ID # i)

(* No timer starves, whatever handlers, reloads and a late main loop do,   *)
(* unless handlers go on for ever registering timers that have come: then  *)
(* CheckTimers() does not return.  Finitely many do no harm.               *)
NoTimerStarves == <>[][~Rearms]_vars => \A i \in TimerID : Leaves(i)

(* Without that exception it is false.                                     *)
NeverStarves == \A i \in TimerID : Leaves(i)
=============================================================================
