----------------------------- MODULE TimerQueue -----------------------------
(* The state of the timer system of xServer and what Timers, its actions,  *)
(* promise of it: by itself, so that it can be spoken of beside other parts*)
(* of the program that have an Init, a Next and a clock of their own.      *)
EXTENDS Integers

CONSTANTS
    Module,         \* the client modules of the configuration
    IdSpace         \* number of timer identifiers (2^32 in the program)

VARIABLES
    timerQueue,     \* the pending timers
    uniqueTimerMap, \* the identifiers held to be in use
    lastTimerID,    \* the next identifier to try
    checking,       \* is CheckTimers() running?
    started,        \* the time CheckTimers() read when it started
    info,           \* the timer whose OnTimer() is on the stack, if any
    attached,       \* the modules in clientModuleList
    failed,         \* modules whose last load request did not succeed
    running         \* keepRunning: FALSE once doShutdown() has run

TimerID == 0 .. IdSpace - 1
NoTimer == [ID |-> -1]

(* The timers of a kind and a client in the queue.                         *)
Queued(kind, c) ==
    {t \in timerQueue : t.theHandler.kind = kind /\ t.theHandler.client = c}

(* The pending timers, and the one whose handler is running.               *)
Active == timerQueue \cup (IF info = NoTimer THEN {} ELSE {info})

-----------------------------------------------------------------------------
(* No two timers share an identifier, the one whose handler is running     *)
(* included, and every identifier handed out is marked as in use: the      *)
(* promise of getUniqueTimerID() across wrap-around and re-registration    *)
(* from inside a handler.                                                  *)
TimerIDsUnique ==
    /\ \A s, t \in timerQueue : s.ID = t.ID => s = t
    /\ info # NoTimer => \A t \in timerQueue : t.ID # info.ID
    /\ \A t \in Active : t.ID \in uniqueTimerMap

(* No pending timer, and no handler on the stack, belongs to a client that *)
(* has been deleted: the reason why UnloadClient() defers the removal to a *)
(* timer of its own and why removeClient() calls removeAllTimers().        *)
NoTimerOfDetached ==
    \A t \in Active : t.theHandler.kind = "client"
                        => t.theHandler.client \in attached

(* A client that asked to be reloaded comes back: whenever it is not       *)
(* attached there is still a load request of it in the queue, unless       *)
(* loading its module failed.  The request that unloads it never runs after*)
(* the one that loads it again, however late the loop is.                  *)
ReloadNeverLosesClient ==
    running =>
        \A c \in Module \ (attached \cup failed) : Queued("load", c) # {}

(* The strengthening of ReloadNeverLosesClient: behind every unload request*)
(* there is a later load request of the same client.                       *)
LoadBehindUnload ==
    /\ \A u \in timerQueue : u.theHandler.kind = "unload" =>
            \E l \in Queued("load", u.theHandler.client) :
                l.absTime > u.absTime
    /\ info # NoTimer /\ info.theHandler.kind = "unload" =>
            Queued("load", info.theHandler.client) # {}
=============================================================================
