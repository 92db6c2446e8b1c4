------------------------------- MODULE Scores -------------------------------
(***************************************************************************)
(* The scores of mod.openchanfix: points per operator and day, kept in     *)
(* memory and written to two tables by a thread of their own.  The main    *)
(* thread takes a snapshot of what is dirty and starts the thread; while   *)
(* that writes, operators gain points, are rotated out and come back.      *)
(* The thread writes one transaction, which is done or not.                *)
(*                                                                         *)
(* Days are slots that are used again after daySamples days.  Which of the *)
(* operators without points are old enough to be forgotten is chosen       *)
(* freely.                                                                 *)
(***************************************************************************)
EXTENDS Naturals

CONSTANTS
    Op,         \* operators, as pairs of a channel and an account
    daySamples,
    MaxPoints,  \* bound: points of a day
    MaxFail     \* bound: transactions and queries that fail

ScoresAssumption ==
    daySamples \in Nat \ {0} /\ MaxPoints \in Nat \ {0} /\ MaxFail \in Nat

Day == 0..(daySamples - 1)
Points == [Day -> 0..MaxPoints]
NoPoints == [d \in Day |-> 0]

VARIABLES
    pc,         \* "run", "detach" while OnDetach() waits, or "down"
    today,      \* the slot of the day it is
    currentDay,
    sqlChanOps, \* the operators in memory
    day,        \* their points
    dirty,
    pendingDeletes,
    sync,       \* what the thread that runs is to write, or Idle
    chanOps,    \* the operators in the table
    daily,      \* their points in chanops_daily
    saved,      \* the last sync of OnDetach() was done
    unsure,     \* operators with a failed sync since they were last written
    fails

memory == <<today, currentDay, sqlChanOps, day, dirty, pendingDeletes>>
tables == <<chanOps, daily>>
vars == <<pc, memory, sync, tables, saved, unsure, fails>>

(* What the thread is given: the operators, their points of one day, and   *)
(* the operators to delete.                                                *)
Snapshot == [ops : SUBSET Op, slot : Day, points : [Op -> 0..MaxPoints], deletes : SUBSET Op]
Idle == [ops |-> {}, slot |-> 0, points |-> [o \in Op |-> 0], deletes |-> {}]
syncThreadRunning == sync # Idle

TypeOK ==
    /\ pc \in {"run", "detach", "down"} /\ {today, currentDay} \subseteq Day
    /\ sqlChanOps \subseteq Op /\ day \in [Op -> Points] /\ dirty \subseteq sqlChanOps
    /\ pendingDeletes \subseteq Op /\ sync \in Snapshot
    /\ chanOps \subseteq Op /\ daily \in [Op -> Points]
    /\ saved \in BOOLEAN /\ unsure \subseteq Op /\ fails \in 0..MaxFail

Init ==
    /\ pc = "run" /\ today = 0 /\ currentDay = 0
    /\ sqlChanOps = {} /\ day = [o \in Op |-> NoPoints] /\ dirty = {} /\ pendingDeletes = {}
    /\ sync = Idle /\ chanOps = {} /\ daily = day
    /\ saved = FALSE /\ unsure = {} /\ fails = 0

Running == pc = "run"
Result(ok) == IF ok THEN UNCHANGED fails ELSE fails < MaxFail /\ fails' = fails + 1

-----------------------------------------------------------------------------
(* The main thread.                                                        *)

(* gotOpped(): an operator is seen; there may be no room for a new one.    *)
gotOpped(o) ==
    /\ Running
    /\ sqlChanOps' = sqlChanOps \cup {o} /\ dirty' = dirty \cup {o}
    /\ UNCHANGED <<pc, today, currentDay, day, pendingDeletes, sync, tables, saved, unsure, fails>>

(* Mutants: points make no operator dirty, or only a new one.              *)
Touched_Never(S) == {}
Touched_New(S) == S \ sqlChanOps
Touched(S) == S

(* giveAllOpsPoints(): the operators S get a point of the day.             *)
giveAllOpsPoints(S) ==
    /\ Running /\ \A o \in S : day[o][currentDay] < MaxPoints
    /\ sqlChanOps' = sqlChanOps \cup S /\ dirty' = dirty \cup Touched(S)
    /\ day' = [o \in Op |-> IF o \in S THEN [day[o] EXCEPT ![currentDay] = @ + 1] ELSE day[o]]
    /\ UNCHANGED <<pc, today, currentDay, pendingDeletes, sync, tables, saved, unsure, fails>>

Midnight ==
    /\ Running /\ today = currentDay
    /\ today' = (today + 1) % daySamples
    /\ UNCHANGED <<pc, currentDay, sqlChanOps, day, dirty, pendingDeletes, sync, tables, saved,
                   unsure, fails>>

(* Mutant: what is forgotten is not noted for the tables.                  *)
Deletes_Now(gone) == pendingDeletes
Deletes(gone) == pendingDeletes \cup gone

(* rotateDB(), at midnight or by command: the day after the current one is *)
(* emptied, and the operators left with nothing go, if old enough.         *)
rotateDB(old) ==
    LET next == (currentDay + 1) % daySamples
        cleared == [o \in Op |-> [day[o] EXCEPT ![next] = 0]]
        gone == {o \in sqlChanOps \cap old : cleared[o] = NoPoints}
    IN  /\ Running
        /\ currentDay' = today
        /\ day' = cleared
        /\ sqlChanOps' = sqlChanOps \ gone /\ dirty' = sqlChanOps \ gone
        /\ pendingDeletes' = Deletes(gone)
        /\ UNCHANGED <<pc, today, sync, tables, saved, unsure, fails>>

(* syncToDB(): the thread is given what is dirty.                          *)
syncToDB ==
    /\ Running /\ ~syncThreadRunning
    /\ dirty # {} \/ pendingDeletes # {}
    /\ sync' = [ops |-> dirty, slot |-> currentDay, deletes |-> pendingDeletes,
                points |-> [o \in Op |-> IF o \in dirty THEN day[o][currentDay] ELSE 0]]
    /\ dirty' = {} /\ pendingDeletes' = {}
    /\ UNCHANGED <<pc, today, currentDay, sqlChanOps, day, tables, saved, unsure, fails>>

-----------------------------------------------------------------------------
(* Writing.                                                                *)

(* Mutant: what is deleted goes last, after what is written.               *)
Rows_DeletedLast(ops, deletes) == (chanOps \cup ops) \ deletes
Rows(ops, deletes) == (chanOps \ deletes) \cup ops

(* The points of o in chanops_daily before those of the snapshot.          *)
Base(o, deletes) == IF o \in deletes THEN NoPoints ELSE daily[o]

(* syncWorker(): one transaction.  A failure leaves nothing to try again.  *)
syncWorker(ok) ==
    /\ syncThreadRunning /\ Result(ok)
    /\ IF ok
       THEN /\ chanOps' = Rows(sync.ops, sync.deletes)
            /\ daily' = [o \in Op |->
                    IF o \notin chanOps' THEN NoPoints
                    ELSE IF o \in sync.ops
                    THEN [Base(o, sync.deletes) EXCEPT ![sync.slot] = sync.points[o]]
                    ELSE Base(o, sync.deletes)]
            /\ unsure' = unsure \ (sync.ops \cup sync.deletes)
       ELSE /\ UNCHANGED tables
            /\ unsure' = unsure \cup sync.ops \cup sync.deletes
    /\ sync' = Idle
    /\ UNCHANGED <<pc, memory, saved>>

(* syncToDB(true): everything, in the main thread, without the days that   *)
(* have no points.                                                         *)
ForceAll(ok) ==
    /\ Result(ok)
    /\ IF ok
       THEN /\ chanOps' = Rows(sqlChanOps, pendingDeletes)
            /\ daily' = [o \in Op |->
                    IF o \notin chanOps' THEN NoPoints
                    ELSE [d \in Day |-> IF o \in sqlChanOps /\ day[o][d] > 0 THEN day[o][d]
                                        ELSE Base(o, pendingDeletes)[d]]]
            /\ unsure' = unsure \ (sqlChanOps \cup pendingDeletes)
       ELSE /\ UNCHANGED tables
            /\ unsure' = unsure \cup sqlChanOps \cup pendingDeletes
    /\ dirty' = {} /\ pendingDeletes' = {}

(* The command DEBUG UPDATE, which is refused while the thread runs.       *)
DebugUpdate(ok) ==
    /\ Running /\ ~syncThreadRunning
    /\ ForceAll(ok)
    /\ UNCHANGED <<pc, today, currentDay, sqlChanOps, day, sync, saved>>

(* OnDetach() waits for the thread ...                                     *)
OnDetach ==
    /\ Running /\ pc' = "detach"
    /\ UNCHANGED <<memory, sync, tables, saved, unsure, fails>>

(* Mutant: ... or does not ...                                             *)
MayFinish_AtOnce == TRUE
MayFinish == ~syncThreadRunning

(* ... and writes everything.                                              *)
Finish(ok) ==
    /\ pc = "detach" /\ MayFinish
    /\ ForceAll(ok)
    /\ pc' = "down" /\ saved' = ok
    /\ UNCHANGED <<today, currentDay, sqlChanOps, day, sync>>

(* The process dies, as it does when the thread gets no connection.        *)
Crash ==
    /\ pc # "down" /\ pc' = "down" /\ saved' = FALSE
    /\ sync' = Idle
    /\ UNCHANGED <<memory, tables, unsure, fails>>

(* The constructor, on whatever day it is: precacheChanOps().  Points that *)
(* cannot be read are none.                                                *)
Load(ok) ==
    /\ pc = "down" /\ ~syncThreadRunning /\ Result(ok) /\ pc' = "run"
    /\ today' \in Day /\ currentDay' = today'
    /\ sqlChanOps' = chanOps /\ day' = IF ok THEN daily ELSE [o \in Op |-> NoPoints]
    /\ dirty' = {} /\ pendingDeletes' = {} /\ saved' = FALSE
    /\ unsure' = {}
    /\ UNCHANGED <<sync, tables>>

Main ==
    \/ \E o \in Op : gotOpped(o)
    \/ \E S \in SUBSET Op \ {{}} : giveAllOpsPoints(S)
    \/ \E old \in SUBSET Op : rotateDB(old)
    \/ Midnight \/ syncToDB \/ OnDetach
    \/ \E ok \in BOOLEAN : DebugUpdate(ok)

Worker == \E ok \in BOOLEAN : syncWorker(ok)
Finishes == \E ok \in BOOLEAN : Finish(ok)
Start == \E ok \in BOOLEAN : Load(ok)

Next == Main \/ Worker \/ Finishes \/ Crash \/ Start

Spec == Init /\ [][Next]_vars

(* The timer of the sync runs again and again, the thread and OnDetach()   *)
(* go on.                                                                  *)
FairSpec == Spec /\ WF_vars(syncToDB) /\ WF_vars(Worker) /\ WF_vars(Finishes)

-----------------------------------------------------------------------------
(* Properties.                                                             *)

(* An operator that is not dirty, not being written and was not lost by a  *)
(* failed sync is in the table, with no fewer points of the day than he    *)
(* has; the table has no other operators than memory, but for those on     *)
(* their way out.  (More points it may have: ForceAll leaves days without  *)
(* points out, so what rotateDB() emptied may stay.)                       *)
TableFollows ==
    Running =>
        /\ \A o \in sqlChanOps \ (dirty \cup sync.ops \cup unsure) :
              o \in chanOps /\ daily[o][currentDay] >= day[o][currentDay]
        /\ chanOps \subseteq sqlChanOps \cup pendingDeletes \cup sync.deletes \cup sync.ops \cup unsure

(* After an orderly shutdown every operator comes back with all its        *)
(* points, whatever failed before.                                         *)
RestartKeeps ==
    [][pc = "down" /\ saved /\ Load(TRUE) =>
        /\ sqlChanOps \subseteq sqlChanOps'
        /\ \A o \in sqlChanOps, d \in Day : day'[o][d] >= day[o][d]]_vars

(* Who stays an operator is written one day, unless that fails, and a      *)
(* shutdown ends.                                                          *)
OpsAreStored ==
    /\ \A o \in Op : o \in sqlChanOps ~> o \in chanOps \cup unsure \/ o \notin sqlChanOps \/ ~Running
    /\ pc = "detach" ~> pc = "down"
=============================================================================
