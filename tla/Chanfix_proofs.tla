---------------------------- MODULE Chanfix_proofs ----------------------------
(* Proofs about mod.openchanfix: a fix leaves nothing behind, whoever ends *)
(* it, for any clients, scores and intervals; and no operator is lost      *)
(* between memory and the database, for any number of operators, days and  *)
(* failures.                                                               *)
EXTENDS MCChanfix, TLAPS

-----------------------------------------------------------------------------
(* Fixing.                                                                 *)
LEMMA Ages ==
    /\ MaxAge \in Nat /\ MaxAge > 0 /\ 0 \in Age /\ None \notin Age /\ Delay \in Age
    /\ AutoInterval \in Age /\ ChanInterval \in Age
BY FixingAssumption DEF MaxAge, Age

LEMMA MaxOfTwo == ASSUME NEW x \in Int, NEW y \in Int PROVE Max({x, y}) = IF x > y THEN x ELSE y
<1> DEFINE m == IF x > y THEN x ELSE y
<1>1. m \in {x, y} /\ \A z \in {x, y} : m >= z
  OBVIOUS
<1>2. \A n \in {x, y} : (\A z \in {x, y} : n >= z) => n = m
  OBVIOUS
<1> HIDE DEF m
<1>3. Max({x, y}) = m
  BY <1>1, <1>2 DEF Max
<1> QED
  BY <1>3 DEF m

LEMMA MinOfTwo == ASSUME NEW x \in Int, NEW y \in Int PROVE Min({x, y}) = IF x > y THEN y ELSE x
<1> DEFINE m == IF x > y THEN y ELSE x
<1>1. m \in {x, y} /\ \A z \in {x, y} : m =< z
  OBVIOUS
<1>2. \A n \in {x, y} : (\A z \in {x, y} : n =< z) => n = m
  OBVIOUS
<1> HIDE DEF m
<1>3. Min({x, y}) = m
  BY <1>1, <1>2 DEF Min
<1> QED
  BY <1>3 DEF m

LEMMA Ageing ==
    /\ \A x \in Age \cup {None} : Older(x) \in Age \cup {None} /\ (Older(x) = None <=> x = None)
    /\ \A x \in Age : Max({0, x - 1}) \in Age
<1>1. ASSUME NEW x \in Age
      PROVE  Older(x) \in Age /\ Older(x) # None /\ Max({0, x - 1}) \in Age
  <2>1. x \in Int /\ x >= 0 /\ x <= MaxAge /\ MaxAge \in Int /\ x # None
    BY Ages DEF Age
  <2>2. Min({x + 1, MaxAge}) = IF x + 1 > MaxAge THEN MaxAge ELSE x + 1
    BY <2>1, MinOfTwo
  <2>3. Max({0, x - 1}) = IF 0 > x - 1 THEN 0 ELSE x - 1
    BY <2>1, MaxOfTwo
  <2> DEFINE n == Min({x + 1, MaxAge})
  <2> DEFINE k == Max({0, x - 1})
  <2> HIDE DEF n, k
  <2>4. n \in Age /\ k \in Age
    BY <2>1, <2>2, <2>3 DEF Age, n, k
  <2> QED
    BY <2>1, <2>4, Ages DEF Older, n, k
<1>2. Older(None) = None
  BY DEF Older
<1> QED
  BY <1>1, <1>2

(* The bot is not on a blocked channel, whose fix CHANFIX may end without  *)
(* looking for it.                                                         *)
Quiet == blocked => bot = "out"

FInv == FixLeavesNothing /\ Quiet

(* What the parts of the invariant say of a fix.                           *)
LEMMA FixOf ==
    ASSUME FInv
    PROVE  /\ role \in [Client -> {"off", "on", "op"}] /\ bot \in {"out", "plain", "op"}
           /\ queue \in {"none", "auto", "man"} /\ due \in Age
           /\ fixStart \in Age \cup {None} /\ lastAttempt \in Age \cup {None}
           /\ blocked \in BOOLEAN /\ tempBlocked \in BOOLEAN
           /\ enough \in BOOLEAN /\ kept \in BOOLEAN
           /\ currentState \in {"RUN", "SPLIT", "BURST"}
           /\ bot # "out" => queue # "none"
           /\ fixStart = None <=> lastAttempt = None
           /\ queue = "none" /\ fixStart # None => kept
           /\ blocked => bot = "out"
BY DEF FInv, FixLeavesNothing, VisitBelongs, FreshStart, TypeOK, Quiet

LEMMA IsFix ==
    ASSUME role' \in [Client -> {"off", "on", "op"}], bot' \in {"out", "plain", "op"},
           queue' \in {"none", "auto", "man"}, due' \in Age,
           fixStart' \in Age \cup {None}, lastAttempt' \in Age \cup {None},
           blocked' \in BOOLEAN, tempBlocked' \in BOOLEAN,
           enough' \in BOOLEAN, kept' \in BOOLEAN,
           currentState' \in {"RUN", "SPLIT", "BURST"},
           bot' # "out" => queue' # "none",
           fixStart' = None <=> lastAttempt' = None,
           queue' = "none" /\ fixStart' # None => kept',
           blocked' => bot' = "out"
    PROVE  FInv'
BY DEF FInv, FixLeavesNothing, VisitBelongs, FreshStart, TypeOK, Quiet

LEMMA FixInit == Init => FInv
BY Ages DEF Init, FInv, FixLeavesNothing, VisitBelongs, FreshStart, TypeOK, Quiet

LEMMA Stopped ==
    ASSUME FInv, NEW force \in BOOLEAN, stopFixingChan(force)
    PROVE  /\ queue' \in {"none", "auto", "man"} /\ due' \in Age /\ bot' = "out"
           /\ fixStart' \in Age \cup {None} /\ lastAttempt' \in Age \cup {None}
           /\ kept' \in BOOLEAN
           /\ fixStart' = None <=> lastAttempt' = None
           /\ queue' = "none" /\ fixStart' # None => kept'
BY FixOf, Ages DEF stopFixingChan, Forget, fix

LEMMA Queued ==
    ASSUME FInv, processQueue
    PROVE  FInv'
<1>1. blocked' = blocked /\ tempBlocked' = tempBlocked /\ UNCHANGED network /\ queue # "none"
  BY DEF processQueue
<1>2. role' \in [Client -> {"off", "on", "op"}]
  BY FixOf DEF processQueue
<1>3. \E start \in Age \cup {None}, last \in Age \cup {None} :
        (start = None <=> last = None) /\ (Done(start, last) \/ Later(start, last))
  <2>1. CASE Since(lastAttempt) >= Interval(queue)
    <3> DEFINE start == IF fixStart = None THEN 0 ELSE fixStart
    <3>1. start \in Age /\ 0 \in Age /\ start # None /\ 0 # None
      BY FixOf, Ages
    <3>2. Done(start, 0) \/ Later(start, 0)
      BY <2>1 DEF processQueue
    <3> HIDE DEF start
    <3> QED
      BY <3>1, <3>2
  <2>2. CASE ~(Since(lastAttempt) >= Interval(queue))
    <3>1. Done(fixStart, lastAttempt) \/ Later(fixStart, lastAttempt)
      BY <2>2 DEF processQueue
    <3> QED
      BY <3>1, FixOf
  <2> QED
    BY <2>1, <2>2
<1>4. PICK start \in Age \cup {None}, last \in Age \cup {None} :
        (start = None <=> last = None) /\ (Done(start, last) \/ Later(start, last))
  BY <1>3
<1>5. CASE Done(start, last)
  <2>1. /\ queue' = "none" /\ due' = 0 /\ bot' = "out"
        /\ \/ fixStart' = None /\ lastAttempt' = None /\ kept' = FALSE
           \/ fixStart' = start /\ lastAttempt' = last /\ kept' = TRUE
    BY <1>5 DEF Done, Forget, Exists
  <2> QED
    BY <1>1, <1>2, <1>4, <2>1, FixOf, Ages, IsFix DEF network
<1>6. CASE Later(start, last)
  <2>1. /\ due' \in Age /\ fixStart' = start /\ lastAttempt' = last
        /\ UNCHANGED <<queue, bot, kept>>
    BY <1>6, Ages DEF Later, Interval
  <2> QED
    BY <1>1, <1>2, <1>4, <2>1, FixOf, IsFix DEF network
<1> QED
  BY <1>4, <1>5, <1>6


(* Everything else that moves.  What manualFix() and stopFixingChan() do   *)
(* to the bot needs the channel not to be blocked, or the bot out.         *)
LEMMA Timed == ASSUME FInv, autoFix \/ expireTempBlocks \/ Tick PROVE FInv'
<1>1. CASE autoFix
  <2>1. bot' \in {"out", "plain", "op"}
    BY <1>1, FixOf DEF autoFix
  <2>2. queue' = "auto" /\ due' = 0 /\ ~blocked
    BY <1>1 DEF autoFix
  <2>3. UNCHANGED <<role, fixStart, lastAttempt, kept, blocked, tempBlocked, network>>
    BY <1>1 DEF autoFix
  <2> QED
    BY <2>1, <2>2, <2>3, FixOf, Ages, IsFix DEF network
<1>2. CASE expireTempBlocks
  BY <1>2, FixOf, IsFix DEF expireTempBlocks, channel, fix, network
<1>3. CASE Tick
  <2>1. /\ due' \in Age /\ fixStart' \in Age \cup {None} /\ lastAttempt' \in Age \cup {None}
        /\ fixStart' = None <=> fixStart = None
        /\ lastAttempt' = None <=> lastAttempt = None
    BY <1>3, FixOf, Ageing DEF Tick
  <2>2. UNCHANGED <<channel, queue, kept, blocked, tempBlocked, network>>
    BY <1>3 DEF Tick
  <2> QED
    BY <2>1, <2>2, FixOf, IsFix DEF channel, network
<1> QED
  BY <1>1, <1>2, <1>3

LEMMA Manual ==
    ASSUME FInv, manualFix
    PROVE  /\ role' \in [Client -> {"off", "on", "op"}] /\ bot' \in {"out", "plain", "op"}
           /\ queue' = "man" /\ due' \in Age
BY FixOf, Ages DEF manualFix

LEMMA Used == ASSUME FInv, Users PROVE FInv'
<1>1. ASSUME NEW x \in Client, Join(x) \/ Leave(x) \/ Deop(x)
      PROVE  FInv'
  <2>1. role' \in [Client -> {"off", "on", "op"}]
    BY <1>1, FixOf DEF Join, Leave, Deop
  <2>2. UNCHANGED <<bot, fix, blocked, tempBlocked, network>>
    BY <1>1 DEF Join, Leave, Deop
  <2> QED
    BY <2>1, <2>2, FixOf, IsFix DEF fix, network
<1>2. ASSUME NEW x \in Client, REQUESTOP(x)
      PROVE  FInv'
  <2>1. manualFix /\ ~blocked
    BY <1>2 DEF REQUESTOP
  <2>2. UNCHANGED <<fixStart, lastAttempt, kept, blocked, tempBlocked, network>>
    BY <1>2 DEF REQUESTOP
  <2> QED
    BY <2>1, <2>2, Manual, FixOf, IsFix DEF network
<1>3. ASSUME NEW x \in Client, NEW service \in BOOLEAN, OnChannelModeO(x, service)
      PROVE  FInv'
  <2>1. role' \in [Client -> {"off", "on", "op"}]
    BY <1>3, FixOf DEF OnChannelModeO
  <2>2. tempBlocked' \in BOOLEAN /\ UNCHANGED <<blocked, network>>
    BY <1>3, FixOf DEF OnChannelModeO
  <2>3. stopFixingChan(FALSE) \/ UNCHANGED <<bot, fix>>
    BY <1>3 DEF OnChannelModeO
  <2>4. CASE stopFixingChan(FALSE)
    BY <2>1, <2>2, <2>4, Stopped, FixOf, IsFix DEF network
  <2>5. CASE UNCHANGED <<bot, fix>>
    BY <2>1, <2>2, <2>5, FixOf, IsFix DEF fix, network
  <2> QED
    BY <2>3, <2>4, <2>5
<1>4. ASSUME NEW x \in {"out", "plain", "op"}, ToBot(x)
      PROVE  FInv'
  BY <1>4, FixOf, IsFix DEF ToBot, fix, network
<1> QED
  BY <1>1, <1>2, <1>3, <1>4 DEF Users

LEMMA Commanded == ASSUME FInv, Operators PROVE FInv'
<1>1. CASE BLOCK
  <2>1. blocked' = TRUE /\ UNCHANGED <<role, tempBlocked, network>>
    BY <1>1 DEF BLOCK
  <2>2. CASE stopFixingChan(TRUE)
    BY <2>1, <2>2, Stopped, FixOf, IsFix DEF network
  <2>3. CASE ~(Exists /\ queue # "none") /\ UNCHANGED <<bot, fix>>
    <3>1. bot = "out"
      BY <2>3, FixOf DEF Exists
    <3> QED
      BY <2>1, <2>3, <3>1, FixOf, IsFix DEF fix, network
  <2> QED
    BY <1>1, <2>2, <2>3 DEF BLOCK
<1>2. CASE UNBLOCK
  BY <1>2, FixOf, IsFix DEF UNBLOCK, channel, fix, network
<1>3. ASSUME NEW override \in BOOLEAN, CHANFIX(override)
      PROVE  FInv'
  <2>1. UNCHANGED <<fixStart, lastAttempt, blocked, tempBlocked, network>>
    BY <1>3 DEF CHANFIX
  <2>2. kept' \in BOOLEAN /\ (fixStart # None => kept')
    BY <1>3, FixOf DEF CHANFIX
  <2>3. CASE blocked
    <3>1. queue' = "none" /\ due' = 0 /\ UNCHANGED channel /\ bot = "out"
      BY <1>3, <2>3, FixOf DEF CHANFIX
    <3> QED
      BY <2>1, <2>2, <3>1, Ages, FixOf, IsFix DEF channel, network
  <2>4. CASE ~blocked
    <3>1. manualFix
      BY <1>3, <2>4 DEF CHANFIX
    <3> QED
      BY <2>1, <2>2, <2>4, <3>1, Manual, FixOf, IsFix DEF network
  <2> QED
    BY <2>3, <2>4
<1> QED
  BY <1>1, <1>2, <1>3 DEF Operators

LEMMA Networked == ASSUME FInv, ServerMode \/ checkNetwork \/ BurstComplete PROVE FInv'
<1>1. CASE ServerMode
  BY <1>1, FixOf, IsFix DEF ServerMode, channel, fix, network
<1>2. CASE checkNetwork
  BY <1>2, FixOf, IsFix DEF checkNetwork, channel, fix
<1>3. CASE BurstComplete
  BY <1>3, FixOf, IsFix DEF BurstComplete, channel, fix
<1> QED
  BY <1>1, <1>2, <1>3

(* Whoever ends a fix, in whatever order with the others, sends the bot    *)
(* away and forgets when the fix began, but for the two ways that leave    *)
(* the times behind (src/mod.openchanfix/chanfix.cc).                      *)
THEOREM FixesEndClean == Spec => []FixLeavesNothing
<1>1. FInv /\ [Next]_vars => FInv'
  <2>1. CASE Next
    BY <2>1, Queued, Timed, Used, Commanded, Networked DEF Next
  <2>2. CASE UNCHANGED vars
    BY <2>2, FixOf, IsFix DEF vars, channel, fix, network
  <2> QED
    BY <2>1, <2>2
<1>2. FInv => FixLeavesNothing
  BY DEF FInv
<1> QED
  BY FixInit, <1>1, <1>2, PTL DEF Spec

-----------------------------------------------------------------------------
(* Scores.                                                                 *)
LEMMA Slots ==
    /\ \A x \in S!Day : (x + 1) % daySamples \in S!Day
    /\ 0 \in S!Day /\ 0 \in 0..MaxPoints /\ S!NoPoints \in S!Points
    /\ S!Idle \in S!Snapshot
<1>1. daySamples \in Nat \ {0} /\ MaxPoints \in Nat
  BY ScoresAssumed DEF S!ScoresAssumption
<1>2. ASSUME NEW x \in S!Day PROVE (x + 1) % daySamples \in S!Day
  BY <1>1, <1>2 DEF S!Day
<1>3. 0 \in S!Day /\ 0 \in 0..MaxPoints
  BY <1>1 DEF S!Day
<1> QED
  BY <1>2, <1>3 DEF S!NoPoints, S!Points, S!Idle, S!Snapshot

(* The table has what memory has, but for what is still to be written, ... *)
Written ==
    \A o \in sqlChanOps \ (dirty \cup sync.ops \cup unsure) :
        o \in chanOps /\ daily[o][currentDay] >= day[o][currentDay]

(* ... and nobody else, but for those still to be deleted.                 *)
Known == chanOps \subseteq sqlChanOps \cup pendingDeletes \cup sync.deletes \cup sync.ops \cup unsure

(* What the thread writes is not stale, unless it will be written again.   *)
Snap ==
    /\ \A o \in (sync.ops \cap sqlChanOps) \ dirty :
          sync.slot = currentDay /\ sync.points[o] = day[o][currentDay]
    /\ sync.ops \subseteq sqlChanOps \cup pendingDeletes

(* Whoever is to be deleted and is back will be written again.             *)
Gone ==
    /\ pendingDeletes \cap sqlChanOps \subseteq dirty
    /\ (sync.deletes \ sync.ops) \cap sqlChanOps \subseteq dirty

Saved ==
    saved => /\ pc = "down" /\ sqlChanOps \subseteq chanOps
             /\ \A o \in sqlChanOps, d \in S!Day : daily[o][d] >= day[o][d]

Stored == Written /\ Known /\ Snap /\ Gone

SInv ==
    /\ S!TypeOK /\ Saved
    /\ pc = "down" => sync = S!Idle
    /\ pc # "down" => Stored

LEMMA ScoresInit == ASSUME S!Init PROVE SInv
<1>1. 0 \in 0..MaxFail
  BY ScoresAssumed DEF S!ScoresAssumption
<1>2. S!TypeOK
  BY <1>1, Slots DEF S!Init, S!TypeOK
<1>3. Stored
  BY DEF S!Init, Stored, Written, Known, Snap, Gone, S!Idle
<1> QED
  BY <1>2, <1>3 DEF S!Init, SInv, Saved

LEMMA Seen == ASSUME SInv, NEW o \in Op, S!gotOpped(o) PROVE SInv'
<1>1. pc = "run" /\ Stored /\ S!TypeOK
  BY DEF S!gotOpped, S!Running, SInv
<1>2. S!TypeOK' /\ Saved' /\ pc' = "run"
  BY <1>1 DEF S!gotOpped, S!TypeOK, S!tables, SInv, Saved
<1>3. Stored'
  BY <1>1 DEF S!gotOpped, S!tables, Stored, Written, Known, Snap, Gone
<1> QED
  BY <1>2, <1>3 DEF SInv

LEMMA Pointed == ASSUME SInv, NEW T \in SUBSET Op, S!giveAllOpsPoints(T) PROVE SInv'
<1>1. pc = "run" /\ Stored /\ S!TypeOK
  BY DEF S!giveAllOpsPoints, S!Running, SInv
<1>2. \A o \in Op : /\ day'[o] \in S!Points
                    /\ o \notin T => day'[o] = day[o]
  <2> SUFFICES ASSUME NEW o \in Op
               PROVE  day'[o] \in S!Points /\ (o \notin T => day'[o] = day[o])
    OBVIOUS
  <2>1. CASE o \notin T
    BY <1>1, <2>1 DEF S!giveAllOpsPoints, S!TypeOK
  <2>2. CASE o \in T
    <3>1. day'[o] = [day[o] EXCEPT ![currentDay] = @ + 1] /\ day[o][currentDay] < MaxPoints
      BY <2>2 DEF S!giveAllOpsPoints
    <3>2. currentDay \in S!Day /\ day[o] \in [S!Day -> 0..MaxPoints] /\ MaxPoints \in Nat
      BY <1>1, ScoresAssumed DEF S!TypeOK, S!Points, S!ScoresAssumption
    <3>3. day[o][currentDay] + 1 \in 0..MaxPoints
      BY <3>1, <3>2
    <3> QED
      BY <2>2, <3>1, <3>2, <3>3 DEF S!Points
  <2> QED
    BY <2>1, <2>2
<1>3. day' = [o \in Op |-> day'[o]]
  BY DEF S!giveAllOpsPoints
<1>4. S!TypeOK' /\ Saved' /\ pc' = "run"
  BY <1>1, <1>2, <1>3 DEF S!giveAllOpsPoints, S!Touched, S!TypeOK, S!tables, SInv, Saved
<1>5. Stored'
  BY <1>1, <1>2 DEF S!giveAllOpsPoints, S!Touched, S!TypeOK, S!tables, Stored, Written, Known, Snap, Gone
<1> QED
  BY <1>4, <1>5 DEF SInv

LEMMA Rotated ==
    ASSUME SInv, S!Midnight \/ S!OnDetach \/ \E old \in SUBSET Op : S!rotateDB(old)
    PROVE  SInv'
<1>1. CASE S!Midnight
  BY <1>1, Slots DEF S!Midnight, S!Running, S!TypeOK, S!tables, SInv, Saved, Stored, Written, Known, Snap, Gone
<1>2. CASE S!OnDetach
  BY <1>2 DEF S!OnDetach, S!Running, S!TypeOK, S!tables, S!memory, SInv, Saved, Stored, Written, Known, Snap, Gone
<1>3. ASSUME NEW old \in SUBSET Op, S!rotateDB(old) PROVE SInv'
  <2>1. pc = "run" /\ Stored /\ S!TypeOK /\ pc' = "run" /\ Saved'
    BY <1>3 DEF S!rotateDB, S!Running, SInv, S!tables, Saved
  <2>2. PICK gone \in SUBSET sqlChanOps :
          /\ sqlChanOps' = sqlChanOps \ gone /\ dirty' = sqlChanOps \ gone
          /\ pendingDeletes' = pendingDeletes \cup gone
    BY <1>3 DEF S!rotateDB, S!Deletes
  <2>3. day' \in [Op -> S!Points]
    BY <1>3, <2>1, Slots DEF S!rotateDB, S!TypeOK, S!Points
  <2>4. currentDay' = today /\ UNCHANGED <<pc, today, sync, S!tables, saved, unsure, fails>>
    BY <1>3 DEF S!rotateDB
  <2>5. S!TypeOK'
    BY <2>1, <2>2, <2>3, <2>4 DEF S!TypeOK, S!tables
  <2>6. Stored'
    BY <2>1, <2>2, <2>4 DEF S!tables, Stored, Written, Known, Snap, Gone
  <2> QED
    BY <2>1, <2>5, <2>6 DEF SInv
<1> QED
  BY <1>1, <1>2, <1>3

LEMMA Given == ASSUME SInv, S!syncToDB PROVE SInv'
<1>1. pc = "run" /\ Stored /\ S!TypeOK /\ sync = S!Idle
  BY DEF S!syncToDB, S!Running, S!syncThreadRunning, SInv
<1>2. /\ sync'.ops = dirty /\ sync'.slot = currentDay /\ sync'.deletes = pendingDeletes
      /\ \A o \in dirty : sync'.points[o] = day[o][currentDay]
      /\ sync.ops = {} /\ sync.deletes = {}
  BY <1>1 DEF S!syncToDB, S!Idle, S!TypeOK
<1>3. sync' \in S!Snapshot
  <2>1. [o \in Op |-> IF o \in dirty THEN day[o][currentDay] ELSE 0] \in [Op -> 0..MaxPoints]
    BY <1>1, Slots DEF S!TypeOK, S!Points
  <2> QED
    BY <1>1, <2>1 DEF S!syncToDB, S!Snapshot, S!TypeOK
<1>4. S!TypeOK' /\ Saved' /\ pc' = "run"
  BY <1>1, <1>3 DEF S!syncToDB, S!TypeOK, S!tables, SInv, Saved
<1>5. Stored'
  BY <1>1, <1>2 DEF S!syncToDB, S!TypeOK, S!tables, Stored, Written, Known, Snap, Gone
<1> QED
  BY <1>4, <1>5 DEF SInv

LEMMA Counts == ASSUME S!TypeOK, NEW ok \in BOOLEAN, S!Result(ok) PROVE fails' \in 0..MaxFail
BY ScoresAssumed DEF S!TypeOK, S!Result, S!ScoresAssumption

LEMMA Wrote == ASSUME SInv, NEW ok \in BOOLEAN, S!syncWorker(ok) PROVE SInv'
<1>1. pc # "down" /\ Stored /\ S!TypeOK /\ pc' = pc /\ saved' = saved /\ saved = FALSE
  BY DEF S!syncWorker, S!syncThreadRunning, SInv, Saved, S!TypeOK
<1>2. fails' \in 0..MaxFail /\ sync' = S!Idle /\ UNCHANGED S!memory
  BY <1>1, Counts DEF S!syncWorker
<1>3. sync'.ops = {} /\ sync'.deletes = {}
  BY <1>2 DEF S!Idle
<1>4. CASE ok
  <2>1. /\ chanOps' = (chanOps \ sync.deletes) \cup sync.ops
        /\ unsure' = unsure \ (sync.ops \cup sync.deletes)
    BY <1>4 DEF S!syncWorker, S!Rows
  <2>2. daily' = [o \in Op |->
                    IF o \notin chanOps' THEN S!NoPoints
                    ELSE IF o \in sync.ops
                    THEN [S!Base(o, sync.deletes) EXCEPT ![sync.slot] = sync.points[o]]
                    ELSE S!Base(o, sync.deletes)]
    BY <1>4 DEF S!syncWorker
  <2>3. sync.ops \subseteq Op /\ sync.deletes \subseteq Op /\ sync.slot \in S!Day
        /\ sync.points \in [Op -> 0..MaxPoints]
    BY <1>1 DEF S!TypeOK, S!Snapshot
  <2>4. \A o \in Op : S!Base(o, sync.deletes) \in S!Points
    BY <1>1, Slots DEF S!Base, S!TypeOK
  <2>5. daily' \in [Op -> S!Points]
    BY <2>2, <2>3, <2>4, Slots DEF S!Points
  <2>6. S!TypeOK'
    BY <1>1, <1>2, <2>1, <2>3, <2>5, Slots DEF S!TypeOK, S!memory
  <2>7. \A o \in sync.ops : o \in chanOps' /\ daily'[o][sync.slot] = sync.points[o]
    BY <2>1, <2>2, <2>3, <2>4 DEF S!Points
  <2>8. \A o \in chanOps \ (sync.ops \cup sync.deletes) : o \in chanOps' /\ daily'[o] = daily[o]
    BY <1>1, <2>1, <2>2 DEF S!Base, S!TypeOK
  <2>9. Written'
    <3> SUFFICES ASSUME NEW o \in sqlChanOps \ (dirty \cup unsure')
                 PROVE  o \in chanOps' /\ daily'[o][currentDay] >= day[o][currentDay]
      BY <1>2, <1>3 DEF Written, S!memory
    <3>1. CASE o \in sync.ops
      <4>1. sync.slot = currentDay /\ sync.points[o] = day[o][currentDay]
        BY <1>1, <3>1 DEF Stored, Snap
      <4>2. sync.points[o] \in Int
        BY <2>3, <3>1
      <4> QED
        BY <2>7, <3>1, <4>1, <4>2
    <3>2. CASE o \notin sync.ops
      <4>1. o \notin sync.deletes
        BY <1>1, <3>2 DEF Stored, Gone
      <4>2. o \in chanOps /\ daily[o][currentDay] >= day[o][currentDay]
        BY <1>1, <2>1, <3>2, <4>1 DEF Stored, Written
      <4> QED
        BY <2>8, <3>2, <4>1, <4>2
    <3> QED
      BY <3>1, <3>2
  <2>10. Known' /\ Snap' /\ Gone'
    BY <1>1, <1>2, <1>3, <2>1 DEF S!memory, Stored, Known, Snap, Gone
  <2> QED
    BY <1>1, <2>6, <2>9, <2>10 DEF SInv, Stored, Saved
<1>5. CASE ~ok
  <2>1. UNCHANGED S!tables /\ unsure' = unsure \cup sync.ops \cup sync.deletes
    BY <1>5 DEF S!syncWorker
  <2>2. sync.ops \subseteq Op /\ sync.deletes \subseteq Op
    BY <1>1 DEF S!TypeOK, S!Snapshot
  <2>3. S!TypeOK'
    BY <1>1, <1>2, <2>1, <2>2, Slots DEF S!TypeOK, S!memory, S!tables
  <2>4. Stored'
    BY <1>1, <1>2, <1>3, <2>1 DEF S!memory, S!tables, Stored, Written, Known, Snap, Gone
  <2> QED
    BY <1>1, <2>3, <2>4 DEF SInv, Saved
<1> QED
  BY <1>4, <1>5

(* syncToDB(true): what is in memory is in the table, with all its points. *)
LEMMA Forced ==
    ASSUME S!TypeOK, Stored, sync = S!Idle, NEW ok \in BOOLEAN, S!ForceAll(ok),
           UNCHANGED <<today, currentDay, sqlChanOps, day, sync>>,
           pc' \in {"run", "detach", "down"}, saved' \in BOOLEAN
    PROVE  /\ S!TypeOK' /\ Stored'
           /\ ok => /\ sqlChanOps \subseteq chanOps'
                    /\ \A o \in sqlChanOps, d \in S!Day : daily'[o][d] >= day[o][d]
<1>1. /\ fails' \in 0..MaxFail /\ dirty' = {} /\ pendingDeletes' = {}
      /\ sync.ops = {} /\ sync.deletes = {}
  BY Counts DEF S!ForceAll, S!Idle
<1>2. sqlChanOps \subseteq Op /\ pendingDeletes \subseteq Op /\ currentDay \in S!Day
  BY DEF S!TypeOK
<1>3. CASE ok
  <2>1. /\ chanOps' = (chanOps \ pendingDeletes) \cup sqlChanOps
        /\ unsure' = unsure \ (sqlChanOps \cup pendingDeletes)
    BY <1>3 DEF S!ForceAll, S!Rows
  <2>2. daily' = [o \in Op |->
                    IF o \notin chanOps' THEN S!NoPoints
                    ELSE [d \in S!Day |-> IF o \in sqlChanOps /\ day[o][d] > 0 THEN day[o][d]
                                          ELSE S!Base(o, pendingDeletes)[d]]]
    BY <1>3 DEF S!ForceAll
  <2>3. \A o \in Op : S!Base(o, pendingDeletes) \in S!Points
    BY Slots DEF S!Base, S!TypeOK
  <2>4. \A o \in Op, d \in S!Day :
          (IF o \in sqlChanOps /\ day[o][d] > 0 THEN day[o][d] ELSE S!Base(o, pendingDeletes)[d])
             \in 0..MaxPoints
    BY <2>3 DEF S!TypeOK, S!Points
  <2>5. daily' \in [Op -> S!Points]
    BY <2>2, <2>4, Slots DEF S!Points
  <2>6. S!TypeOK'
    BY <1>1, <1>2, <2>1, <2>5 DEF S!TypeOK
  <2>7. ASSUME NEW o \in sqlChanOps, NEW d \in S!Day PROVE daily'[o][d] >= day[o][d]
    <3>1. day[o][d] \in 0..MaxPoints /\ S!Base(o, pendingDeletes)[d] \in 0..MaxPoints
      BY <1>2, <2>3, <2>7 DEF S!TypeOK, S!Points
    <3>2. daily'[o][d] = IF day[o][d] > 0 THEN day[o][d] ELSE S!Base(o, pendingDeletes)[d]
      BY <1>2, <2>1, <2>2, <2>7
    <3> QED
      BY <3>1, <3>2
  <2>8. Written' /\ Snap' /\ Gone'
    BY <1>1, <1>2, <2>1, <2>7 DEF Written, Snap, Gone
  <2>9. Known'
    BY <1>1, <2>1 DEF Stored, Known
  <2> QED
    BY <2>1, <2>6, <2>7, <2>8, <2>9 DEF Stored
<1>4. CASE ~ok
  <2>1. UNCHANGED S!tables /\ unsure' = unsure \cup sqlChanOps \cup pendingDeletes
    BY <1>4 DEF S!ForceAll
  <2>2. S!TypeOK'
    BY <1>1, <1>2, <2>1 DEF S!TypeOK, S!tables
  <2>3. Stored'
    BY <1>1, <2>1 DEF S!tables, Stored, Written, Known, Snap, Gone
  <2> QED
    BY <1>4, <2>2, <2>3
<1> QED
  BY <1>3, <1>4

LEMMA Ends ==
    ASSUME SInv,
           \/ \E ok \in BOOLEAN : S!DebugUpdate(ok) \/ S!Finish(ok) \/ S!Load(ok)
           \/ S!Crash
    PROVE  SInv'
<1>0. S!TypeOK
  BY DEF SInv
<1>1. ASSUME NEW ok \in BOOLEAN, S!DebugUpdate(ok) PROVE SInv'
  <2>1. /\ pc = "run" /\ pc' = "run" /\ sync = S!Idle /\ saved' = saved /\ saved = FALSE
        /\ Stored /\ S!ForceAll(ok)
        /\ UNCHANGED <<today, currentDay, sqlChanOps, day, sync>>
    BY <1>0, <1>1 DEF S!DebugUpdate, S!Running, S!syncThreadRunning, SInv, Saved, S!TypeOK
  <2>2. S!TypeOK' /\ Stored'
    BY <1>0, <2>1, Forced
  <2> QED
    BY <2>1, <2>2 DEF SInv, Saved
<1>2. ASSUME NEW ok \in BOOLEAN, S!Finish(ok) PROVE SInv'
  <2>1. /\ pc = "detach" /\ pc' = "down" /\ sync = S!Idle /\ saved' = ok
        /\ Stored /\ S!ForceAll(ok)
        /\ UNCHANGED <<today, currentDay, sqlChanOps, day, sync>>
    BY <1>2 DEF S!Finish, S!MayFinish, S!syncThreadRunning, SInv
  <2>2. /\ S!TypeOK'
        /\ ok => /\ sqlChanOps \subseteq chanOps'
                 /\ \A o \in sqlChanOps, d \in S!Day : daily'[o][d] >= day[o][d]
    BY <1>0, <2>1, Forced
  <2> QED
    BY <2>1, <2>2 DEF SInv, Saved
<1>3. ASSUME NEW ok \in BOOLEAN, S!Load(ok) PROVE SInv'
  <2>1. /\ pc' = "run" /\ saved' = FALSE /\ sync' = S!Idle /\ sync' = sync
        /\ today' \in S!Day /\ currentDay' = today' /\ sqlChanOps' = chanOps
        /\ day' = (IF ok THEN daily ELSE [o \in Op |-> S!NoPoints])
        /\ dirty' = {} /\ pendingDeletes' = {} /\ unsure' = {} /\ UNCHANGED S!tables
    BY <1>3 DEF S!Load, S!syncThreadRunning
  <2>2. fails' \in 0..MaxFail
    BY <1>0, <1>3, Counts DEF S!Load
  <2>3. \A o \in Op, d \in S!Day : daily[o][d] >= day'[o][d]
    <3> SUFFICES ASSUME NEW o \in Op, NEW d \in S!Day PROVE daily[o][d] >= day'[o][d]
      OBVIOUS
    <3>1. daily[o][d] \in 0..MaxPoints
      BY <1>0 DEF S!TypeOK, S!Points
    <3>2. day'[o][d] = daily[o][d] \/ day'[o][d] = 0
      BY <2>1 DEF S!NoPoints
    <3> QED
      BY <3>1, <3>2
  <2>4. S!TypeOK'
    BY <1>0, <2>1, <2>2, Slots DEF S!TypeOK, S!tables
  <2>5. sync'.ops = {} /\ sync'.deletes = {}
    BY <2>1 DEF S!Idle
  <2>6. Stored'
    BY <1>0, <2>1, <2>3, <2>5 DEF S!TypeOK, S!tables, Stored, Written, Known, Snap, Gone
  <2> QED
    BY <2>1, <2>4, <2>6 DEF SInv, Saved
<1>4. CASE S!Crash
  BY <1>0, <1>4, Slots DEF S!Crash, S!TypeOK, S!memory, S!tables, SInv, Saved
<1> QED
  BY <1>1, <1>2, <1>3, <1>4

LEMMA ScoresStep == ASSUME SInv, [S!Next]_(S!vars) PROVE SInv'
<1>1. CASE S!Next
  <2>1. CASE S!Main
    BY <2>1, Seen, Pointed, Rotated, Given, Ends DEF S!Main
  <2>2. CASE S!Worker
    BY <2>2, Wrote DEF S!Worker
  <2>3. CASE S!Finishes \/ S!Crash \/ S!Start
    BY <2>3, Ends DEF S!Finishes, S!Start
  <2> QED
    BY <1>1, <2>1, <2>2, <2>3 DEF S!Next
<1>2. CASE UNCHANGED S!vars
  BY <1>2 DEF S!vars, S!memory, S!tables, SInv, S!TypeOK, Saved, Stored, Written, Known, Snap, Gone
<1> QED
  BY <1>1, <1>2

(* Points, rotations, snapshots and the thread, in any order: an operator  *)
(* of memory is in the table, with no fewer points of the day, unless he   *)
(* is to be written or a sync of his failed; and the table has no others   *)
(* than those on their way out (src/mod.openchanfix/chanfix.cc).           *)
THEOREM TablesFollow == S!Spec => []TableFollows
<1>1. SInv => TableFollows
  BY DEF SInv, Stored, Written, Known, TableFollows, S!TableFollows, S!Running
<1> QED
  BY ScoresInit, ScoresStep, <1>1, PTL DEF S!Spec

(* What OnDetach() saved comes back with the next start, operators and     *)
(* points.                                                                 *)
THEOREM RestartsKeep == S!Spec => RestartKeeps
<1> DEFINE Back == /\ sqlChanOps \subseteq sqlChanOps'
                   /\ \A o \in sqlChanOps, d \in S!Day : day'[o][d] >= day[o][d]
<1>1. ASSUME SInv, pc = "down" /\ saved /\ S!Load(TRUE) PROVE Back
  BY <1>1 DEF SInv, Saved, S!Load
<1>2. SInv /\ [S!Next]_(S!vars) => [pc = "down" /\ saved /\ S!Load(TRUE) => Back]_(S!vars)
  BY <1>1
<1> QED
  BY ScoresInit, ScoresStep, <1>2, PTL DEF S!Spec, RestartKeeps, S!RestartKeeps
=============================================================================
