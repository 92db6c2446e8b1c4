------------------------------- MODULE Fixing -------------------------------
(***************************************************************************)
(* How mod.openchanfix gives a channel without operators back to those     *)
(* with the best scores: found by autoFix() or asked for with CHANFIX and  *)
(* REQUESTOP, queued, tried again and again with a score that falls with   *)
(* the time since the first attempt, stopped by an operator of the channel *)
(* or by BLOCK, and put off while the network is split.                    *)
(*                                                                         *)
(* One channel.  Times are ages that stop at MaxAge, where every score is  *)
(* high enough.  Each client has an account of its own, and scores do not  *)
(* change while a channel is being fixed.  Services, +R and the number of  *)
(* days between two REQUESTOPs are left out.                               *)
(***************************************************************************)
EXTENDS Integers, FiniteSets, FiniteSetsExt

CONSTANTS
    Client,
    Score,          \* of each client's account, or 0 without one
    maxScore,
    minClients,
    NumOpped,       \* AUTOFIX_NUM_OPPED and CHANFIX_NUM_OPPED
    AutoInterval,   \* AUTOFIX_INTERVAL
    ChanInterval,   \* CHANFIX_INTERVAL
    Delay,          \* CHANFIX_DELAY
    Window,         \* AUTOFIX_MAXIMUM and CHANFIX_MAXIMUM
    RequestScore,   \* the score REQUESTOP asks for
    stopAutoFixOnOp, stopChanFixOnOp,
    None

MaxAge == 2 * Window + Delay
Age == 0..MaxAge

ASSUME FixingAssumption ==
    /\ Score \in [Client -> Nat] /\ IsFiniteSet(Client) /\ Client # {}
    /\ {maxScore, minClients, NumOpped, AutoInterval, ChanInterval, Delay, Window} \subseteq Nat \ {0}
    /\ RequestScore \in Nat \ {0} /\ {stopAutoFixOnOp, stopChanFixOnOp} \subseteq BOOLEAN
    /\ None \notin Age /\ AutoInterval <= Window /\ ChanInterval <= Window

VARIABLES
    role,       \* each client on the channel: "off", "on" or "op"
    bot,        \* the bot on it: "out", "plain" or "op"
    queue,      \* the queue the channel is in: "none", "auto" or "man"
    due,        \* the time until it is looked at
    fixStart,   \* the time since the first attempt, or None for 0
    lastAttempt,
    blocked,    \* F_BLOCKED
    tempBlocked,
    currentState,
    enough,     \* servers linked
    kept        \* fixStart has outlived the fix that set it

channel == <<role, bot>>
fix == <<queue, due, fixStart, lastAttempt, kept>>
network == <<currentState, enough>>
vars == <<channel, fix, blocked, tempBlocked, network>>

TypeOK ==
    /\ role \in [Client -> {"off", "on", "op"}] /\ bot \in {"out", "plain", "op"}
    /\ queue \in {"none", "auto", "man"} /\ due \in Age
    /\ {fixStart, lastAttempt} \subseteq Age \cup {None}
    /\ {blocked, tempBlocked, enough, kept} \subseteq BOOLEAN
    /\ currentState \in {"RUN", "SPLIT", "BURST"}

Init ==
    /\ role = [c \in Client |-> "off"] /\ bot = "out"
    /\ queue = "none" /\ due = 0 /\ fixStart = None /\ lastAttempt = None /\ kept = FALSE
    /\ blocked = FALSE /\ tempBlocked = FALSE
    /\ currentState = "RUN" /\ enough = TRUE

-----------------------------------------------------------------------------
(* The channel.                                                            *)
Members == {c \in Client : role[c] # "off"}
Ops == {c \in Client : role[c] = "op"}
Exists == Members # {} \/ bot # "out"
Size == Cardinality(Members) + (IF bot = "out" THEN 0 ELSE 1)

(* Mutant: everyone counts.                                                *)
countChanOps_All(ops, b) == Size
countChanOps(ops, b) == Cardinality(ops) + (IF b = "op" THEN 1 ELSE 0)

(* The time since x, where 0 is long ago.                                  *)
Since(x) == IF x = None THEN MaxAge ELSE x

(* The points to have at time t of a fix: the higher of a share of the     *)
(* best possible score, from 20% to 4%, and of the best score of the       *)
(* channel, from 90% to 30%, but never more than somebody has.             *)
chanMaxScore == Max({Score[c] : c \in Client})
Share(score, from, to, t) ==
    Max({0, score * (from * Window - (from - to) * t)}) \div (100 * Window)
MinScore(t) ==
    Min({chanMaxScore, Max({Share(maxScore, 20, 4, t), Share(chanMaxScore, 90, 30, t)})})
Fixable == 100 * chanMaxScore > 4 * maxScore

Scored(ops, t) == {c \in Members \ ops : Score[c] > 0 /\ Score[c] >= MinScore(t)}

(* Who is opped, the best first, until there are enough.                   *)
ToOp(candidates, room) ==
    {T \in SUBSET candidates :
        /\ Cardinality(T) = Min({room, Cardinality(candidates)})
        /\ \A c \in T, d \in candidates \ T : Score[c] >= Score[d]}

(* Does the bot join while it fixes?  Only if that ends at the first try.  *)
shouldCJoin(ops, b, t) ==
    /\ Fixable /\ countChanOps(ops, b) < NumOpped
    /\ Scored(ops, t) # {}
    /\ Cardinality(Scored(ops, t)) + countChanOps(ops, b) >= NumOpped

Forget == fixStart' = None /\ lastAttempt' = None /\ kept' = FALSE

-----------------------------------------------------------------------------
(* The timers.                                                             *)
autoFix ==
    /\ currentState = "RUN"
    /\ Size >= minClients /\ queue = "none"
    /\ Ops = {} /\ bot # "op" /\ Fixable
    /\ ~blocked /\ ~tempBlocked
    /\ queue' = "auto" /\ due' = 0
    /\ bot' = IF bot = "out" /\ shouldCJoin(Ops, bot, 0) THEN "op" ELSE bot
    /\ UNCHANGED <<role, fixStart, lastAttempt, kept, blocked, tempBlocked, network>>

Interval(q) == IF q = "auto" THEN AutoInterval ELSE ChanInterval
Lag(q) == IF q = "auto" THEN 0 ELSE Delay

(* fixChan(): T is opped.  Is the channel fixed?                           *)
Fixed(T) ==
    LET ops == countChanOps(Ops, bot) IN
    \/ ~Exists
    \/ Fixable /\ ops >= NumOpped
    \/ /\ Fixable /\ (T # {} \/ (queue = "auto" /\ ops > 0))
       /\ Cardinality(T) + ops >= Min({Size, NumOpped})

Targets(t) ==
    LET ops == countChanOps(Ops, bot) IN
    IF Fixable /\ ops < NumOpped THEN ToOp(Scored(Ops, t), NumOpped - ops) ELSE {{}}

(* The end of a fix; if the channel has gone, its times are left.          *)
Done(start, last) ==
    /\ queue' = "none" /\ due' = 0
    /\ IF Exists THEN bot' = "out" /\ Forget
       ELSE fixStart' = start /\ lastAttempt' = last /\ kept' = TRUE /\ UNCHANGED bot

(* What is left for later is looked at again after the interval.           *)
Later(start, last) ==
    /\ due' = Interval(queue) /\ fixStart' = start /\ lastAttempt' = last
    /\ UNCHANGED <<queue, bot, kept>>

Expired(start) == Since(start) > Window + Lag(queue)

(* processQueue(), for the channel.                                        *)
processQueue ==
    /\ currentState = "RUN" /\ queue # "none" /\ due = 0
    /\ IF Since(lastAttempt) >= Interval(queue)
       THEN LET start == IF fixStart = None THEN 0 ELSE fixStart IN
            \E T \in Targets(start - Lag(queue)) :
                /\ role' = [c \in Client |-> IF c \in T THEN "op" ELSE role[c]]
                /\ IF Fixed(T) \/ Expired(start) THEN Done(start, 0) ELSE Later(start, 0)
       ELSE /\ IF Expired(fixStart) THEN Done(fixStart, lastAttempt)
               ELSE Later(fixStart, lastAttempt)
            /\ UNCHANGED role
    /\ UNCHANGED <<blocked, tempBlocked, network>>

(* expireTempBlocks()                                                      *)
expireTempBlocks ==
    /\ tempBlocked /\ tempBlocked' = FALSE
    /\ UNCHANGED <<channel, fix, blocked, network>>

Older(x) == IF x = None THEN None ELSE Min({x + 1, MaxAge})

Tick ==
    /\ due > 0 \/ Older(fixStart) # fixStart \/ Older(lastAttempt) # lastAttempt
    /\ due' = Max({0, due - 1})
    /\ fixStart' = Older(fixStart) /\ lastAttempt' = Older(lastAttempt)
    /\ UNCHANGED <<channel, queue, kept, blocked, tempBlocked, network>>

-----------------------------------------------------------------------------
(* Users.  The creator of a channel is an operator.                        *)
Join(c) ==
    /\ role[c] = "off"
    /\ role' = [role EXCEPT ![c] = IF Exists THEN "on" ELSE "op"]
    /\ UNCHANGED <<bot, fix, blocked, tempBlocked, network>>

Leave(c) ==
    /\ role[c] # "off" /\ role' = [role EXCEPT ![c] = "off"]
    /\ UNCHANGED <<bot, fix, blocked, tempBlocked, network>>

Deop(c) ==
    /\ Ops # {} /\ role[c] = "op" /\ role' = [role EXCEPT ![c] = "on"]
    /\ UNCHANGED <<bot, fix, blocked, tempBlocked, network>>

(* The bot is opped, deopped or kicked.                                    *)
ToBot(b) ==
    /\ Ops # {} /\ bot # "out" /\ bot' = b
    /\ UNCHANGED <<role, fix, blocked, tempBlocked, network>>

(* Mutant: the bot stays.                                                  *)
stopFixingChan_Stays(force) ==
    /\ IF \/ queue = "auto" /\ (stopAutoFixOnOp \/ force)
          \/ queue = "man" /\ (stopChanFixOnOp \/ force)
       THEN queue' = "none" /\ due' = 0 /\ Forget
       ELSE UNCHANGED fix
    /\ UNCHANGED bot
stopFixingChan(force) ==
    /\ IF \/ queue = "auto" /\ (stopAutoFixOnOp \/ force)
          \/ queue = "man" /\ (stopChanFixOnOp \/ force)
       THEN queue' = "none" /\ due' = 0 /\ Forget
       ELSE UNCHANGED fix
    /\ bot' = "out"

(* OnChannelModeO(): a user ops c, or a client of a services server does.  *)
OnChannelModeO(c, service) ==
    /\ role[c] # "off" /\ (service \/ Ops # {})
    /\ role' = [role EXCEPT ![c] = "op"]
    /\ tempBlocked' = (tempBlocked \/ service)
    /\ IF Size >= minClients /\ Score[c] > 0 THEN stopFixingChan(FALSE) ELSE UNCHANGED <<bot, fix>>
    /\ UNCHANGED <<blocked, network>>

(* EVT_SERVERMODE of a services server, whatever the mode.  Ops it gives   *)
(* or takes stop no fix: there is no user who gave them.                   *)
ServerMode ==
    /\ currentState = "RUN" /\ Exists /\ Size >= minClients
    /\ \E ops \in SUBSET Members :
          role' = [c \in Client |-> IF role[c] = "off" THEN "off"
                                   ELSE IF c \in ops THEN "op" ELSE "on"]
    /\ tempBlocked' = TRUE
    /\ UNCHANGED <<bot, fix, blocked, network>>

-----------------------------------------------------------------------------
(* Commands.                                                               *)

(* manualFix(): everybody is deopped, and the bot may join.                *)
manualFix ==
    /\ role' = [c \in Client |-> IF role[c] = "op" THEN "on" ELSE role[c]]
    /\ bot' = IF bot # "out" THEN "plain"
              ELSE IF shouldCJoin({}, bot, -Delay) THEN "op" ELSE "out"
    /\ queue' = "man" /\ due' = Delay

(* An automatic fix is taken over with OVERRIDE, which leaves its times,   *)
(* and before it is known that the channel is blocked.                     *)
CHANFIX(override) ==
    /\ currentState = "RUN" /\ Exists /\ Fixable
    /\ queue # "man" /\ (queue = "auto" => override)
    /\ blocked \/ ~tempBlocked \/ override
    /\ IF blocked THEN queue' = "none" /\ due' = 0 /\ UNCHANGED channel ELSE manualFix
    /\ kept' = (kept \/ fixStart # None)
    /\ UNCHANGED <<fixStart, lastAttempt, blocked, tempBlocked, network>>

(* The requester has a high score, and no operator of the channel has as   *)
(* high a one.                                                             *)
REQUESTOP(c) ==
    /\ currentState = "RUN" /\ Exists
    /\ Score[c] >= RequestScore /\ \A d \in Ops : Score[d] < Score[c]
    /\ queue = "none" /\ ~blocked /\ ~tempBlocked
    /\ manualFix
    /\ UNCHANGED <<fixStart, lastAttempt, kept, blocked, tempBlocked, network>>

(* A fix is only stopped on a channel that is there.                       *)
BLOCK ==
    /\ currentState # "BURST" /\ ~blocked /\ blocked' = TRUE
    /\ IF Exists /\ queue # "none" THEN stopFixingChan(TRUE) ELSE UNCHANGED <<bot, fix>>
    /\ UNCHANGED <<role, tempBlocked, network>>

UNBLOCK ==
    /\ currentState # "BURST" /\ blocked /\ blocked' = FALSE
    /\ UNCHANGED <<channel, fix, tempBlocked, network>>

-----------------------------------------------------------------------------
(* checkNetwork(), when a server links or splits or with SET NUMSERVERS.   *)
checkNetwork ==
    /\ enough' \in BOOLEAN
    /\ currentState' = IF ~enough' THEN "SPLIT"
                       ELSE IF currentState = "SPLIT" THEN "BURST" ELSE currentState
    /\ UNCHANGED <<channel, fix, blocked, tempBlocked>>

(* EVT_BURST_CMPLT                                                         *)
BurstComplete ==
    /\ currentState # "SPLIT" /\ currentState' = "RUN"
    /\ UNCHANGED <<channel, fix, blocked, tempBlocked, enough>>

Users ==
    \/ \E c \in Client : Join(c) \/ Leave(c) \/ Deop(c) \/ REQUESTOP(c)
    \/ \E c \in Client, service \in BOOLEAN : OnChannelModeO(c, service)
    \/ \E b \in {"out", "plain", "op"} : ToBot(b)
Operators == BLOCK \/ UNBLOCK \/ \E override \in BOOLEAN : CHANFIX(override)

Next ==
    \/ autoFix \/ processQueue \/ expireTempBlocks \/ Tick
    \/ Users \/ Operators \/ ServerMode \/ checkNetwork \/ BurstComplete

Spec == Init /\ [][Next]_vars

(* The timers run again and again, and time goes on.                       *)
FairSpec == Spec /\ WF_vars(autoFix) /\ WF_vars(processQueue) /\ WF_vars(Tick)

-----------------------------------------------------------------------------
(* Properties.                                                             *)

(* The bot is on the channel only while the channel is queued: whoever     *)
(* ends a fix, users, timers or commands in any order, sends it away.      *)
VisitBelongs == TypeOK /\ (bot # "out" => queue # "none")

(* The score asked for falls with the age of fixStart.  A channel that is  *)
(* not being fixed has none, and so has a new fix until it is tried, but   *)
(* for the two ways that leave it, which kept marks.                       *)
FreshStart ==
    /\ (fixStart = None) = (lastAttempt = None)
    /\ queue = "none" /\ fixStart # None => kept

(* As long as one with enough points to be opped at the end of a fix is    *)
(* there, and nothing stands in the way of fixing, the channel has         *)
(* operators again and again.                                              *)
OpsComeBack ==
    \A c \in {d \in Client : Score[d] > 0 /\ Score[d] >= MinScore(Window)} :
        <>[](/\ currentState = "RUN" /\ role[c] # "off"
             /\ Cardinality(Members) >= minClients /\ ~blocked /\ ~tempBlocked)
            => []<>(Ops # {})
=============================================================================
